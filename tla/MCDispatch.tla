---------------------------- MODULE MCDispatch ----------------------------
EXTENDS Dispatch

CONSTANTS cmd1, cmd2, typo,     \* slash commands; typo names a command nobody registered
          ask1, ask2,           \* mentions; ask2 names a command nobody registered
          hook, lost,           \* webhooks; lost names a webhook nobody registered
          modal, stale,         \* interactions; stale is of a view nobody registered
          echo, admin, auth     \* workers: two commands or interactions, a webhook

\* One table for every run: a run picks the requests it wants.
MCKind == [r \in Requests |->
    CASE r \in {cmd1, cmd2, typo} -> "command"
      [] r \in {ask1, ask2}       -> "mention"
      [] r \in {hook, lost}       -> "webhook"
      [] r \in {modal, stale}     -> "interaction"]

MCTarget == [r \in Requests |->
    CASE r \in {cmd1, cmd2, ask1}        -> echo
      [] r \in {ask2, lost, typo, stale} -> Nobody
      [] r = hook                        -> auth
      [] r = modal                       -> admin]
=============================================================================
