---------------------------- MODULE MCMessageLog ----------------------------
EXTENDS MessageLog

Kind(s, a, t) == [subtype |-> s, attached |-> a, threaded |-> t]

\* A message, one with an attachment, one in a thread, a bot's, somebody joining.
MCKinds == {Kind("", FALSE, FALSE), Kind("", TRUE, FALSE), Kind("", FALSE, TRUE),
            Kind("bot_message", FALSE, FALSE), Kind("channel_join", FALSE, FALSE)}
=============================================================================
