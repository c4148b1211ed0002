CONSTANTS
  party = party  sad = sad  dance = dance  cry = cry
  Phrases = {party, sad}
  Urls = {dance, cry}
  Nothing = Nothing
  Legacy <- MCLegacy
SPECIFICATION Spec
INVARIANTS Credited NothingOverlooked LegacyServed
PROPERTIES NothingForgotten OldPhrasesOnly
