\* Documents of up to four values, one name in two spellings, one copy.
CONSTANTS
  Letters = {a}
  Texts = {t1}
  Words = {"true"}
  DocSize = 4
  NULL = NULL
  Long = 1
SPECIFICATION TextSpec
INVARIANTS NoMemoryLeaks TextFits ReadsFirstMember CopyIsFaithful
PROPERTIES CopyIsOwn
