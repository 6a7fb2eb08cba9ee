\* Two spellings of one name beside another, one flag, one login that waits while the page is used.
SPECIFICATION Spec
CONSTANTS
  Alike = {{A, a}, {B}}
  Settings = {allow_write}
  Logins = {l1}
  Torn = Torn
  NoName = NoName
INVARIANT TypeOK
PROPERTY Recovered
PROPERTY FlagsKept
