SPECIFICATION Spec
CONSTANTS
  a = a
  b = b
  c = c
  t1 = t1
  t2 = t2
  p1 = p1
  p2 = p2
  Calls = {a, b, c}
  Tabs = {t1, t2}
  Tab <- MCTab
  Asks <- PageBesidePage
  Pairs = {p1, p2}
  NoPair = NoPair
  NoHash = NoHash
  Prefix = Prefix
  NoCall = NoCall
PROPERTIES ReplacedTokenIsRefused
