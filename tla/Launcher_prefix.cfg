SPECIFICATION MCSpec
CONSTANTS
  u1 = u1
  u2 = u2
  u3 = u3
  u4 = u4
  a = a
  b = b
  Uuid = {u1, u2, u3, u4}
  Mime = {"text/plain", "text/html"}
  Bytes = {a, b}
  Time = {0, 1}
  Ring = 1
  w1 = w1
  w2 = w2
  a1 = a1
  c1 = c1
  None = None
  Registry <- MCRegistry
  Initial = 1
  Prefix <- MCPrefix
  Live = {"windows"}
  Fixed <- MCFixed
  RowId = {w1, w2}
  Hits <- MCHits
  Rank <- MCRank
  Mimes <- MCMimes
  Query <- MCQuery
  Char = {"a", "wide"}
  Utf8 <- MCUtf8
  Utf16 <- MCUtf16
  Alnum = {"a"}
  Unmarked = Unmarked
  Placeholder = 2
  MaxChars = 2
  Key = {"k1", "k2"}
  Tracker = {"t1", "t2"}
  MaxUses = 2
  Pid = {"p1", "p2", "p3"}
  Asking = {"l1", "l2"}
  Nobody = Nobody
  MaxDeaths = 2
  Window = {"v1", "v2"}
CHECK_DEADLOCK FALSE
INVARIANTS
  EmptyInputShowsAll
