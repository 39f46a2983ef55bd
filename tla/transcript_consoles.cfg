\* Two consoles and a page in English: hand-over, silence, the sweep, and a hub that forgets
\* the program and starts it anew.
SPECIFICATION FairSpec
CONSTANTS
  p1 = p1
  p2 = p2
  hi = hi
  Console = {c1, c2}
  Page = {p1}
  Language = {hi, en}
  English = en
  LanguageOf <- EnglishPage
  ReplaySize = 1
  MaxState = 2
  MaxSeq = 1
  MaxPosts = 2
INVARIANTS TypeOK NobodyIsForgotten
PROPERTIES PrimaryKeepsRelaying GoneConsoleIsDropped
CHECK_DEADLOCK FALSE
