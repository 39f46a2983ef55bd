\* Two pages of one language, one console: joining, leaving and coming back
\* while segments and translations arrive; a replay buffer that overflows.
SPECIFICATION Spec
CONSTANTS
  p1 = p1
  p2 = p2
  hi = hi
  Console = {c1}
  Page = {p1, p2}
  Language = {hi, en}
  English = en
  LanguageOf <- OneLanguage
  ReplaySize = 1
  MaxState = 1
  MaxSeq = 2
  MaxPosts = 1
SYMMETRY PageSymmetry
INVARIANTS PagesFollow TranslationsShown
PROPERTY TranslatedOnce
CHECK_DEADLOCK FALSE
