SPECIFICATION ConsoleFairSpec
CONSTANTS
  Session = {s1, s2}
  Pool = 1
INVARIANT ConsoleTypeOK
PROPERTIES NothingLeaks EndReachesBrowser
