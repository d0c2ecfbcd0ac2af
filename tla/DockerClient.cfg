SPECIFICATION DockerFairSpec
CONSTANTS
  Handler = {h1}
  Installer = {i1}
  Boot = Boot
  Nil = Nil
INVARIANTS NeverUnverified DaemonLives
PROPERTIES RecoversWithTheEngine EveryCallAnswered
