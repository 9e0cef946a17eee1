SPECIFICATION FairSpec
CONSTANTS
  p1 = p1
  p2 = p2
  p3 = p3
  NoPid = NoPid
  Procs = {p1, p2, p3}
  Versions = {0, 1, 2}
  Broken = {1}
  Commands = {"start", "stop", "restart", "reload", "hup"}
INVARIANTS
  TypeOK
  OneDaemon
  PidFileFinds
  StopIsTrue
PROPERTIES
  TermObeyed
  HupObeyed
