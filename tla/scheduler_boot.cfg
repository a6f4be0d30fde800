SPECIFICATION FairSpec
CONSTANTS
  t1 = t1
  t2 = t2
  c1 = c1
  c2 = c2
  Teams = {t1, t2}
  Settings <- TwoSettings
  Default <- Morning
  Calls = {c1}
  MaxFaults = 2
PROPERTIES
  BootRepairs
