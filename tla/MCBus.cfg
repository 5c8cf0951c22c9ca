SPECIFICATION FairSpec
CONSTANTS
  brief = brief
  alerting = alerting
  t1 = t1
  t2 = t2
  a1 = a1
  sab = sab
  d1 = d1
  None = None
  Procs = {brief, alerting}
  Tasks = {t1, t2}
  ProcOf <- MCProcOf
  Events = {sab}
  KeyOf <- MCKeyOf
  Publishes <- MCPublishes
  Consumers = {a1}
  Subscription <- MCSubscription
  Slots = {d1}
  Count = 1
  Threshold = 1
  Old <- MCOld
  MaxFaults = 1
  MaxReplays = 1
INVARIANTS
  OncePerBus
  ReturnedIsRouted
  BurialIsAnnounced
PROPERTIES
  ImplementsMail
  MailSettles
  DeepIsReported
