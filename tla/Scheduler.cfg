SPECIFICATION FairSpec
CONSTANTS
  MaxId = 5
  Message = {msg}
  MaxMsgs = 1
  ExitCode = {code}
  NoCode = NoCode
  WakeLevels <- MCWakeLevels
  Sleepable = {5}
INVARIANTS TypeOK RunQueuesSound NoMissedPreemption NoLostMessage WaiterRegistered WaitersAlive
PROPERTIES NoOvertaking NoStarvation JoinReturns
