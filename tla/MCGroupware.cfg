SPECIFICATION Groupware
CONSTANTS
  Scenes <- AllScenes
  Tasks = {t1, t2}
  Mails = {1, 2, 3}
  MaxUid = 3
  MaxValidity = 2
  Batch = 1
  FlagWindow = 1
  PreviewWindow = 1
  Stages <- AllStages
  Reqs = {1, 2}
  NoReq = NoReq
  Diaries <- TwoEvents
  MaxOccur = 4
SYMMETRY Alike
CHECK_DEADLOCK FALSE
INVARIANTS MailSound CalendarSound
