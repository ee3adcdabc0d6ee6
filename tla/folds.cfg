CONSTANTS
  r1 = r1
  s1 = s1
  s2 = s2
  StopIds = {s1, s2}
  NoId = NoId
  RequestIds = {r1}
  Watch = {"head", "demand", "answers", "counts", "verdict", "stops", "watch", "wait", "await"}
  MaxLog <- Lengths
SPECIFICATION ClientSpec
INVARIANTS HeadFoldAgrees DemandAgrees AnswersAgree CountsAgree WatchAgrees AwaitTells
PROPERTIES VerdictOnlyGrows
CHECK_DEADLOCK FALSE
