CONSTANTS
  Servers = {p1}
  Primary = p1
  Files = {f1}
  Texts = {t1, t2}
  NoText = NoText
  Asked = {"references", "format"}
  InFront = {}
  MaxQueue = 2
  MaxPending = 2
  MaxVersion = 2
  MaxId = 3
  MaxOpens = 2
  MaxAnswers = 2
  MaxUnread = 1
SPECIFICATION FairSpec
INVARIANTS
  TypeOK
  ClaimIsWhatTheServerWillHold
  BehindMeansOwed
  AnswersFitTheirDocument
PROPERTIES
  FindingsNeverGoBack
  ServerCatchesUp
