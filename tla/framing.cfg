SPECIFICATION FairSpec
CONSTANTS
  Chars <- OneChar
  PushTexts <- AnyPush
  ReplyTexts <- AnyReply
  MaxPairs = 2
  MaxReplies = 2
INVARIANTS
  GivenIsPushed
  ReducedIsRead
  NoEarlyEnd
  RolesRead
PROPERTY Ends
CHECK_DEADLOCK FALSE
