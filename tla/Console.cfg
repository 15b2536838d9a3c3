SPECIFICATION Spec
CONSTANTS
  Width = 4
  Height = 3
  Word = 65536
  Lines = {0, 1, 14}
  Chars <- MCChars
  BootCalls <- MCBootCalls
  TestAfter = 2
  TestCalls <- MCTestCalls
  Message <- MCMessage
  Listings <- MCListings
  FileTexts <- MCFileTexts
  Prompt <- MCPrompt
  Failed <- MCFailed
  Command <- MCCommand
  InputSize = 6
  WordLimit = 1
  DataSize = 2
  StackBytes <- MCStackBytes
  Sessions <- MCSessions
INVARIANTS TypeOK HandlersSerial EchoIsBuffer LineIsTyped OutputIntact
