\* One text, sent while the reader opens the panel; nothing fails.
SPECIFICATION ChatFairSpec
CONSTANTS
  People = {1, 2}
  NumTexts = 1
  Author <- MCAuthor
  PageSize = 1
  MaxAttempts = 1
  MaxChatFaults = 0
  MaxJoins = 1
PROPERTIES MessagesArrive
CHECK_DEADLOCK FALSE
