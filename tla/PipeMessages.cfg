CONSTANT Messages = 4
SPECIFICATION PipeSpec
CHECK_DEADLOCK FALSE
INVARIANT AllMessagesProcessed
