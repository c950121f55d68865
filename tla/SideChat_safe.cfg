\* Two questions to a side agent that remembers one exchange, with a channel
\* for one; panes of three lines on a terminal that is resized.
SPECIFICATION FairSpec
CONSTANTS
  MaxLines = 3
  Widths = {1, 2}
  SideQueueCap = 1
  SideHistCap = 2
  MaxQuestions = 2
  MaxMain = 4
INVARIANTS AnswersAreFresh HistoryIsExchanges PaneShowsItsItems StreamedTextIsWhole
PROPERTY QuestionsShown
\* The main agent stops, no question is left.
CHECK_DEADLOCK FALSE
