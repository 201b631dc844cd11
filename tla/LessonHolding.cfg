SPECIFICATION Spec
CONSTANTS
  h1 = h1
  h2 = h2
  l1 = l1
  l2 = l2
  Homework <- MCHomework
  Lesson <- MCLesson
  MaxDt = 3
  CopyEndpoint = FALSE
PROPERTIES
  HoldingSetsAll
