SPECIFICATION Spec
CONSTANTS
  MaxInt = 15
  MaxPageSize = 3
  DefaultPageSize = 2
  Writers = {w1, w2}
  MaxEvents = 4
  Queries <- SomeQueries
INVARIANTS NoEventLost DisorderIsOverlap PagesCoverTrail
PROPERTIES AnswerIsThePage
