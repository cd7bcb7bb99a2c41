CONSTANTS
  Inputs <- InputsDef
  Hypotheses = {g, h}
  LastWord = 5
  Items <- ItemsDef
  MaxSize = 2
  Merges <- OneBest
  Models <- ModelsDef
SPECIFICATION StructuresSpec
INVARIANTS NeverStuck NoWordTwice NoMeaningTwice HorizonHeld EqualIffSameWords SlotsConsistent KeepsTheBest BestScoreFound PathsListedInOrder ListHasTheBest
PROPERTIES EachWordUsesWords ImplementsUsedWords
CHECK_DEADLOCK FALSE
