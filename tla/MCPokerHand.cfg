CONSTANTS
  N = 3
  SeatOf <- SeatMap
  BuyIns = {1, 3, 7}
  BigBlind = 2
SPECIFICATION Spec
INVARIANT TypeOK ChipsConserved AskedPlayerCanPay PotsPaidOut AnswersFitTheHand
PROPERTY BettingSound HandEnds
CHECK_DEADLOCK FALSE
