CONSTANTS
  Outbounds <- MCOutbounds
  Groups <- MCGroups
  WithUDP <- MCWithUDP
  Tolerance = 1
  Width = 8
  Dialers = {d1}
  Tickers = {t1, t2}
  Nil = Nil
  a = a
  b = b
SPECIFICATION FairGroupSpec
INVARIANTS TickerServed
PROPERTIES NoFlapping FailsOver LoopsEnd
