SPECIFICATION Spec
CONSTANTS
  q1 = q1
  a1 = a1
  Requests = {r1, r2}
  Keys = {k1, k2}
  Tokens = {t1, t2}
  Quotes = {q1}
  Actors = {a1}
  NoKey = NoKey
  QuoteOf <- SharedQuote
  ConfirmedFor <- OneConfirmer
  QuotedFor <- OneSeller
  TermsAgree <- AllAgree
  MaxFaults = 0
INVARIANTS
  QuoteBookedOnce
