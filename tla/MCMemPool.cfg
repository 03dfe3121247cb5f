SPECIFICATION PoolSpec
CONSTANTS
  g = g  a1 = a1  a2 = a2  a3 = a3  a4 = a4  b2 = b2
  cA = cA  cB = cB  cC = cC  cD = cD
  t1 = t1  t2 = t2  t3 = t3  u1 = u1  n1 = n1  f1 = f1  s1 = s1  e1 = e1  r1 = r1  r2 = r2
  NoCoins = NoCoins  Nobody = Nobody  None = None
  Genesis = g
  Blocks <- MCBlocks  Prev <- MCPrev  Anc <- MCAnc  Height <- MCHeight
  Txs <- MCTxs  Coinbases <- MCCoinbases  Outs <- MCOuts  Vin <- MCVin  Vtx <- MCVtx
  NonStandard <- MCNonStandard  Free <- MCFree  BadSig <- MCBadSig  Large <- MCLarge
  COINBASE_MATURITY = 1  COINBASE_MATURITY_NEW = 1  COINBASE_MATURITY_SWITCH = 2
  Peers = {p1, p2}  MaxOrphans = 2
SYMMETRY MCSymmetry
INVARIANTS PoolConsistent OrphansExact ReorgKeepsTransactions
