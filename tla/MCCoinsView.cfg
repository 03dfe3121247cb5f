SPECIFICATION Spec
CONSTANTS
  g = g  a1 = a1  a2 = a2  a3 = a3  b2 = b2  b3 = b3  c2 = c2  d2 = d2  d3 = d3
  cA = cA  cB = cB  cC = cC  cD = cD  cE = cE  t1 = t1  t2 = t2  t3 = t3  t4 = t4  t5 = t5
  NoCoins = NoCoins  NoUndo = NoUndo
  Genesis = g
  Blocks <- MCBlocks  Prev <- MCPrev  Anc <- MCAnc  Height <- MCHeight
  Txs <- MCTxs  Coinbases <- MCCoinbases  Outs <- MCOuts  Vin <- MCVin  Vtx <- MCVtx
  BadScript <- MCBadScript
  COINBASE_MATURITY = 1  COINBASE_MATURITY_NEW = 2  COINBASE_MATURITY_SWITCH = 2
  MaxStops = 1
INVARIANTS TypeOK DisconnectInverts NeverInconsistent
PROPERTY ImplementsLedger
