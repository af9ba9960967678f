------------------------- MODULE ConfigClientProofs -------------------------
(***************************************************************************)
(* Proofs about ConfigClient, for any starts, files, assets, administrators  *)
(* and bounds: a reserve that takes deposits or lends has a configuration    *)
(* that validates by itself, and the market passes only to whom its owner of  *)
(* that moment has named.                                                      *)
(*                                                                             *)
(* Both rest on what can be in a transaction. A command of the client builds    *)
(* sequences of instructions of three shapes: plain ones, which name the owner   *)
(* as signer and never write the owner's field itself, one that creates a        *)
(* market, and one that accepts it. Whatever of them is still to be sent, lost    *)
(* or late, and in whatever order it lands, the program applies each to the       *)
(* chain it finds then. The proofs follow that: sequences, the chain and one       *)
(* instruction, a transaction, what the commands build, and the steps.              *)
(***************************************************************************)
EXTENDS ConfigClient, SumProofs, SequenceTheorems, TLAPS

-----------------------------------------------------------------------------
(* Sequences.                                                                *)

\* What is kept of a sequence is a sequence of what was to be kept.
LEMMA KeptType ==
    ASSUME NEW A, NEW s \in Seq(A), NEW S
    PROVE  Kept(s, S) \in Seq(S \cap A)
<1> DEFINE t == [i \in DOMAIN s |-> IF s[i] \in S THEN <<s[i]>> ELSE <<>>]
<1>1. t = [i \in DOMAIN s |-> t[i]]
  OBVIOUS
<1>2. \A i \in DOMAIN s : t[i] = <<>> \/ (t[i] = <<s[i]>> /\ s[i] \in S)
  OBVIOUS
<1>3. Kept(s, S) = FlattenSeq(t)
  BY DEF Kept
<1> HIDE DEF t
<1>4. FlattenSeq(t) \in Seq(A \cap S)
  BY <1>1, <1>2, SublistType
<1>5. A \cap S = S \cap A
  OBVIOUS
<1> QED
  BY <1>3, <1>4, <1>5

-----------------------------------------------------------------------------
(* The chain, and what a transaction may be.                                 *)

\* What the proofs need of a market: its owner is one of the administrators.
MarketOK(m) ==
    /\ {"lendingMarketOwner", "lendingMarketOwnerCached", "elevationGroups"} \subseteq DOMAIN m
    /\ DOMAIN m.elevationGroups = GroupIds
    /\ m.lendingMarketOwner \in Admins

\* A reserve that can be used has a configuration that validates by itself.
ReserveOK(r) == IsReserve(r) /\ (Usable(r.config) => OwnConfigIsValid(r.config))

\* Both, where there are any; a reserve is there only with its market.
ChainOK(c) ==
    /\ {"market", "reserve"} \subseteq DOMAIN c
    /\ c.reserve # <<>> => c.market # <<>>
    /\ c.market # <<>> => 1 \in DOMAIN c.market /\ MarketOK(c.market[1])
    /\ c.reserve # <<>> => 1 \in DOMAIN c.reserve /\ ReserveOK(c.reserve[1])

\* A market or a reserve of the chain is replaced.
LEMMA SetMarket ==
    ASSUME NEW c, ChainOK(c), c.market # <<>>, NEW m, MarketOK(m)
    PROVE  LET d == [c EXCEPT !.market[1] = m]
           IN ChainOK(d) /\ d.market # <<>> /\ d.market[1] = m /\ d.reserve = c.reserve
<1> DEFINE d == [c EXCEPT !.market[1] = m]
<1>1. /\ 1 \in DOMAIN c.market /\ {"market", "reserve"} \subseteq DOMAIN c
      /\ DOMAIN d = DOMAIN c
  BY DEF ChainOK
<1>2. d.market = [c.market EXCEPT ![1] = m] /\ d.reserve = c.reserve
  BY <1>1
<1> HIDE DEF d
<1>3. DOMAIN d.market = DOMAIN c.market /\ d.market[1] = m
  BY <1>1, <1>2
<1>4. d.market # <<>>
  BY <1>1, <1>3
<1>5. ChainOK(d)
  BY <1>1, <1>2, <1>3 DEF ChainOK
<1> QED
  BY <1>2, <1>3, <1>4, <1>5 DEF d

\* The same for the reserve.
LEMMA SetReserve ==
    ASSUME NEW c, ChainOK(c), c.reserve # <<>>, NEW r, ReserveOK(r)
    PROVE  LET d == [c EXCEPT !.reserve[1] = r]
           IN ChainOK(d) /\ d.reserve # <<>> /\ d.reserve[1] = r /\ d.market = c.market
<1> DEFINE d == [c EXCEPT !.reserve[1] = r]
<1>1. /\ 1 \in DOMAIN c.reserve /\ {"market", "reserve"} \subseteq DOMAIN c
      /\ DOMAIN d = DOMAIN c
  BY DEF ChainOK
<1>2. d.reserve = [c.reserve EXCEPT ![1] = r] /\ d.market = c.market
  BY <1>1
<1> HIDE DEF d
<1>3. DOMAIN d.reserve = DOMAIN c.reserve /\ d.reserve[1] = r
  BY <1>1, <1>2
<1>4. d.reserve # <<>>
  BY <1>1, <1>3
<1>5. ChainOK(d)
  BY <1>1, <1>2, <1>3 DEF ChainOK
<1> QED
  BY <1>2, <1>3, <1>4, <1>5 DEF d

\* An instruction of the commands that neither creates a market nor accepts one.
PlainIx(ix) ==
    /\ ix.ix \in {"initReserve", "updateReserveConfig", "updateLendingMarket"}
    /\ ix.ix = "updateReserveConfig" /\ ix.mode = "entire" => IsConfig(ix.value[1])
    /\ ix.ix = "updateLendingMarket" => ix.mode # "lendingMarketOwner"

\* An instruction that names the next owner.
OfferIx(ix) == ix.ix = "updateLendingMarket" /\ ix.mode = "lendingMarketOwnerCached"

\* The fields of a configuration are told apart by their names, which a sequence holds.
LEMMA ZeroIsUnused ==
    LET z == [ZeroConfig EXCEPT !.status = 2]
    IN IsConfig(z) /\ z.depositLimit = 0 /\ z.borrowLimit = 0
<1> USE DEF ZeroConfig
<1>1. {"depositLimit", "borrowLimit", "status"} \subseteq Range(ReserveKeys)
  <2> DEFINE front == RiskKeys \o RateKeys
             back == TokenInfoKeys \o CapKeys \o ElevationKeys
  <2>1. front[1] = "status" /\ front[17] = "depositLimit" /\ front[18] = "borrowLimit"
        /\ {1, 17, 18} \subseteq DOMAIN front
    BY DEF RiskKeys, RateKeys
  <2> QED
    BY DEF ReserveKeys, RiskKeys, RateKeys, TokenInfoKeys, CapKeys, ElevationKeys, Range
<1>2. IsConfig([ZeroConfig EXCEPT !.status = 2])
  BY DEF IsConfig
<1> QED
  BY <1>1, <1>2

\* What the handler makes of a configuration it accepts is valid, or cannot be used.
LEMMA UpdatedConfig ==
    ASSUME NEW c, ChainOK(c), c.reserve # <<>>, NEW ix, PlainIx(ix),
           ix.ix = "updateReserveConfig", UpdateReserveConfig(c, ix).ok
    PROVE  LET d == UpdateReserveConfig(c, ix).c
           IN ChainOK(d) /\ d.market = c.market
<1> DEFINE r == c.reserve[1]
           m == c.market[1]
           new == update_reserve_config(r.config, ix)
           r2 == [r EXCEPT !.config = new]
<1>1. /\ IF ix.skip THEN MaySkip(r, new, m) ELSE validate_reserve_config(new, m)
      /\ UpdateReserveConfig(c, ix).c
            = [c EXCEPT !.reserve[1].config = update_reserve_config(@, ix)]
  BY DEF UpdateReserveConfig, Ok, Refused
<1>2. ReserveOK(r) /\ 1 \in DOMAIN c.reserve /\ "reserve" \in DOMAIN c
  BY DEF ChainOK
<1>3. [c EXCEPT !.reserve[1].config = update_reserve_config(@, ix)] = [c EXCEPT !.reserve[1] = r2]
  BY <1>2
<1>4. IsConfig(new)
  <2>1. IsConfig(r.config)
    BY <1>2 DEF ReserveOK, IsReserve
  <2>2. CASE ix.mode = "entire"
    BY <2>2 DEF PlainIx, update_reserve_config
  <2>3. CASE ix.mode # "entire"
    BY <2>1, <2>3 DEF update_reserve_config, IsConfig
  <2> QED
    BY <2>2, <2>3
<1>5. Usable(new) => OwnConfigIsValid(new)
  <2> HIDE DEF new
  <2>1. CASE ix.skip
    BY <1>1, <2>1 DEF MaySkip, Usable
  <2>2. CASE ~ix.skip
    BY <1>1, <2>2 DEF validate_reserve_config
  <2> QED
    BY <2>1, <2>2
<1>6. ReserveOK(r2)
  <2> HIDE DEF new, r
  <2> QED
    BY <1>2, <1>4, <1>5 DEF ReserveOK, IsReserve
<1> HIDE DEF r2
<1> QED
  BY <1>1, <1>3, <1>6, SetReserve

\* A new reserve takes no deposits.
LEMMA NewReserve ==
    ASSUME NEW c, ChainOK(c), c.market # <<>>, NEW m
    PROVE  LET d == [c EXCEPT !.reserve = <<InitReserve(m)>>]
           IN ChainOK(d) /\ d.market = c.market
<1> DEFINE r == InitReserve(m)
           z == [ZeroConfig EXCEPT !.status = 2]
           d == [c EXCEPT !.reserve = <<r>>]
<1>1. IsConfig(z) /\ ~Usable(z)
  BY ZeroIsUnused DEF Usable
<1>2. ReserveOK(r)
  <2> HIDE DEF z
  <2>1. r.config = z /\ {"config", "available", "borrowed", "supply"} \subseteq DOMAIN r
    BY DEF InitReserve, z
  <2> QED
    BY <1>1, <2>1 DEF ReserveOK, IsReserve
<1> HIDE DEF r
<1>3. d.market = c.market /\ d.reserve = <<r>> /\ DOMAIN d = DOMAIN c
  BY DEF ChainOK
<1> HIDE DEF d
<1>4. d.reserve[1] = r /\ 1 \in DOMAIN d.reserve
  BY <1>3
<1>5. ChainOK(d)
  BY <1>2, <1>3, <1>4 DEF ChainOK
<1> QED
  BY <1>3, <1>5 DEF d, r

\* An update of the market changes neither its owner nor, unless it names one, the
\* owner to come.
LEMMA UpdatedMarket ==
    ASSUME NEW c, ChainOK(c), c.market # <<>>, NEW ix, PlainIx(ix),
           ix.ix = "updateLendingMarket", UpdateLendingMarket(c, ix).ok
    PROVE  LET d == UpdateLendingMarket(c, ix).c
           IN /\ ChainOK(d) /\ d.market # <<>>
              /\ d.market[1].lendingMarketOwner = c.market[1].lendingMarketOwner
              /\ \/ OfferIx(ix)
                 \/ d.market[1].lendingMarketOwnerCached = c.market[1].lendingMarketOwnerCached
<1> DEFINE m == c.market[1]
<1>1. MarketOK(m) /\ 1 \in DOMAIN c.market /\ "market" \in DOMAIN c
  BY DEF ChainOK
<1>2. CASE ix.mode = "elevationGroups"
  <2> DEFINE n == [m EXCEPT !.elevationGroups = [@ EXCEPT ![ix.value.id] = ix.value]]
  <2>1. UpdateLendingMarket(c, ix).c = [c EXCEPT !.market[1] = n]
    <3>1. UpdateLendingMarket(c, ix).c
            = [c EXCEPT !.market[1].elevationGroups[ix.value.id] = ix.value]
      BY <1>2 DEF UpdateLendingMarket, Ok, Refused
    <3>2. [c EXCEPT !.market[1].elevationGroups[ix.value.id] = ix.value]
            = [c EXCEPT !.market[1] = n]
      BY <1>1
    <3> QED
      BY <3>1, <3>2
  <2>2. MarketOK(n) /\ n.lendingMarketOwner = m.lendingMarketOwner
        /\ n.lendingMarketOwnerCached = m.lendingMarketOwnerCached
    BY <1>1 DEF MarketOK
  <2> HIDE DEF n
  <2> QED
    BY <2>1, <2>2, SetMarket
<1>3. CASE ix.mode # "elevationGroups"
  <2> DEFINE n == [m EXCEPT ![ix.mode] = ix.value]
  <2>1. UpdateLendingMarket(c, ix).c = [c EXCEPT !.market[1] = n]
    <3>1. UpdateLendingMarket(c, ix).c = [c EXCEPT !.market[1][ix.mode] = ix.value]
      BY <1>3 DEF UpdateLendingMarket, Ok, Refused
    <3>2. [c EXCEPT !.market[1][ix.mode] = ix.value] = [c EXCEPT !.market[1] = n]
      BY <1>1
    <3> QED
      BY <3>1, <3>2
  <2>2. MarketOK(n) /\ n.lendingMarketOwner = m.lendingMarketOwner
    BY <1>1, <1>3 DEF MarketOK, PlainIx
  <2>3. OfferIx(ix) \/ n.lendingMarketOwnerCached = m.lendingMarketOwnerCached
    BY <1>1 DEF MarketOK, OfferIx
  <2> HIDE DEF n
  <2> QED
    BY <2>1, <2>2, <2>3, SetMarket
<1> QED
  BY <1>2, <1>3

\* One plain instruction that is not refused: its signer is the owner, who stays.
Follows(c, d, payer) ==
    /\ ChainOK(d) /\ d.market # <<>> /\ c.market # <<>>
    /\ c.market[1].lendingMarketOwner = payer
    /\ d.market[1].lendingMarketOwner = payer

\* What such an instruction does to the chain, whoever signed it and whenever it lands.
LEMMA PlainApplied ==
    ASSUME NEW c, ChainOK(c), NEW ix, PlainIx(ix), NEW payer, Apply(c, ix, payer).ok
    PROVE  LET d == Apply(c, ix, payer).c
           IN /\ Follows(c, d, payer)
              /\ \/ OfferIx(ix)
                 \/ d.market[1].lendingMarketOwnerCached = c.market[1].lendingMarketOwnerCached
<1> DEFINE d == Apply(c, ix, payer).c
<1>1. ix.ix # "initLendingMarket" /\ ix.ix # "updateLendingMarketOwner"
  BY DEF PlainIx
<1>2. c.market # <<>> /\ ix.signer = payer /\ Authority(c, ix) = ix.signer
  BY <1>1 DEF Apply, Refused
<1>3. Apply(c, ix, payer) = ConfigStep(c, ix)
  BY <1>1, <1>2 DEF Apply
<1>4. c.market[1].lendingMarketOwner = payer
  BY <1>1, <1>2 DEF Authority
<1>5. CASE ix.ix = "initReserve"
  <2>1. d = [c EXCEPT !.reserve = <<InitReserve(c.market[1])>>]
    BY <1>3, <1>5 DEF ConfigStep, Ok, Refused
  <2> HIDE DEF d
  <2>2. ChainOK(d) /\ d.market = c.market
    BY <1>2, <2>1, NewReserve
  <2> QED
    BY <1>2, <1>4, <2>2 DEF Follows, d
<1>6. CASE ix.ix = "updateReserveConfig"
  <2>1. Apply(c, ix, payer) = UpdateReserveConfig(c, ix)
    BY <1>3, <1>6 DEF ConfigStep
  <2>2. c.reserve # <<>>
    BY <2>1 DEF UpdateReserveConfig, Refused
  <2>3. ChainOK(d) /\ d.market = c.market
    BY <1>6, <2>1, <2>2, UpdatedConfig
  <2> HIDE DEF d
  <2> QED
    BY <1>2, <1>4, <2>3 DEF Follows, d
<1>7. CASE ix.ix = "updateLendingMarket"
  <2>1. Apply(c, ix, payer) = UpdateLendingMarket(c, ix)
    BY <1>3, <1>7 DEF ConfigStep
  <2> QED
    BY <1>2, <1>4, <1>7, <2>1, UpdatedMarket DEF Follows
<1> QED
  BY <1>5, <1>6, <1>7 DEF PlainIx

\* What Executed computes one instruction after the other.
ThenIx(e0, tx, i) == CHOOSE r \in {Then(e, tx.ixs[i], tx.payer) : e \in {e0}} : TRUE
\* What the transaction is after each of its first n instructions.
Runs(f, c, tx, n) ==
    f = [i \in 0 .. n |-> IF i = 0 THEN Ok(c) ELSE ThenIx(f[i - 1], tx, i)]

\* That recursion has a solution.
LEMMA RunsExist ==
    ASSUME NEW c, NEW tx, NEW n \in Nat
    PROVE  \E f : Runs(f, c, tx, n)
<1> DEFINE T == {k \in Nat : ~ \E f : Runs(f, c, tx, k)}
<1>1. ASSUME T # {} PROVE FALSE
  <2>1. PICK k \in T : \A m \in T : k <= m
    <3>1. T \in SUBSET Nat
      OBVIOUS
    <3> HIDE DEF T
    <3> QED
      BY <1>1, <3>1, SmallestNat
  <2>2. CASE k = 0
    <3>1. Runs([i \in 0 .. 0 |-> Ok(c)], c, tx, 0)
      BY DEF Runs
    <3> QED
      BY <2>2, <3>1
  <2>3. CASE k # 0
    <3>1. k - 1 \in Nat /\ ~(k <= k - 1)
      BY <2>3
    <3>2. PICK f : Runs(f, c, tx, k - 1)
      BY <2>1, <3>1
    <3> DEFINE g == [i \in 0 .. k |-> IF i = k THEN ThenIx(f[k - 1], tx, k) ELSE f[i]]
    <3>3. ASSUME NEW i \in 0 .. k
          PROVE  g[i] = IF i = 0 THEN Ok(c) ELSE ThenIx(g[i - 1], tx, i)
      <4>1. i # 0 => i - 1 \in 0 .. k /\ i - 1 # k
        BY <3>1
      <4>2. CASE i # k
        <5>1. i \in 0 .. (k - 1) /\ g[i] = f[i]
          BY <3>1, <4>2
        <5>2. f[i] = IF i = 0 THEN Ok(c) ELSE ThenIx(f[i - 1], tx, i)
          BY <3>2, <5>1 DEF Runs
        <5> QED
          BY <4>1, <5>1, <5>2
      <4>3. CASE i = k
        BY <2>3, <4>1, <4>3
      <4> QED
        BY <4>2, <4>3
    <3>4. Runs(g, c, tx, k)
      <4>1. g = [i \in 0 .. k |-> g[i]]
        OBVIOUS
      <4> HIDE DEF g
      <4> QED
        BY <3>3, <4>1 DEF Runs
    <3> QED
      BY <3>4
  <2> QED
    BY <2>2, <2>3
<1> QED
  BY <1>1

\* A transaction is a run of its instructions, each of them after those before it.
LEMMA ExecutedRun ==
    ASSUME NEW c, NEW tx, Len(tx.ixs) \in Nat
    PROVE  \E f : /\ f[0] = Ok(c)
                  /\ \A i \in 1 .. Len(tx.ixs) : f[i] = Then(f[i - 1], tx.ixs[i], tx.payer)
                  /\ Executed(c, tx) = IF f[Len(tx.ixs)].ok THEN f[Len(tx.ixs)] ELSE Refused(c)
<1> DEFINE n == Len(tx.ixs)
           f == CHOOSE g : Runs(g, c, tx, n)
<1>1. Runs(f, c, tx, n)
  <2>1. \E g : Runs(g, c, tx, n)
    BY RunsExist
  <2> QED
    BY <2>1, Zenon
<1>2. Executed(c, tx) = IF f[n].ok THEN f[n] ELSE Refused(c)
  BY DEF Executed, Runs, ThenIx
<1> HIDE DEF f
<1>3. f[0] = Ok(c)
  BY <1>1 DEF Runs
<1>4. ASSUME NEW i \in 1 .. n PROVE f[i] = Then(f[i - 1], tx.ixs[i], tx.payer)
  <2>1. f[i] = CHOOSE r \in {Then(e, tx.ixs[i], tx.payer) : e \in {f[i - 1]}} : TRUE
    BY <1>1 DEF Runs, ThenIx
  <2>2. \A x : (CHOOSE r \in {Then(e, tx.ixs[i], tx.payer) : e \in {x}} : TRUE)
                  = Then(x, tx.ixs[i], tx.payer)
    <3>1. ASSUME NEW x, NEW y PROVE (CHOOSE r \in {y} : TRUE) = y
      OBVIOUS
    <3>2. \A x : {Then(e, tx.ixs[i], tx.payer) : e \in {x}} = {Then(x, tx.ixs[i], tx.payer)}
      OBVIOUS
    <3> QED
      BY <3>1, <3>2
  <2> QED
    BY <2>1, <2>2
<1> QED
  BY <1>2, <1>3, <1>4

\* A sequence of plain instructions, and the three shapes a transaction has.
PlainSeq(s) == \E S : s \in Seq(S) /\ \A ix \in S : PlainIx(ix)
Plain(tx) == PlainSeq(tx.ixs)
Creates(tx) == \E ix : tx.ixs = <<ix>> /\ ix.ix = "initLendingMarket" /\ ix.signer \in Admins
Accepts(tx) == \E ix : tx.ixs = <<ix>> /\ ix.ix = "updateLendingMarketOwner"
TxOK(tx) == tx.payer \in Admins /\ (Plain(tx) \/ Creates(tx) \/ Accepts(tx))

\* A transaction of plain instructions leaves the owner alone, and names another one
\* only if the owner has signed it.
LEMMA PlainExecuted ==
    ASSUME NEW c, ChainOK(c), NEW tx, Plain(tx)
    PROVE  LET e == Executed(c, tx)
               d == e.c
           IN \/ e.ok = FALSE /\ d = c
              \/ e.ok = TRUE /\ d = c /\ ~Offers(tx)
              \/ /\ e.ok = TRUE /\ Follows(c, d, tx.payer)
                 /\ \/ Offers(tx)
                    \/ d.market[1].lendingMarketOwnerCached
                         = c.market[1].lendingMarketOwnerCached
<1> DEFINE n == Len(tx.ixs)
<1>1. PICK S : tx.ixs \in Seq(S) /\ \A ix \in S : PlainIx(ix)
  BY DEF Plain, PlainSeq
<1>2. n \in Nat /\ DOMAIN tx.ixs = 1 .. n /\ \A i \in 1 .. n : PlainIx(tx.ixs[i])
  BY <1>1
<1>3. PICK f : /\ f[0] = Ok(c)
               /\ \A i \in 1 .. n : f[i] = Then(f[i - 1], tx.ixs[i], tx.payer)
               /\ Executed(c, tx) = IF f[n].ok THEN f[n] ELSE Refused(c)
  BY <1>2, ExecutedRun
<1> DEFINE Fine(i) == f[i].ok =>
                        IF i = 0 THEN f[i] = Ok(c)
                        ELSE /\ f[i].ok = TRUE
                             /\ Follows(c, f[i].c, tx.payer)
                             /\ \/ Offers(tx)
                                \/ f[i].c.market[1].lendingMarketOwnerCached
                                     = c.market[1].lendingMarketOwnerCached
           T == {i \in 0 .. n : ~Fine(i)}
<1>4. ASSUME T # {} PROVE FALSE
  <2>1. PICK i \in T : \A j \in T : i <= j
    <3>1. T \in SUBSET Nat
      BY <1>2
    <3> HIDE DEF T
    <3> QED
      BY <1>4, <3>1, SmallestNat
  <2>2. i # 0
    BY <1>3
  <2>3. i \in 1 .. n /\ i - 1 \in 0 .. n /\ Fine(i - 1)
    BY <1>2, <2>1, <2>2
  <2>4. f[i] = Then(f[i - 1], tx.ixs[i], tx.payer) /\ PlainIx(tx.ixs[i])
    BY <1>2, <1>3, <2>3
  <2>5. CASE ~f[i - 1].ok
    BY <2>1, <2>4, <2>5 DEF Then
  <2>6. CASE f[i - 1].ok
    <3> DEFINE b == f[i - 1].c
               ix == tx.ixs[i]
    <3>1. f[i] = Apply(b, ix, tx.payer) /\ ChainOK(b)
      BY <2>3, <2>4, <2>6 DEF Then, Follows, Ok
    <3>2. CASE ~f[i].ok
      BY <2>1, <3>2
    <3>3. CASE f[i].ok
      <4>1. /\ Follows(b, f[i].c, tx.payer)
            /\ \/ OfferIx(ix)
               \/ f[i].c.market[1].lendingMarketOwnerCached
                    = b.market[1].lendingMarketOwnerCached
        <5> HIDE DEF b, ix
        <5> QED
          BY <2>4, <3>1, <3>3, PlainApplied DEF ix
      <4>2. OfferIx(ix) => Offers(tx)
        BY <1>2, <2>3 DEF OfferIx, Offers
      <4>3. f[i].ok = TRUE
        BY <2>4, <3>1, <3>3
           DEF Apply, CreateLendingMarket, ConfigStep, UpdateReserveConfig, UpdateLendingMarket, Ok, Refused
      <4>4. CASE i - 1 = 0
        <5>1. b = c
          BY <2>3, <2>6, <4>4 DEF Ok
        <5> QED
          BY <2>1, <2>2, <4>1, <4>2, <4>3, <5>1
      <4>5. CASE i - 1 # 0
        <5>1. /\ Follows(c, b, tx.payer)
              /\ \/ Offers(tx)
                 \/ b.market[1].lendingMarketOwnerCached
                      = c.market[1].lendingMarketOwnerCached
          BY <2>3, <2>6, <4>5
        <5> HIDE DEF b
        <5>2. Follows(c, f[i].c, tx.payer)
          BY <4>1, <5>1 DEF Follows
        <5> QED
          BY <2>1, <2>2, <4>1, <4>2, <4>3, <5>1, <5>2
      <4> QED
        BY <4>4, <4>5
    <3> QED
      BY <3>2, <3>3
  <2> QED
    BY <2>5, <2>6
<1>5. Fine(n)
  <2>1. n \in 0 .. n
    BY <1>2
  <2> HIDE DEF Fine
  <2> QED
    BY <1>4, <2>1
<1> HIDE DEF T
<1>6. CASE ~f[n].ok
  BY <1>3, <1>6 DEF Refused
<1>7. CASE f[n].ok /\ n = 0
  <2>1. ~Offers(tx)
    BY <1>2, <1>7 DEF Offers
  <2> QED
    BY <1>3, <1>5, <1>7, <2>1 DEF Ok
<1>8. CASE f[n].ok /\ n # 0
  BY <1>3, <1>5, <1>8
<1> QED
  BY <1>6, <1>7, <1>8

\* A transaction of one instruction.
LEMMA OneExecuted ==
    ASSUME NEW c, NEW tx, NEW ix, tx.ixs = <<ix>>
    PROVE  LET e == Apply(c, ix, tx.payer)
           IN Executed(c, tx) = IF e.ok THEN e ELSE Refused(c)
<1>1. Len(tx.ixs) = 1 /\ tx.ixs[1] = ix
  OBVIOUS
<1>2. PICK f : /\ f[0] = Ok(c)
               /\ \A i \in 1 .. 1 : f[i] = Then(f[i - 1], tx.ixs[i], tx.payer)
               /\ Executed(c, tx) = IF f[1].ok THEN f[1] ELSE Refused(c)
  BY <1>1, ExecutedRun
<1>3. f[1] = Then(f[0], ix, tx.payer)
  BY <1>1, <1>2
<1>4. f[1] = Apply(c, ix, tx.payer)
  BY <1>2, <1>3 DEF Then, Ok
<1> QED
  BY <1>2, <1>4

\* A market that is created is its creator's, who has named nobody.
LEMMA CreateExecuted ==
    ASSUME NEW c, ChainOK(c), NEW tx, Creates(tx)
    PROVE  LET e == Executed(c, tx)
               d == e.c
           IN /\ ~Offers(tx) /\ ChainOK(d)
              /\ \/ d = c
                 \/ /\ c.market = <<>>
                    /\ d.market # <<>> /\ d.market[1].lendingMarketOwnerCached = NullKey
<1>1. PICK ix : tx.ixs = <<ix>> /\ ix.ix = "initLendingMarket" /\ ix.signer \in Admins
  BY DEF Creates
<1>2. ~Offers(tx)
  BY <1>1 DEF Offers
<1>3. Executed(c, tx) = CreateLendingMarket(c, ix.signer)
  <2>1. Apply(c, ix, tx.payer) = CreateLendingMarket(c, ix.signer)
    BY <1>1 DEF Apply
  <2>2. CreateLendingMarket(c, ix.signer).ok
    BY DEF CreateLendingMarket, Ok
  <2> QED
    BY <1>1, <2>1, <2>2, OneExecuted
<1>4. CASE c.market # <<>>
  BY <1>2, <1>3, <1>4 DEF CreateLendingMarket, Ok
<1>5. CASE c.market = <<>>
  <2> DEFINE m == InitLendingMarket(ix.signer)
             d == [c EXCEPT !.market = <<m>>]
  <2>1. Executed(c, tx).c = d
    BY <1>3, <1>5 DEF CreateLendingMarket, Ok
  <2>2. MarketOK(m) /\ m.lendingMarketOwnerCached = NullKey
    <3>1. /\ {"lendingMarketOwner", "lendingMarketOwnerCached", "elevationGroups"}
                \subseteq DOMAIN m
          /\ DOMAIN m.elevationGroups = GroupIds
          /\ m.lendingMarketOwner = ix.signer /\ m.lendingMarketOwnerCached = NullKey
      BY DEF InitLendingMarket
    <3> HIDE DEF m
    <3> QED
      BY <1>1, <3>1 DEF MarketOK
  <2> HIDE DEF m
  <2>3. d.market = <<m>> /\ d.reserve = c.reserve /\ DOMAIN d = DOMAIN c
    BY DEF ChainOK
  <2> HIDE DEF d
  <2>4. d.market[1] = m /\ 1 \in DOMAIN d.market /\ d.market # <<>>
    BY <2>3
  <2>5. ChainOK(d)
    BY <2>2, <2>3, <2>4 DEF ChainOK
  <2> QED
    BY <1>2, <1>5, <2>1, <2>2, <2>4, <2>5
<1> QED
  BY <1>4, <1>5

\* A market is accepted by whom its owner has named last.
LEMMA AcceptExecuted ==
    ASSUME NEW c, ChainOK(c), NEW tx, Accepts(tx), tx.payer \in Admins
    PROVE  LET e == Executed(c, tx)
               d == e.c
           IN /\ ~Offers(tx) /\ ChainOK(d)
              /\ \/ d = c
                 \/ /\ c.market # <<>> /\ d.market # <<>>
                    /\ c.market[1].lendingMarketOwnerCached = tx.payer
                    /\ d.market[1].lendingMarketOwnerCached = tx.payer
                    /\ d.market[1].lendingMarketOwner = tx.payer
<1>1. PICK ix : tx.ixs = <<ix>> /\ ix.ix = "updateLendingMarketOwner"
  BY DEF Accepts
<1>2. ~Offers(tx)
  BY <1>1 DEF Offers
<1> DEFINE e == Apply(c, ix, tx.payer)
<1>3. Executed(c, tx) = IF e.ok THEN e ELSE Refused(c)
  BY <1>1, OneExecuted
<1>4. CASE ~e.ok
  BY <1>2, <1>3, <1>4 DEF Refused
<1>5. CASE e.ok
  <2> DEFINE m == c.market[1]
             n == OwnerAccepted(m)
  <2>1. c.market # <<>> /\ Authority(c, ix) = tx.payer /\ e = ConfigStep(c, ix)
    BY <1>1, <1>5 DEF Apply, Refused
  <2>2. m.lendingMarketOwnerCached = tx.payer
    BY <1>1, <2>1 DEF Authority
  <2>3. e.c = [c EXCEPT !.market[1] = OwnerAccepted(@)]
    BY <1>1, <2>1 DEF ConfigStep, Ok
  <2>4. MarketOK(m) /\ 1 \in DOMAIN c.market /\ "market" \in DOMAIN c
    BY <2>1 DEF ChainOK
  <2>5. e.c = [c EXCEPT !.market[1] = n]
    BY <2>3, <2>4
  <2>6. /\ MarketOK(n) /\ n.lendingMarketOwner = tx.payer
        /\ n.lendingMarketOwnerCached = tx.payer
    BY <2>2, <2>4 DEF OwnerAccepted, MarketOK
  <2> HIDE DEF n, e
  <2>7. ChainOK(e.c) /\ e.c.market # <<>> /\ e.c.market[1] = n
    BY <2>1, <2>5, <2>6, SetMarket
  <2> QED
    BY <1>2, <1>3, <1>5, <2>1, <2>2, <2>6, <2>7
<1> QED
  BY <1>4, <1>5

-----------------------------------------------------------------------------
(* The owner.                                                                *)

\* Whoever holds a key and is named to be the next owner was named by the owner.
Named(c, who) ==
    c.market # <<>> =>
        \/ c.market[1].lendingMarketOwnerCached = c.market[1].lendingMarketOwner
        \/ c.market[1].lendingMarketOwnerCached \notin Admins
        \/ who = c.market[1].lendingMarketOwner

\* The owner that a step puts in another's place.
Succeeds(c, d, who) ==
    c.market # <<>> /\ d.market[1].lendingMarketOwner # c.market[1].lendingMarketOwner
        => /\ who = c.market[1].lendingMarketOwner
           /\ d.market[1].lendingMarketOwner = c.market[1].lendingMarketOwnerCached

\* What a transaction makes of the chain.
LEMMA TakeKeeps ==
    ASSUME ChainOK(chain), Named(chain, offeredBy), NEW tx, TxOK(tx),
           Take(tx, Executed(chain, tx))
    PROVE  ChainOK(chain') /\ Named(chain', offeredBy') /\ Succeeds(chain, chain', offeredBy)
<1> DEFINE e == Executed(chain, tx)
<1>1. chain' = e.c /\ offeredBy' = IF e.ok /\ Offers(tx) THEN tx.payer ELSE offeredBy
  BY DEF Take
<1>2. tx.payer \in Admins
  BY DEF TxOK
<1>3. CASE Plain(tx)
  <2>1. \/ e.ok = FALSE /\ chain' = chain
        \/ e.ok = TRUE /\ chain' = chain /\ ~Offers(tx)
        \/ /\ e.ok = TRUE /\ Follows(chain, chain', tx.payer)
           /\ \/ Offers(tx)
              \/ chain'.market[1].lendingMarketOwnerCached
                   = chain.market[1].lendingMarketOwnerCached
    BY <1>1, <1>3, PlainExecuted
  <2> HIDE DEF e
  <2>2. CASE chain' = chain /\ offeredBy' = offeredBy
    BY <2>2 DEF Named, Succeeds
  <2>3. CASE e.ok = TRUE /\ Follows(chain, chain', tx.payer) /\ Offers(tx)
    BY <1>1, <2>3 DEF Follows, Named, Succeeds
  <2>4. CASE /\ e.ok = TRUE /\ Follows(chain, chain', tx.payer) /\ ~Offers(tx)
             /\ chain'.market[1].lendingMarketOwnerCached
                   = chain.market[1].lendingMarketOwnerCached
    BY <1>1, <2>4 DEF Follows, Named, Succeeds
  <2> QED
    BY <1>1, <2>1, <2>2, <2>3, <2>4
<1>4. CASE Creates(tx)
  <2>1. /\ ~Offers(tx) /\ ChainOK(chain')
        /\ \/ chain' = chain
           \/ /\ chain.market = <<>>
              /\ chain'.market # <<>> /\ chain'.market[1].lendingMarketOwnerCached = NullKey
    BY <1>1, <1>4, CreateExecuted
  <2> QED
    BY <1>1, <2>1, ConfigAssumption DEF Named, Succeeds
<1>5. CASE Accepts(tx)
  <2>1. /\ ~Offers(tx) /\ ChainOK(chain')
        /\ \/ chain' = chain
           \/ /\ chain.market # <<>> /\ chain'.market # <<>>
              /\ chain.market[1].lendingMarketOwnerCached = tx.payer
              /\ chain'.market[1].lendingMarketOwnerCached = tx.payer
              /\ chain'.market[1].lendingMarketOwner = tx.payer
    BY <1>1, <1>2, <1>5, AcceptExecuted
  <2> QED
    BY <1>1, <1>2, <2>1 DEF Named, Succeeds
<1> QED
  BY <1>3, <1>4, <1>5 DEF TxOK

-----------------------------------------------------------------------------
(* What the commands build.                                                  *)

\* Several transactions of them.
PlainTxs(s) == \E S : s \in Seq(S) /\ \A ixs \in S : PlainSeq(ixs)

\* The fields of all the parts of a configuration.
AllKeys == Range(RiskKeys) \cup Range(RateKeys) \cup Range(TokenInfoKeys)
             \cup Range(CapKeys) \cup Range(ElevationKeys)

\* The fields of a configuration are those of its parts.
LEMMA KeysOfParts ==
    ReserveKeys \in Seq(AllKeys) /\ Range(ReserveKeys) = AllKeys
<1>1. /\ RiskKeys \in Seq(AllKeys) /\ RateKeys \in Seq(AllKeys)
      /\ TokenInfoKeys \in Seq(AllKeys) /\ CapKeys \in Seq(AllKeys)
      /\ ElevationKeys \in Seq(AllKeys)
  <2>1. /\ RiskKeys \in Seq(Range(RiskKeys)) /\ RateKeys \in Seq(Range(RateKeys))
        /\ TokenInfoKeys \in Seq(Range(TokenInfoKeys)) /\ CapKeys \in Seq(Range(CapKeys))
        /\ ElevationKeys \in Seq(Range(ElevationKeys))
    BY DEF RiskKeys, RateKeys, TokenInfoKeys, CapKeys, ElevationKeys, Range
  <2>2. /\ Range(RiskKeys) \subseteq AllKeys /\ Range(RateKeys) \subseteq AllKeys
        /\ Range(TokenInfoKeys) \subseteq AllKeys /\ Range(CapKeys) \subseteq AllKeys
        /\ Range(ElevationKeys) \subseteq AllKeys
    BY DEF AllKeys
  <2> QED
    BY <2>1, <2>2, SeqMonotonic
<1>2. ASSUME NEW s \in Seq(AllKeys), NEW t \in Seq(AllKeys)
      PROVE  s \o t \in Seq(AllKeys) /\ Range(s \o t) = Range(s) \cup Range(t)
  BY ConcatProperties, RangeConcatenation
<1> DEFINE two == RiskKeys \o RateKeys
           three == two \o TokenInfoKeys
           four == three \o CapKeys
           five == four \o ElevationKeys
<1>3. two \in Seq(AllKeys) /\ Range(two) = Range(RiskKeys) \cup Range(RateKeys)
  BY <1>1, <1>2
<1> HIDE DEF two
<1>4. three \in Seq(AllKeys) /\ Range(three) = Range(two) \cup Range(TokenInfoKeys)
  BY <1>1, <1>2, <1>3
<1> HIDE DEF three
<1>5. four \in Seq(AllKeys) /\ Range(four) = Range(three) \cup Range(CapKeys)
  BY <1>1, <1>2, <1>4
<1> HIDE DEF four
<1>6. five \in Seq(AllKeys) /\ Range(five) = Range(four) \cup Range(ElevationKeys)
  BY <1>1, <1>2, <1>5
<1>7. ReserveKeys = five
  BY DEF ReserveKeys, four, three, two
<1> HIDE DEF five
<1> QED
  BY <1>3, <1>4, <1>5, <1>6, <1>7 DEF AllKeys

\* The fields of a configuration, sorted or not, and none of them is called "entire".
LEMMA KeysFacts ==
    /\ ReserveKeys \in Seq(Range(ReserveKeys))
    /\ SortedKeys \in Seq(Range(ReserveKeys))
    /\ "entire" \notin Range(ReserveKeys)
<1> DEFINE R == Range(ReserveKeys)
<1>2. ReserveKeys \in Seq(R)
  BY KeysOfParts
<1>3. "entire" \notin R
  <2>1. /\ "entire" \notin Range(RiskKeys) /\ "entire" \notin Range(RateKeys)
        /\ "entire" \notin Range(TokenInfoKeys) /\ "entire" \notin Range(CapKeys)
        /\ "entire" \notin Range(ElevationKeys)
    BY DEF RiskKeys, RateKeys, TokenInfoKeys, CapKeys, ElevationKeys, Range
  <2> QED
    BY <2>1, KeysOfParts DEF AllKeys
<1>4. ASSUME NEW F PROVE FirstAmong(ReserveKeys, F) \in Seq(R)
  <2> HIDE DEF R
  <2>1. Kept(ReserveKeys, F) \in Seq(F \cap R) /\ Kept(ReserveKeys, R \ F) \in Seq((R \ F) \cap R)
    BY <1>2, KeptType
  <2>2. Kept(ReserveKeys, F) \in Seq(R) /\ Kept(ReserveKeys, R \ F) \in Seq(R)
    BY <2>1, SeqMonotonic
  <2> QED
    BY <2>2 DEF FirstAmong, R
<1> QED
  BY <1>2, <1>3, <1>4 DEF SortedKeys, sortIxnsByPriority

\* One plain instruction, or none.
LEMMA OnePlain ==
    ASSUME NEW ix, PlainIx(ix)
    PROVE  PlainSeq(<<ix>>)
<1> DEFINE S == {ix}
<1>1. <<ix>> \in Seq(S) /\ \A x \in S : PlainIx(x)
  OBVIOUS
<1> HIDE DEF S
<1> QED
  BY <1>1 DEF PlainSeq

\* No instruction at all.
LEMMA NonePlain == PlainSeq(<<>>)
<1> DEFINE S == {}
<1>1. \A x \in S : PlainIx(x)
  OBVIOUS
<1> HIDE DEF S
<1>2. <<>> \in Seq(S)
  BY EmptySeq
<1> QED
  BY <1>1, <1>2 DEF PlainSeq

\* An update of one field, or of all.
LEMMA ReserveIxPlain ==
    ASSUME NEW m, NEW k, NEW v, NEW skip, k = "entire" => IsConfig(v[1])
    PROVE  PlainIx(updateReserveConfigIx(m, k, v, skip))
<1> DEFINE ix == updateReserveConfigIx(m, k, v, skip)
<1>1. ix.ix = "updateReserveConfig" /\ ix.mode = k /\ ix.value = v
  BY DEF updateReserveConfigIx
<1> HIDE DEF ix
<1> QED
  BY <1>1 DEF PlainIx, ix

\* The instructions that bring a reserve to a configuration.
LEMMA ReserveIxs ==
    ASSUME NEW m, NEW r, NEW config, NEW entire, IsConfig(config)
    PROVE  PlainSeq(updateReserveIxs(m, r, config, entire).ixs)
<1>1. CASE r = <<>> \/ entire
  <2> DEFINE ix == updateEntireReserveConfigIx(m, config)
  <2>1. updateReserveIxs(m, r, config, entire).ixs = <<ix>>
    BY <1>1 DEF updateReserveIxs, Built
  <2>2. PlainIx(ix)
    BY ReserveIxPlain DEF updateEntireReserveConfigIx
  <2> HIDE DEF ix
  <2> QED
    BY <2>1, <2>2, OnePlain
<1>2. CASE ~(r = <<>> \/ entire)
  <2> DEFINE R == Range(ReserveKeys)
             b == parseForChangesReserveConfigAndGetIxs(m, r[1], config)
             ixn(k) == updateReserveConfigIx(m, k, updateReserveConfigEncodedValue(k, config[k]),
                                             skipValidation(k, r[1]))
             S == {ixn(k) : k \in R}
             t == [i \in DOMAIN SortedKeys |->
                      IF Differs(SortedKeys[i], r[1].config, config)
                      THEN <<ixn(SortedKeys[i])>> ELSE <<>>]
  <2>1. updateReserveIxs(m, r, config, entire).ixs = b.ixs
    BY <1>2 DEF updateReserveIxs
  <2>2. b.ixs = FlattenSeq(t) \/ b.ixs = <<>>
    BY DEF parseForChangesReserveConfigAndGetIxs, Built, Thrown
  <2>3. \A ix \in S : PlainIx(ix)
    BY KeysFacts, ReserveIxPlain
  <2>4. t \in Seq(Seq(S))
    <3> HIDE DEF ixn, R
    <3>1. SortedKeys \in Seq(R)
      BY KeysFacts DEF R
    <3>2. DOMAIN SortedKeys = 1 .. Len(SortedKeys) /\ Len(SortedKeys) \in Nat
      BY <3>1, LenProperties
    <3>3. ASSUME NEW i \in 1 .. Len(SortedKeys) PROVE t[i] \in Seq(S)
      <4>1. SortedKeys[i] \in R
        BY <3>1, ElementOfSeq
      <4>2. ixn(SortedKeys[i]) \in S
        BY <4>1
      <4>3. t[i] = <<ixn(SortedKeys[i])>> \/ t[i] = <<>>
        BY <3>2
      <4> HIDE DEF t, S
      <4>4. \A x \in S : <<x>> \in Seq(S)
        OBVIOUS
      <4>5. <<>> \in Seq(S)
        BY EmptySeq
      <4> QED
        BY <4>2, <4>3, <4>4, <4>5
    <3>4. t = [i \in 1 .. Len(SortedKeys) |-> t[i]]
      BY <3>2
    <3> HIDE DEF t, S
    <3> QED
      BY <3>2, <3>3, <3>4, IsASeq
  <2> HIDE DEF t, S
  <2>5. b.ixs \in Seq(S)
    BY <2>2, <2>4, FlattenType, EmptySeq
  <2> QED
    BY <2>1, <2>3, <2>5 DEF PlainSeq
<1> QED
  BY <1>1, <1>2

\* The instructions for one field of a market.
LEMMA MarketIx ==
    ASSUME NEW m, NEW mode, mode # "lendingMarketOwner", NEW v
    PROVE  PlainIx(updateMarketConfigIx(m, mode, v))
<1> DEFINE ix == updateMarketConfigIx(m, mode, v)
<1>1. ix.ix = "updateLendingMarket" /\ ix.mode = mode
  BY DEF updateMarketConfigIx
<1> HIDE DEF ix
<1> QED
  BY <1>1 DEF PlainIx, ix

\* The instructions for one key of the file, elevation groups being sent one by one.
LEMMA MarketKeyIxs ==
    ASSUME NEW m, MarketOK(m), NEW key, NEW new, NEW fromFile
    PROVE  PlainSeq(updateLendingMarketConfig(m, key, new, fromFile))
<1> DEFINE built == updateLendingMarketConfig(m, key, new, fromFile)
<1>3. CASE key = "elevationGroups"
  <2> DEFINE ids == DOMAIN m.elevationGroups
             changed == GroupsChanged(m, new)
             ixn(i) == updateMarketConfigIx(m, "elevationGroups", new.elevationGroups[i])
             S == {ixn(i) : i \in ids}
  <2>1. built = [i \in DOMAIN changed |-> ixn(changed[i])]
    BY <1>3 DEF updateLendingMarketConfig
  <2>2. ids = 1 .. Cardinality(GroupIds) /\ Cardinality(GroupIds) \in Nat
    BY GroupsAssumption, FS_CardinalityType DEF MarketOK
  <2>3. [i \in ids |-> i] \in Seq(ids)
    <3> HIDE DEF ids
    <3> QED
      BY <2>2
  <2>4. changed \in Seq(ids)
    <3> DEFINE D == {i \in ids : m.elevationGroups[i] # new.elevationGroups[i]}
    <3>1. changed = Kept([i \in ids |-> i], D)
      BY DEF GroupsChanged
    <3> HIDE DEF ids, D
    <3>2. changed \in Seq(D \cap ids)
      BY <2>3, <3>1, KeptType
    <3> QED
      BY <3>2, SeqMonotonic
  <2>5. \A ix \in S : PlainIx(ix)
    BY MarketIx
  <2> HIDE DEF changed, ids
  <2>6. \A i \in ids : ixn(i) \in S
    OBVIOUS
  <2> HIDE DEF ixn, S
  <2>7. built \in Seq(S)
    BY <2>1, <2>4, <2>6
  <2> QED
    BY <2>5, <2>7 DEF PlainSeq
<1>4. CASE key # "elevationGroups"
  <2>1. ASSUME NEW mode, mode # "lendingMarketOwner", NEW v
        PROVE  PlainSeq(<<updateMarketConfigIx(m, mode, v)>>)
    BY <2>1, MarketIx, OnePlain
  <2>2. "lendingMarketOwnerCached" # "lendingMarketOwner" /\ MarginCallPeriod # "lendingMarketOwner"
    BY DEF MarginCallPeriod
  <2> QED
    BY <1>4, <2>1, <2>2, NonePlain DEF updateLendingMarketConfig
<1> QED
  BY <1>3, <1>4

\* The instructions that bring a market to a file.
LEMMA MarketIxs ==
    ASSUME NEW m, MarketOK(m), NEW new, NEW fromFile
    PROVE  PlainSeq(updateLendingMarketIxs(m, new, fromFile).ixs)
<1> DEFINE ixs(key) == updateLendingMarketConfig(m, key, new, fromFile)
           K == Range(MarketKeys)
           S == UNION {Range(ixs(key)) : key \in K}
           t == [i \in DOMAIN MarketKeys |-> ixs(MarketKeys[i])]
           b == updateLendingMarketIxs(m, new, fromFile)
<1>1. b.ixs = FlattenSeq(t) \/ b.ixs = <<>>
  BY DEF updateLendingMarketIxs, Built, Thrown
<1> HIDE DEF b
<1>2. ASSUME NEW key PROVE ixs(key) \in Seq(Range(ixs(key)))
                          /\ \A ix \in Range(ixs(key)) : PlainIx(ix)
  <2>1. PICK X : ixs(key) \in Seq(X) /\ \A ix \in X : PlainIx(ix)
    BY MarketKeyIxs DEF PlainSeq
  <2> HIDE DEF ixs
  <2> QED
    BY <2>1 DEF Range
<1> HIDE DEF ixs
<1>3. \A ix \in S : PlainIx(ix)
  BY <1>2
<1>4. \A key \in K : ixs(key) \in Seq(S)
  <2>1. ASSUME NEW key \in K PROVE Range(ixs(key)) \subseteq S
    OBVIOUS
  <2> HIDE DEF S, K
  <2> QED
    BY <1>2, <2>1, SeqMonotonic
<1>5. MarketKeys \in Seq(K)
  BY DEF MarketKeys, Range
<1> HIDE DEF S, K
<1>6. t \in Seq(Seq(S))
  <2>1. DOMAIN MarketKeys = 1 .. Len(MarketKeys) /\ Len(MarketKeys) \in Nat
    BY <1>5, LenProperties
  <2>2. ASSUME NEW i \in 1 .. Len(MarketKeys) PROVE t[i] \in Seq(S)
    <3>1. MarketKeys[i] \in K
      BY <1>5, ElementOfSeq
    <3> QED
      BY <1>4, <2>1, <3>1
  <2>3. t = [i \in 1 .. Len(MarketKeys) |-> t[i]]
    BY <2>1
  <2> HIDE DEF t
  <2> QED
    BY <2>1, <2>2, <2>3, IsASeq
<1> HIDE DEF t
<1>7. b.ixs \in Seq(S)
  BY <1>1, <1>6, FlattenType, EmptySeq
<1> QED
  BY <1>3, <1>7 DEF PlainSeq, b

\* A sequence in chunks.
LEMMA ChunksPlain ==
    ASSUME NEW s, PlainSeq(s)
    PROVE  PlainTxs(InChunks(s))
<1>1. PICK S : s \in Seq(S) /\ \A ix \in S : PlainIx(ix)
  BY DEF PlainSeq
<1> DEFINE L == Len(s)
           K == MarketChunk
           n == (L + K - 1) \div K
           last(i) == IF i = n THEN L ELSE i * K
<1>2. L \in Nat /\ K \in Nat \ {0}
  BY <1>1, ManagerAssumption
<1>3. n \in Nat /\ K * n <= L + K - 1
  <2> HIDE DEF L, K
  <2> QED
    BY <1>2, SMT
<1>4. InChunks(s) = [i \in 1 .. n |-> SubSeq(s, (i - 1) * K + 1, last(i))]
  BY DEF InChunks
<1>5. ASSUME NEW i \in 1 .. n PROVE SubSeq(s, (i - 1) * K + 1, last(i)) \in Seq(S)
  <2>1. (i - 1) * K \in Nat /\ i * K \in Nat
    <3> HIDE DEF K
    <3> QED
      BY <1>2, <1>3, SMT
  <2>2. last(i) \in Nat /\ last(i) <= L
    <3>1. CASE i = n
      BY <1>2, <3>1
    <3>2. CASE i # n
      <4> HIDE DEF L, K, n
      <4>1. i * K <= (n - 1) * K
        BY <1>2, <1>3, <3>2, SMT
      <4>2. (n - 1) * K = K * n - K
        BY <1>2, <1>3, SMT
      <4>3. i * K <= L
        BY <1>2, <1>3, <2>1, <4>1, <4>2, SMT
      <4> QED
        BY <2>1, <3>2, <4>3
    <3> QED
      BY <3>1, <3>2
  <2> HIDE DEF last, L
  <2>3. ASSUME NEW a \in Nat, NEW z \in Nat, z <= L PROVE SubSeq(s, a + 1, z) \in Seq(S)
    BY <1>1, <1>2, <2>3 DEF L
  <2> QED
    BY <2>1, <2>2, <2>3
<1>6. InChunks(s) \in Seq(Seq(S))
  <2> HIDE DEF n, last, K
  <2> QED
    BY <1>3, <1>4, <1>5
<1>7. \A ixs \in Seq(S) : PlainSeq(ixs)
  BY <1>1 DEF PlainSeq
<1> QED
  BY <1>6, <1>7 DEF PlainTxs

-----------------------------------------------------------------------------
(* Configurations.                                                           *)

\* The fields that a validation reads are among a configuration's.
ReadKeys ==
    {"status", "assetTier", "protocolTakeRatePct", "protocolLiquidationFeePct",
     "loanToValuePct", "liquidationThresholdPct", "minLiquidationBonusBps",
     "maxLiquidationBonusBps", "badDebtLiquidationBonusBps",
     "deleveragingMarginCallPeriodSecs", "deleveragingThresholdDecreaseBpsPerDay",
     "borrowFee", "borrowRateCurve", "borrowFactorPct", "depositLimit", "borrowLimit",
     "maxTwapDivergenceBps", "maxAgeTwapSeconds", "scopeChain", "scopeTwap",
     "switchboardFeed", "switchboardTwap", "pythPrice", "scopePriceFeed",
     "utilizationLimitBlockBorrowingAbovePct", "autodeleverageEnabled",
     "borrowLimitOutsideElevationGroup", "deleveragingBonusIncreaseBpsPerDay"}

\* They are found in the lists of the fields.
LEMMA ReadKeysAreKeys == ReadKeys \cup {"debtCapTotal"} \subseteq Range(ReserveKeys)
<1>2. {"status", "assetTier", "protocolTakeRatePct", "protocolLiquidationFeePct",
       "loanToValuePct", "liquidationThresholdPct", "minLiquidationBonusBps",
       "maxLiquidationBonusBps", "badDebtLiquidationBonusBps"} \subseteq Range(RiskKeys)
  <2>1. /\ 1 .. 10 = DOMAIN RiskKeys
        /\ RiskKeys[1] = "status" /\ RiskKeys[2] = "assetTier"
        /\ RiskKeys[4] = "protocolTakeRatePct" /\ RiskKeys[5] = "protocolLiquidationFeePct"
        /\ RiskKeys[6] = "loanToValuePct" /\ RiskKeys[7] = "liquidationThresholdPct"
        /\ RiskKeys[8] = "minLiquidationBonusBps" /\ RiskKeys[9] = "maxLiquidationBonusBps"
        /\ RiskKeys[10] = "badDebtLiquidationBonusBps"
    BY DEF RiskKeys
  <2> QED
    BY <2>1 DEF Range
<1>3. {"deleveragingMarginCallPeriodSecs", "deleveragingThresholdDecreaseBpsPerDay",
       "borrowFee", "borrowRateCurve", "borrowFactorPct", "depositLimit", "borrowLimit"}
          \subseteq Range(RateKeys)
  <2>1. /\ 1 .. 8 = DOMAIN RateKeys
        /\ RateKeys[1] = "deleveragingMarginCallPeriodSecs"
        /\ RateKeys[2] = "deleveragingThresholdDecreaseBpsPerDay"
        /\ RateKeys[3] = "borrowFee" /\ RateKeys[5] = "borrowRateCurve"
        /\ RateKeys[6] = "borrowFactorPct" /\ RateKeys[7] = "depositLimit"
        /\ RateKeys[8] = "borrowLimit"
    BY DEF RateKeys
  <2> QED
    BY <2>1 DEF Range
<1>4. {"maxTwapDivergenceBps", "maxAgeTwapSeconds", "scopeChain", "scopeTwap",
       "switchboardFeed", "switchboardTwap", "pythPrice", "scopePriceFeed"}
          \subseteq Range(TokenInfoKeys)
  <2>1. /\ 1 .. 14 = DOMAIN TokenInfoKeys
        /\ TokenInfoKeys[5] = "maxTwapDivergenceBps" /\ TokenInfoKeys[7] = "maxAgeTwapSeconds"
        /\ TokenInfoKeys[8] = "scopeChain" /\ TokenInfoKeys[9] = "scopeTwap"
        /\ TokenInfoKeys[10] = "switchboardFeed" /\ TokenInfoKeys[11] = "switchboardTwap"
        /\ TokenInfoKeys[12] = "pythPrice" /\ TokenInfoKeys[14] = "scopePriceFeed"
    BY DEF TokenInfoKeys
  <2> QED
    BY <2>1 DEF Range
<1>5. {"utilizationLimitBlockBorrowingAbovePct", "autodeleverageEnabled",
       "borrowLimitOutsideElevationGroup", "deleveragingBonusIncreaseBpsPerDay"}
          \subseteq Range(ElevationKeys)
  <2>1. /\ 1 .. 7 = DOMAIN ElevationKeys
        /\ ElevationKeys[3] = "utilizationLimitBlockBorrowingAbovePct"
        /\ ElevationKeys[4] = "autodeleverageEnabled"
        /\ ElevationKeys[5] = "borrowLimitOutsideElevationGroup"
        /\ ElevationKeys[7] = "deleveragingBonusIncreaseBpsPerDay"
    BY DEF ElevationKeys
  <2> QED
    BY <2>1 DEF Range
<1>6. "debtCapTotal" \in Range(CapKeys)
  <2>1. 1 .. 4 = DOMAIN CapKeys /\ CapKeys[4] = "debtCapTotal"
    BY DEF CapKeys
  <2> QED
    BY <2>1 DEF Range
<1> QED
  BY <1>2, <1>3, <1>4, <1>5, <1>6, KeysOfParts DEF AllKeys, ReadKeys

\* The total of a cap makes no configuration valid or invalid, usable or not.
LEMMA TotalIsNotRead ==
    ASSUME NEW c, IsConfig(c), NEW x
    PROVE  LET d == [c EXCEPT !.debtCapTotal = x]
           IN /\ IsConfig(d)
              /\ OwnConfigIsValid(c) => OwnConfigIsValid(d)
              /\ Usable(d) => Usable(c)
<1> DEFINE d == [c EXCEPT !.debtCapTotal = x]
<1>1. \A k \in ReadKeys : k \in DOMAIN c /\ k # "debtCapTotal"
  BY ReadKeysAreKeys DEF IsConfig, ReadKeys
<1>2. \A k \in ReadKeys : d[k] = c[k]
  BY <1>1
<1>3. IsConfig(d)
  BY DEF IsConfig
<1> HIDE DEF d
<1>4. Usable(d) => Usable(c)
  BY <1>2 DEF ReadKeys, Usable
<1>5. ASSUME OwnConfigIsValid(c) PROVE OwnConfigIsValid(d)
  <2> HIDE DEF ReadKeys
  <2>1. /\ d.status = c.status /\ d.loanToValuePct = c.loanToValuePct
        /\ d.maxLiquidationBonusBps = c.maxLiquidationBonusBps
        /\ d.liquidationThresholdPct = c.liquidationThresholdPct
        /\ d.borrowFee = c.borrowFee /\ d.protocolLiquidationFeePct = c.protocolLiquidationFeePct
        /\ d.protocolTakeRatePct = c.protocolTakeRatePct
        /\ d.badDebtLiquidationBonusBps = c.badDebtLiquidationBonusBps
        /\ d.minLiquidationBonusBps = c.minLiquidationBonusBps
        /\ d.borrowFactorPct = c.borrowFactorPct /\ d.assetTier = c.assetTier
        /\ d.borrowLimit = c.borrowLimit
        /\ d.borrowLimitOutsideElevationGroup = c.borrowLimitOutsideElevationGroup
        /\ d.utilizationLimitBlockBorrowingAbovePct = c.utilizationLimitBlockBorrowingAbovePct
        /\ d.borrowRateCurve = c.borrowRateCurve
    BY <1>2 DEF ReadKeys
  <2>2. TokenInfoIsValid(d) <=> TokenInfoIsValid(c)
    BY <1>2 DEF ReadKeys, TokenInfoIsValid
  <2>3. IsTwapConfigValid(d) <=> IsTwapConfigValid(c)
    BY <1>2 DEF ReadKeys, IsTwapConfigValid
  <2>4. AutodeleverageIsValid(d) <=> AutodeleverageIsValid(c)
    BY <1>2 DEF ReadKeys, AutodeleverageIsValid
  <2> QED
    BY <1>5, <2>1, <2>2, <2>3, <2>4 DEF OwnConfigIsValid
<1> QED
  BY <1>3, <1>4, <1>5 DEF d

\* What is read from a file, or built for an asset, has all the fields.
LEMMA FileIsConfig ==
    ASSUME NEW f, IsConfig(f)
    PROVE  IsConfig(parseReserveConfigFromFile(f)) /\ IsConfig(parseReserveConfigToFile(f))
BY DEF parseReserveConfigFromFile, parseReserveConfigToFile, IsConfig

\* The same for what is built from described parameters, whatever they are.
LEMMA BuiltIsConfig ==
    ASSUME NEW p, NEW name
    PROVE  IsConfig(buildReserveConfig(p, name))
<1>1. \A q, f : DOMAIN Overwritten(q, f) = DOMAIN q
  BY DEF Overwritten
<1>2. DOMAIN buildReserveConfig(p, name) = DOMAIN ZeroConfig
  BY <1>1 DEF buildReserveConfig
<1>3. DOMAIN ZeroConfig = Range(ReserveKeys)
  BY DEF ZeroConfig
<1> QED
  BY <1>2, <1>3 DEF IsConfig

-----------------------------------------------------------------------------
(* The inductive invariant.                                                  *)

\* The transactions a command has still to send.
TxSeq(s) == \E S : s \in Seq(S) /\ \A tx \in S : TxOK(tx)

\* The chain is in order, the file holds a whole configuration, and every transaction
\* that may still land is one that a command built and an administrator pays for.
IInv ==
    /\ ChainOK(chain) /\ Named(chain, offeredBy)
    /\ "reserve" \in DOMAIN files /\ IsConfig(files.reserve)
    /\ DOMAIN plan = Commands /\ \A k \in Commands : TxSeq(plan[k])
    /\ \A tx \in late : TxOK(tx)

\* What a step keeps of it, and how it treats the owner.
Preserved == IInv' /\ Succeeds(chain, chain', offeredBy)

\* A command puts its transactions into the plan.
LEMMA SendKeeps ==
    ASSUME IInv, NEW k \in Commands, NEW payer, NEW txs, NEW X, txs \in Seq(X),
           \A x \in X : TxOK([payer |-> payer, ixs |-> x]),
           Send(k, payer, txs), UNCHANGED files
    PROVE  Preserved
<1> DEFINE new == [i \in DOMAIN txs |-> [payer |-> payer, ixs |-> txs[i]]]
           S == {[payer |-> payer, ixs |-> x] : x \in X}
<1>1. /\ plan' = [plan EXCEPT ![k] = new] /\ UNCHANGED <<chain, late, offeredBy, files>>
  BY DEF Send
<1>2. \A tx \in S : TxOK(tx)
  OBVIOUS
<1>3. new \in Seq(S)
  <2>1. DOMAIN txs = 1 .. Len(txs) /\ Len(txs) \in Nat
    BY LenProperties
  <2>2. ASSUME NEW i \in 1 .. Len(txs) PROVE new[i] \in S
    <3>1. txs[i] \in X
      BY ElementOfSeq
    <3> QED
      BY <2>1, <3>1
  <2>3. new = [i \in 1 .. Len(txs) |-> new[i]]
    BY <2>1
  <2> HIDE DEF new, S
  <2> QED
    BY <2>1, <2>2, <2>3, IsASeq
<1> HIDE DEF new, S
<1>4. TxSeq(new)
  BY <1>2, <1>3 DEF TxSeq
<1>5. DOMAIN plan' = Commands /\ \A j \in Commands : TxSeq(plan'[j])
  BY <1>1, <1>4 DEF IInv
<1> QED
  BY <1>1, <1>5 DEF Preserved, IInv, Succeeds

\* Plain instructions in one transaction, or in several.
LEMMA SendPlainKeeps ==
    ASSUME IInv, NEW k \in Commands, NEW payer \in Admins, NEW txs, PlainTxs(txs),
           Send(k, payer, txs), UNCHANGED files
    PROVE  Preserved
<1>1. PICK X : txs \in Seq(X) /\ \A ixs \in X : PlainSeq(ixs)
  BY DEF PlainTxs
<1>2. ASSUME NEW x \in X PROVE TxOK([payer |-> payer, ixs |-> x])
  <2> DEFINE tx == [payer |-> payer, ixs |-> x]
  <2>1. tx.payer = payer /\ tx.ixs = x
    OBVIOUS
  <2> HIDE DEF tx
  <2>2. Plain(tx)
    BY <1>1, <2>1 DEF Plain, PlainSeq
  <2> QED
    BY <2>1, <2>2 DEF TxOK, tx
<1> QED
  BY <1>1, <1>2, SendKeeps

\* A single transaction.
LEMMA OneTx ==
    ASSUME NEW ixs, PlainSeq(ixs)
    PROVE  PlainTxs(<<ixs>>)
<1> DEFINE S == {ixs}
<1>1. <<ixs>> \in Seq(S) /\ \A x \in S : PlainSeq(x)
  OBVIOUS
<1> HIDE DEF S
<1> QED
  BY <1>1 DEF PlainTxs

\* The owner sends what was built in a single transaction.
LEMMA SendOneKeeps ==
    ASSUME IInv, HasMarket, NEW k \in Commands, NEW built, PlainSeq(built.ixs),
           SendOne(k, built), UNCHANGED files
    PROVE  Preserved
<1>1. Send(k, Owner, <<built.ixs>>)
  BY DEF SendOne
<1>2. Owner \in Admins
  BY DEF IInv, ChainOK, MarketOK, HasMarket, Owner, market
<1> QED
  BY <1>1, <1>2, OneTx, SendPlainKeeps

-----------------------------------------------------------------------------
(* The commands.                                                             *)

\* A market is created by the creator, one of the administrators.
LEMMA CreateMarketKeeps == ASSUME IInv, CreateMarket PROVE Preserved
<1> DEFINE ix == [ix |-> "initLendingMarket", signer |-> Creator]
           X == {<<ix>>}
<1>1. /\ Send("setup", Creator, <<<<ix>>>>) /\ UNCHANGED files
  BY DEF CreateMarket, createMarketIxs
<1>2. ix.ix = "initLendingMarket" /\ ix.signer \in Admins
  BY ConfigAssumption
<1> HIDE DEF ix
<1>3. <<<<ix>>>> \in Seq(X)
  OBVIOUS
<1>4. ASSUME NEW x \in X PROVE TxOK([payer |-> Creator, ixs |-> x])
  <2> DEFINE tx == [payer |-> Creator, ixs |-> x]
  <2>1. tx.payer = Creator /\ tx.ixs = <<ix>>
    BY <1>4
  <2> HIDE DEF tx
  <2> QED
    BY <1>2, <2>1, ConfigAssumption DEF TxOK, Creates, tx
<1> HIDE DEF X
<1>5. "setup" \in Commands
  BY DEF Commands
<1> QED
  BY <1>1, <1>3, <1>4, <1>5, SendKeeps

\* The market is accepted by an administrator whom the chain names.
LEMMA AcceptOwnershipKeeps == ASSUME IInv, AcceptOwnership PROVE Preserved
<1> DEFINE cached == market.lendingMarketOwnerCached
           ix == [ix |-> "updateLendingMarketOwner", signer |-> cached]
           X == {<<ix>>}
<1>1. /\ Send("owner", cached, <<<<ix>>>>) /\ UNCHANGED files /\ cached \in Admins
  BY DEF AcceptOwnership, updateLendingMarketOwnerIxs
<1>2. ix.ix = "updateLendingMarketOwner"
  OBVIOUS
<1> HIDE DEF ix, cached
<1>3. <<<<ix>>>> \in Seq(X)
  OBVIOUS
<1>4. ASSUME NEW x \in X PROVE TxOK([payer |-> cached, ixs |-> x])
  <2> DEFINE tx == [payer |-> cached, ixs |-> x]
  <2>1. tx.payer = cached /\ tx.ixs = <<ix>>
    BY <1>4
  <2> HIDE DEF tx
  <2> QED
    BY <1>1, <1>2, <2>1 DEF TxOK, Accepts, tx
<1> HIDE DEF X
<1>5. "owner" \in Commands
  BY DEF Commands
<1> QED
  BY <1>1, <1>3, <1>4, <1>5, SendKeeps

\* A reserve is created, and in a second transaction its whole configuration sent.
LEMMA AddAssetKeeps == ASSUME IInv, NEW fromFile \in BOOLEAN, AddAsset(fromFile) PROVE Preserved
<1> DEFINE config == IF fromFile THEN parseReserveConfigFromFile(files.reserve)
                     ELSE buildReserveConfig(params, NewName)
           first == createReserveIxs(Owner)
           second == updateReserveIxs(market, <<>>, config, FALSE).ixs
           X == {first, second}
<1>1. /\ HasMarket /\ UNCHANGED files
      /\ Send("setup", Owner, <<first, second>>)
  BY DEF AddAsset, addAssetToMarketIxs
<1>2. IsConfig(config)
  BY FileIsConfig, BuiltIsConfig DEF IInv
<1>3. PlainSeq(second)
  <2> HIDE DEF config
  <2> QED
    BY <1>2, ReserveIxs
<1>4. PlainSeq(first)
  <2> DEFINE ix == [ix |-> "initReserve", signer |-> Owner]
  <2>1. first = <<ix>> /\ ix.ix = "initReserve"
    BY DEF createReserveIxs
  <2> HIDE DEF ix
  <2>2. PlainIx(ix)
    BY <2>1 DEF PlainIx
  <2> QED
    BY <2>1, <2>2, OnePlain
<1> HIDE DEF first, second
<1>5. <<first, second>> \in Seq(X) /\ \A x \in X : PlainSeq(x)
  BY <1>3, <1>4
<1> HIDE DEF X
<1>6. PlainTxs(<<first, second>>)
  BY <1>5 DEF PlainTxs
<1>7. Owner \in Admins /\ "setup" \in Commands
  BY <1>1 DEF IInv, ChainOK, MarketOK, HasMarket, Owner, market, Commands
<1> QED
  BY <1>1, <1>6, <1>7, SendPlainKeeps

\* The reserve is brought to the file.
LEMMA UpdateReserveKeeps == ASSUME IInv, UpdateReserve PROVE Preserved
<1> DEFINE built == updateReserveIxs(market, chain.reserve, Goal, files.entire)
<1>1. HasReserve /\ SendOne("reserve", built) /\ UNCHANGED files
  BY DEF UpdateReserve
<1>2. HasMarket /\ "reserve" \in Commands
  BY <1>1 DEF IInv, ChainOK, HasReserve, HasMarket, Commands
<1>3. IsConfig(Goal)
  BY FileIsConfig DEF IInv, Goal
<1>4. PlainSeq(built.ixs)
  BY <1>3, ReserveIxs
<1> HIDE DEF built
<1> QED
  BY <1>1, <1>2, <1>4, SendOneKeeps

\* The market is brought to the file, a few instructions at a time.
LEMMA UpdateMarketKeeps == ASSUME IInv, UpdateMarket PROVE Preserved
<1> DEFINE built == updateLendingMarketIxs(market, files.market, TRUE)
<1>1. HasMarket /\ Send("market", Owner, InChunks(built.ixs)) /\ UNCHANGED files
  BY DEF UpdateMarket
<1>2. MarketOK(market) /\ Owner \in Admins /\ "market" \in Commands
  BY <1>1 DEF IInv, ChainOK, MarketOK, HasMarket, Owner, market, Commands
<1>3. PlainSeq(built.ixs)
  BY <1>2, MarketIxs
<1> HIDE DEF built
<1>4. PlainTxs(InChunks(built.ixs))
  BY <1>3, ChunksPlain
<1> QED
  BY <1>1, <1>2, <1>4, SendPlainKeeps

\* The market is renamed.
LEMMA RenameKeeps == ASSUME IInv, Rename PROVE Preserved
<1> DEFINE new == [market EXCEPT !.name = NewName]
           built == updateLendingMarketIxs(market, new, FALSE)
<1>1. HasMarket /\ SendOne("market", built) /\ UNCHANGED files
  BY DEF Rename
<1>2. MarketOK(market) /\ "market" \in Commands
  BY <1>1 DEF IInv, ChainOK, HasMarket, market, Commands
<1>3. PlainSeq(built.ixs)
  <2> HIDE DEF new
  <2> QED
    BY <1>2, MarketIxs
<1> HIDE DEF built
<1> QED
  BY <1>1, <1>2, <1>3, SendOneKeeps

\* The reserve of the chain and its configuration.
LEMMA ReserveFacts ==
    ASSUME IInv, HasReserve
    PROVE  HasMarket /\ ReserveOK(reserve) /\ IsConfig(reserve.config) /\ "reserve" \in Commands
BY DEF IInv, ChainOK, ReserveOK, IsReserve, HasReserve, HasMarket, reserve, Commands

\* The borrow limit is set.
LEMMA SetDebtCapKeeps == ASSUME IInv, SetDebtCap PROVE Preserved
<1> DEFINE config == [reserve.config EXCEPT !.borrowLimit = DebtCap]
           built == updateReserveIxs(market, chain.reserve, config, FALSE)
<1>1. HasReserve /\ SendOne("reserve", built) /\ UNCHANGED files
  BY DEF SetDebtCap
<1>2. IsConfig(config)
  BY <1>1, ReserveFacts DEF IsConfig
<1>3. PlainSeq(built.ixs)
  <2> HIDE DEF config
  <2> QED
    BY <1>2, ReserveIxs
<1> HIDE DEF built
<1> QED
  BY <1>1, <1>3, ReserveFacts, SendOneKeeps

\* The price source is changed.
LEMMA RetuneOracleKeeps == ASSUME IInv, NEW twap, RetuneOracle(twap) PROVE Preserved
<1> DEFINE built == updateReserveScopeOracleConfigurationIxs(market, reserve, Oracle, twap, Buffer)
<1>1. HasReserve /\ SendOne("reserve", built) /\ UNCHANGED files
  BY DEF RetuneOracle
<1>2. PlainSeq(built.ixs)
  <2> DEFINE feed == getReserveOracleConfigs(
                        [scope |-> Oracle.scope, chain |-> <<Oracle.id>>,
                         twap |-> IF twap = <<>> THEN NoChain ELSE <<twap[1].id>>])
             old == reserve.config
             config == [old EXCEPT !.scopePriceFeed = feed.scopePriceFeed,
                                   !.scopeChain = feed.scopeChain,
                                   !.scopeTwap = feed.scopeTwap,
                                   !.maxAgePriceSeconds = Oracle.maxAge + Buffer,
                                   !.maxAgeTwapSeconds = IF twap = <<>> THEN @
                                                         ELSE twap[1].maxAge + Buffer]
  <2>1. built = updateReserveIxs(market, <<reserve>>, config, FALSE)
    BY DEF updateReserveScopeOracleConfigurationIxs
  <2>2. IsConfig(config)
    <3> HIDE DEF feed
    <3>1. DOMAIN config = DOMAIN old
      OBVIOUS
    <3> HIDE DEF config
    <3> QED
      BY <1>1, <3>1, ReserveFacts DEF IsConfig
  <2> HIDE DEF built, config
  <2> QED
    BY <2>1, <2>2, ReserveIxs
<1> HIDE DEF built
<1> QED
  BY <1>1, <1>2, ReserveFacts, SendOneKeeps

\* The files are written from the chain.
LEMMA DownloadKeeps == ASSUME IInv, DownloadConfigs PROVE Preserved
<1>1. /\ HasReserve /\ UNCHANGED <<chain, plan, late, offeredBy>>
      /\ files' = [files EXCEPT !.reserve = parseReserveConfigToFile(reserve.config), !.market = market]
  BY DEF DownloadConfigs
<1>2. IsConfig(parseReserveConfigToFile(reserve.config))
  BY <1>1, ReserveFacts, FileIsConfig
<1>3. "reserve" \in DOMAIN files
  BY DEF IInv
<1>4. DOMAIN files' = DOMAIN files /\ files'.reserve = parseReserveConfigToFile(reserve.config)
  BY <1>1, <1>3
<1> QED
  BY <1>1, <1>2, <1>3, <1>4 DEF Preserved, IInv, Succeeds

\* A constructor writes into the shared parameters.
LEMMA DescribeKeeps == ASSUME IInv, NEW a, Describe(a) PROVE Preserved
<1>1. UNCHANGED <<chain, files, plan, late, offeredBy>>
  BY DEF Describe
<1> QED
  BY <1>1 DEF Preserved, IInv, Succeeds

-----------------------------------------------------------------------------
(* The sender, and the chain.                                                *)

\* The transactions still to be sent.
LEMMA PlanFacts ==
    ASSUME IInv, NEW k \in Commands, plan[k] # <<>>
    PROVE  TxOK(Head(plan[k])) /\ TxSeq(Tail(plan[k])) /\ TxSeq(<<>>)
<1>1. PICK S : plan[k] \in Seq(S) /\ \A tx \in S : TxOK(tx)
  BY DEF IInv, TxSeq
<1>2. Head(plan[k]) \in S /\ Tail(plan[k]) \in Seq(S) /\ <<>> \in Seq(S)
  BY <1>1, HeadTailProperties, EmptySeq
<1> QED
  BY <1>1, <1>2 DEF TxSeq

\* The next transaction of a command lands or is refused.
LEMMA LandKeeps == ASSUME IInv, NEW k \in Commands, Land(k) PROVE Preserved
<1> DEFINE tx == Head(plan[k])
           e == Executed(chain, tx)
<1>1. /\ plan[k] # <<>> /\ Take(tx, e) /\ UNCHANGED <<files, late>>
      /\ plan' = [plan EXCEPT ![k] = IF e.ok THEN Tail(@) ELSE <<>>]
  BY DEF Land
<1>2. TxOK(tx) /\ TxSeq(Tail(plan[k])) /\ TxSeq(<<>>)
  BY <1>1, PlanFacts
<1>3. ChainOK(chain') /\ Named(chain', offeredBy') /\ Succeeds(chain, chain', offeredBy)
  <2> HIDE DEF tx
  <2> QED
    BY <1>1, <1>2, TakeKeeps DEF IInv
<1> HIDE DEF e, tx
<1>4. DOMAIN plan' = Commands /\ \A j \in Commands : TxSeq(plan'[j])
  BY <1>1, <1>2 DEF IInv
<1> QED
  BY <1>1, <1>3, <1>4 DEF Preserved, IInv

\* It is not confirmed, and the command goes on.
LEMMA UnconfirmedKeeps == ASSUME IInv, NEW k \in Commands, Unconfirmed(k) PROVE Preserved
<1>1. /\ plan[k] # <<>> /\ UNCHANGED <<chain, files, offeredBy>>
      /\ late' = late \cup {Head(plan[k])} /\ plan' = [plan EXCEPT ![k] = Tail(@)]
  BY DEF Unconfirmed
<1>2. TxOK(Head(plan[k])) /\ TxSeq(Tail(plan[k]))
  BY <1>1, PlanFacts
<1>3. DOMAIN plan' = Commands /\ \A j \in Commands : TxSeq(plan'[j])
  BY <1>1, <1>2 DEF IInv
<1> QED
  BY <1>1, <1>2, <1>3 DEF Preserved, IInv, Succeeds

\* It lands after all, on a chain that has moved on.
LEMMA LandLateKeeps == ASSUME IInv, LandLate PROVE Preserved
<1>1. PICK tx \in late : /\ Take(tx, Executed(chain, tx)) /\ late' = late \ {tx}
                         /\ UNCHANGED <<files, plan>>
  BY DEF LandLate
<1>2. ChainOK(chain') /\ Named(chain', offeredBy') /\ Succeeds(chain, chain', offeredBy)
  BY <1>1, TakeKeeps DEF IInv
<1> QED
  BY <1>1, <1>2 DEF Preserved, IInv

\* It never lands.
LEMMA ExpireKeeps == ASSUME IInv, Expire PROVE Preserved
<1>1. UNCHANGED <<chain, files, plan, offeredBy>> /\ late' \subseteq late
  BY DEF Expire
<1> QED
  BY <1>1 DEF Preserved, IInv, Succeeds

\* The reserve is used.
LEMMA UseKeeps == ASSUME IInv, HasReserve, NEW r, ReserveOK(r), Use(r) PROVE Preserved
<1>1. chain' = [chain EXCEPT !.reserve[1] = r] /\ UNCHANGED <<files, plan, late, offeredBy>>
  BY DEF Use
<1>2. ChainOK(chain') /\ chain'.market = chain.market
  BY <1>1, SetReserve DEF IInv, HasReserve
<1> QED
  BY <1>1, <1>2 DEF Preserved, IInv, Named, Succeeds

\* A deposit leaves the configuration alone.
LEMMA OthersDepositKeeps == ASSUME IInv, OthersDeposit PROVE Preserved
<1> DEFINE r == [reserve EXCEPT !.available = @ + 1, !.supply = @ + 1]
<1>1. HasReserve /\ Use(r)
  BY DEF OthersDeposit
<1>2. ReserveOK(reserve)
  BY <1>1, ReserveFacts
<1>3. r.config = reserve.config /\ DOMAIN r = DOMAIN reserve
  BY <1>2 DEF ReserveOK, IsReserve
<1> HIDE DEF r
<1>4. ReserveOK(r)
  BY <1>2, <1>3 DEF ReserveOK, IsReserve
<1> QED
  BY <1>1, <1>4, UseKeeps

\* A loan counts towards the debt cap, in a field of the configuration.
LEMMA OthersBorrowKeeps == ASSUME IInv, OthersBorrow PROVE Preserved
<1> DEFINE counted == reserve.config.debtCap[2] # 0
           r == [reserve EXCEPT !.available = @ - 1, !.borrowed = @ + 1,
                                !.config.debtCapTotal = IF counted THEN @ + 1 ELSE @]
           x == IF counted THEN reserve.config.debtCapTotal + 1 ELSE reserve.config.debtCapTotal
           c == [reserve.config EXCEPT !.debtCapTotal = x]
<1>1. HasReserve /\ Use(r)
  BY DEF OthersBorrow
<1>2. ReserveOK(reserve) /\ IsConfig(reserve.config)
  BY <1>1, ReserveFacts
<1>3. r.config = c /\ DOMAIN r = DOMAIN reserve
  BY <1>2 DEF ReserveOK, IsReserve
<1> HIDE DEF r
<1>4. /\ IsConfig(c) /\ (OwnConfigIsValid(reserve.config) => OwnConfigIsValid(c))
      /\ Usable(c) => Usable(reserve.config)
  <2> HIDE DEF x
  <2> QED
    BY <1>2, TotalIsNotRead
<1> HIDE DEF c
<1>5. ReserveOK(r)
  BY <1>2, <1>3, <1>4 DEF ReserveOK, IsReserve
<1> QED
  BY <1>1, <1>5, UseKeeps

-----------------------------------------------------------------------------
(* The theorems.                                                             *)

\* Every start is in order.
LEMMA InitIInv == ASSUME Init PROVE IInv
<1>1. PICK s \in Starts : chain = s.chain /\ files = s.files
  BY DEF Init
<1>2. StartAssumed(s)
  BY ConfigAssumption
<1>3. plan = [k \in Commands |-> <<>>] /\ late = {} /\ offeredBy = NullKey
  BY DEF Init
<1>4. TxSeq(<<>>)
  <2> DEFINE S == {}
  <2>1. \A tx \in S : TxOK(tx)
    OBVIOUS
  <2> HIDE DEF S
  <2>2. <<>> \in Seq(S)
    BY EmptySeq
  <2> QED
    BY <2>1, <2>2 DEF TxSeq
<1>5. {"market", "reserve"} \subseteq DOMAIN chain
  BY <1>1, <1>2 DEF StartAssumed
<1>6. ASSUME chain.market # <<>>
      PROVE  /\ 1 \in DOMAIN chain.market /\ MarketOK(chain.market[1])
             /\ chain.market[1].lendingMarketOwnerCached \notin Admins
  <2>1. /\ chain.market = <<chain.market[1]>> /\ IsMarket(chain.market[1])
        /\ chain.market[1].lendingMarketOwner \in Admins
        /\ chain.market[1].lendingMarketOwnerCached = NullKey
    BY <1>1, <1>2, <1>6 DEF StartAssumed
  <2>2. 1 \in DOMAIN chain.market
    BY <2>1
  <2>3. {"lendingMarketOwner", "lendingMarketOwnerCached", "elevationGroups"} \subseteq Range(MarketKeys)
    <3>1. /\ MarketKeys[1] = "lendingMarketOwner" /\ MarketKeys[2] = "lendingMarketOwnerCached"
          /\ MarketKeys[14] = "elevationGroups" /\ DOMAIN MarketKeys = 1 .. 20
      BY DEF MarketKeys
    <3> QED
      BY <3>1 DEF Range
  <2> QED
    BY <2>1, <2>2, <2>3, ConfigAssumption DEF IsMarket, MarketOK
<1>7. ASSUME chain.reserve # <<>>
      PROVE  1 \in DOMAIN chain.reserve /\ ReserveOK(chain.reserve[1]) /\ chain.market # <<>>
  <2> DEFINE r == chain.reserve[1]
  <2>1. /\ chain.reserve = <<r>> /\ chain.market # <<>>
        /\ IsReserve(r) /\ (Usable(r.config) => OwnConfigIsValid(r.config))
    BY <1>1, <1>2, <1>7 DEF StartAssumed
  <2>2. 1 \in DOMAIN chain.reserve
    BY <2>1
  <2> QED
    BY <2>1, <2>2 DEF ReserveOK
<1>8. ChainOK(chain) /\ Named(chain, offeredBy)
  BY <1>5, <1>6, <1>7 DEF ChainOK, Named
<1>9. "reserve" \in DOMAIN files /\ IsConfig(files.reserve)
  BY <1>1, <1>2 DEF StartAssumed
<1> QED
  BY <1>3, <1>4, <1>8, <1>9 DEF IInv

\* Every step keeps the invariant, and treats the owner as it should.
LEMMA NextKeeps == ASSUME IInv, [Next]_vars PROVE Preserved
<1>1. CASE UNCHANGED vars
  BY <1>1 DEF vars, Preserved, IInv, Succeeds
<1>2. ASSUME NEW k \in Commands, Land(k) \/ Unconfirmed(k) PROVE Preserved
  BY <1>2, LandKeeps, UnconfirmedKeeps
<1>3. ASSUME NEW a \in Assets, Describe(a) PROVE Preserved
  BY <1>3, DescribeKeeps
<1>4. ASSUME NEW fromFile \in BOOLEAN, AddAsset(fromFile) PROVE Preserved
  BY <1>4, AddAssetKeeps
<1>5. ASSUME NEW twap \in {<<>>, <<Oracle>>}, RetuneOracle(twap) PROVE Preserved
  BY <1>5, RetuneOracleKeeps
<1> QED
  BY <1>1, <1>2, <1>3, <1>4, <1>5, CreateMarketKeeps, UpdateReserveKeeps, UpdateMarketKeeps,
     AcceptOwnershipKeeps, RenameKeeps, SetDebtCapKeeps, DownloadKeeps, LandLateKeeps,
     ExpireKeeps, OthersDepositKeeps, OthersBorrowKeeps DEF Next

\* The invariant holds throughout: no command builds, and no chain holds, anything else.
THEOREM ConfigInductive == Spec => []IInv
<1>1. Init => IInv
  BY InitIInv
<1>2. IInv /\ [Next]_vars => IInv'
  BY NextKeeps DEF Preserved
<1> QED
  BY <1>1, <1>2, PTL DEF Spec

\* A reserve with a deposit or a borrow limit always has a configuration that
\* validate_reserve_config accepts by itself, though handler_update_reserve_config skips the
\* validation when asked to and the client asks for it: skipping needs both limits at 0.
THEOREM UsableReserveAlwaysValid == Spec => []UsableReserveIsValid
<1>1. IInv => UsableReserveIsValid
  BY DEF IInv, ChainOK, ReserveOK, UsableReserveIsValid, HasReserve, reserve
<1> QED
  BY <1>1, ConfigInductive, PTL

\* Whenever the owner of the market changes, the former one had named the new one: neither
\* a transaction that lands late nor a handover accepted twice gives the market to anybody
\* else (handler_update_lending_market, handler_update_lending_market_owner).
THEOREM OwnerAlwaysNamed == Spec => OwnerIsNamed
<1>1. IInv /\ [Next]_vars =>
        [HasMarket /\ chain'.market[1].lendingMarketOwner # Owner
            => /\ offeredBy = Owner
               /\ chain'.market[1].lendingMarketOwner = market.lendingMarketOwnerCached]_vars
  BY NextKeeps DEF Preserved, Succeeds, HasMarket, Owner, market
<1> QED
  BY <1>1, ConfigInductive, PTL DEF Spec, OwnerIsNamed

=============================================================================
