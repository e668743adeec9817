---------------------------- MODULE StockProofs ----------------------------
(***************************************************************************)
(* The stock module, for every number of outlets, batches, invoices, bills *)
(* and entries, when requests come one at a time: stock rows against the   *)
(* ledger of entries, reservations against rows, documents against their   *)
(* entries.  A request changes rows one after the other, so the invariant  *)
(* is a story told at every step: what the rows say, with the updates the  *)
(* request still has to make, is what the ledger says without the entries  *)
(* it is about to drop.  With two requests at work it is false.  At the    *)
(* end, what the stock check answered is followed up to the sale.          *)
(***************************************************************************)
EXTENDS Stock, FoldTheorems, SequenceTheorems

-----------------------------------------------------------------------------
(* Requests, and what the tables hold *)

AllKinds == Kinds \cup {"reservation", "release"}
Refs     == Invoices \cup Bills \cup {None}
MoveType == [key : Keys, kind : AllKinds, qty : Int]
Moves    == Seq(MoveType)
Got      == RowType \cup {NoRow, NotRead}
Answers  == {"warned", "enough", "none"}

FinishType  == [op : {"finish"}, todo : Moves, got : Got]
BulkType    == [op : {"bulk"}, key : Keys, adj : Int, todo : Moves, got : Got]
SeenType    == [op : {"edit", "approve", "reject"}, seen : EntryType, todo : Moves, got : Got]
SyncType    == [op : {"sync"}, ref : Refs, todo : Moves, got : Got]
AllType     == [op : {"approve_all"}, list : SUBSET EntryType, refs : SUBSET Refs, todo : Moves, got : Got]
ReserveType == [op : {"reserve", "release"}, key : Keys, qty : Quantities, seen : RowType, todo : Moves, got : Got]
SellType    == [op : {"sell"}, doc : Invoices, check : Answers, todo : Moves, got : Got]
RewriteType == [op : {"rewrite", "save", "sell"}, doc : Invoices, new : InvoiceType, check : Answers,
                todo : Moves, got : Got]
SoldType    == [op : {"sold"}, check : Answers, batch : Batches \cup {Unbatched}, todo : Moves, got : Got]
UndoType    == [op : {"unsell", "erase"}, doc : Invoices, todo : Moves, got : Got]

RequestType == {Idle} \cup FinishType \cup BulkType \cup SeenType \cup SyncType \cup AllType
                \cup ReserveType \cup SellType \cup RewriteType \cup SoldType \cup UndoType

\* A request is of the kind its handler says.
LEMMA RequestIs ==
    ASSUME NEW x \in RequestType
    PROVE  /\ x.op = "idle" => x = Idle
           /\ x.op = "bulk" => x \in BulkType
           /\ x.op \in {"edit", "approve", "reject"} => x \in SeenType
           /\ x.op = "sync" => x \in SyncType
           /\ x.op = "approve_all" => x \in AllType
           /\ x.op \in {"reserve", "release"} => x \in ReserveType
           /\ x.op = "sell" => x \in SellType \cup RewriteType
           /\ x.op \in {"rewrite", "save"} => x \in RewriteType
           /\ x.op = "sold" => x \in SoldType
           /\ x.op = "finish" => x \in FinishType
           /\ x.op \in {"unsell", "erase"} => x \in UndoType
           /\ x # Idle => x.todo \in Moves /\ x.got \in Got
  BY DEF RequestType, FinishType, BulkType, SeenType, SyncType, AllType, ReserveType, SellType,
         RewriteType, SoldType, UndoType, Idle

RowsTyped(s) ==
    /\ s = [k \in DOMAIN s |-> s[k]]
    /\ DOMAIN s \subseteq Keys /\ IsFiniteSet(DOMAIN s) /\ \A k \in DOMAIN s : s[k] \in RowType
EntriesTyped(E) == E \subseteq EntryType /\ IsFiniteSet(E) /\ \A e, f \in E : e.id = f.id => e = f

\* Every table holds rows of its kind, and every request is one a handler makes.
InvoicesTyped(I) == I \in [Invoices -> InvoiceType \cup Gone]
BillsTyped(B)    == B \in [Bills -> BillType \cup Gone]
RequestsTyped(q) == q \in [Requests -> RequestType]
TypeInv ==
    /\ RowsTyped(stock) /\ EntriesTyped(entries)
    /\ InvoicesTyped(invoices) /\ BillsTyped(bills)
    /\ RequestsTyped(req)

\* A document has at most one entry.
Single(S)  == \A e, f \in S : e = f
Singles(E) == \A d \in Invoices \cup Bills : Single({e \in E : e.ref = d})

-----------------------------------------------------------------------------
(* Keys and numbers *)

\* The assumption on the constants, to cite by name
LEMMA Assumed ==
    /\ DefaultOutlet \in Outlets /\ Batches \subseteq Nat \ {0} /\ Quantities \subseteq Nat \ {0}
    /\ None \notin Invoices \cup Bills /\ Invoices \cap Bills = {} /\ MaxEntries \in Nat \ {0}
  BY StockAssumption

\* The least of some natural numbers is one of them.
LEMMA MinIs ==
    ASSUME NEW S, S \subseteq Nat, S # {}
    PROVE  Min(S) \in S
  <1>1. PICK n \in S : \A m \in S : n <= m
    <2>1. PICK n \in S : \A m \in S : ~ (<< m, n >> \in OpToRel(<, Nat)) BY NatLessThanWellFounded, WFMin
    <2>2. \A m \in S : ~ (m < n) BY <2>1 DEF OpToRel
    <2> QED BY <2>2
  <1> QED BY <1>1 DEF Min

\* A key is an outlet and a batch, or goods without one.
LEMMA KeyIs ==
    /\ \A o \in Outlets : \A b \in Batches \cup {Unbatched} : << o, b >> \in Keys
    /\ \A k \in Keys : k[1] \in Outlets /\ k[2] \in Batches \cup {Unbatched} /\ k = << k[1], k[2] >>
    /\ Lots \subseteq Batches \cup {Unbatched}
  BY DEF Keys, Lots

\* Signed quantities are integers, and quantities are positive.
LEMMA SignIs == Signs \subseteq Int /\ \A q \in Quantities : q \in Signs /\ -q \in Signs /\ q \in Int /\ q > 0
  <1>1. \A q \in Quantities : q \in Int /\ q > 0 BY Assumed
  <1>2. \A q \in Quantities : q \in Signs /\ -q \in Signs BY DEF Signs
  <1>3. ASSUME NEW q \in Signs PROVE q \in Int BY <1>1 DEF Signs
  <1> QED BY <1>1, <1>2, <1>3

LEMMA EffectIs == ASSUME NEW kind, NEW q \in Int PROVE Effect(kind, q) \in Int
  BY DEF Effect, Abs2

\* The lists of updates the handlers write
LEMMA MovesAre ==
    /\ << >> \in Moves
    /\ \A k \in Keys : \A kind \in AllKinds : \A q \in Int : << Move(k, kind, q) >> \in Moves
    /\ \A k, l \in Keys : \A kind \in AllKinds : \A q, p \in Int :
          << Move(k, kind, q), Move(l, kind, p) >> \in Moves
  BY DEF Moves, Move, MoveType

\* The first of a list of updates, and the rest
LEMMA FirstMove ==
    ASSUME NEW t \in Moves, t # << >>
    PROVE  /\ Tail(t) \in Moves
           /\ Head(t).key \in Keys /\ Head(t).kind \in AllKinds /\ Head(t).qty \in Int
  <1>1. Head(t) \in MoveType /\ Tail(t) \in Moves BY HeadTailProperties DEF Moves
  <1> QED BY <1>1 DEF MoveType

\* A row that was not found is not one that was not read yet.
LEMMA NotReadApart == NoRow # NotRead /\ NotRead \notin RowType
  <1>1. "qty" \notin DOMAIN NotRead /\ "qty" \in DOMAIN NoRow BY DEF NoRow, NotRead
  <1>2. \A x \in RowType : "qty" \in DOMAIN x BY DEF RowType
  <1> QED BY <1>1, <1>2

\* A row that is not there holds nothing.
LEMMA RowIs ==
    ASSUME NEW s, RowsTyped(s), NEW k \in Keys
    PROVE  /\ RowOf(s, k) \in RowType \cup {NoRow}
           /\ RowOf(s, k) # NotRead
           /\ RowOf(s, k).qty \in Int /\ RowOf(s, k).reserved \in Int
           /\ k \notin DOMAIN s => RowOf(s, k) = NoRow
           /\ k \in DOMAIN s => RowOf(s, k) = s[k]
           /\ RowOf(s, k).fresh <=> k \notin DOMAIN s
  <1>1. CASE k \in DOMAIN s
    <2>1. s[k] \in RowType BY <1>1 DEF RowsTyped
    <2> QED BY <1>1, <2>1, NotReadApart DEF RowOf, RowType
  <1>2. CASE k \notin DOMAIN s BY <1>2, NotReadApart DEF RowOf, NoRow
  <1> QED BY <1>1, <1>2

\* An update moves the quantity of a row and what is available of it.
LEMMA UpdatedIs ==
    ASSUME NEW row \in RowType \cup {NoRow}, NEW k \in Keys, NEW kind, NEW q \in Int
    PROVE  /\ Updated(row, Move(k, kind, q)) \in RowType
           /\ Updated(row, Move(k, kind, q)).qty = row.qty + Effect(kind, q)
           /\ Updated(row, Move(k, kind, q)).reserved = row.reserved
           /\ Updated(row, Move(k, kind, q)).available = row.qty + Effect(kind, q) - row.reserved
  <1>1. row.qty \in Int /\ row.reserved \in Int
    <2>1. CASE row = NoRow BY <2>1 DEF NoRow
    <2>2. CASE row \in RowType BY <2>2 DEF RowType
    <2> QED BY <2>1, <2>2
  <1>2. Effect(kind, q) \in Int BY EffectIs
  <1> QED BY <1>1, <1>2 DEF Updated, Move, RowType

\* A save leaves rows.
LEMMA SavedTyped ==
    ASSUME NEW s, RowsTyped(s), NEW k \in Keys, NEW got, NEW row \in RowType
    PROVE  RowsTyped(Saved(s, k, got, row))
  BY FS_AddElement DEF Saved, RowsTyped

\* A handler that goes on leaves the other requests alone.
LEMMA GoIs ==
    ASSUME RequestsTyped(req), NEW r \in Requests, NEW x \in RequestType, req' = [req EXCEPT ![r] = x]
    PROVE  RequestsTyped(req') /\ req'[r] = x
  BY DEF RequestsTyped

LEMMA IdleIs == Idle \in RequestType
  BY DEF RequestType

\* A request that ends is idle.
LEMMA EndIs ==
    ASSUME RequestsTyped(req), NEW r \in Requests, End(r)
    PROVE  RequestsTyped(req') /\ req'[r] = Idle
  BY IdleIs, GoIs DEF End

\* What a handler that has only updates left becomes
LEMMA RestIs == ASSUME NEW t \in Moves PROVE Rest(t) \in RequestType
  <1>1. NotRead \in Got BY DEF Got
  <1> QED BY <1>1, IdleIs DEF Rest, RequestType, FinishType

LEMMA NothingRead == NotRead \in Got /\ << >> \in Moves
  BY MovesAre DEF Got

-----------------------------------------------------------------------------
(* Entries *)

\* A new entry gets an id of its own.
LEMMA NewIs ==
    ASSUME EntriesTyped(entries), FreeIds # {}, NEW kind \in AllKinds, NEW key \in Keys, NEW q \in Int,
           NEW ref \in Refs
    PROVE  LET e == New(Entry(kind, key, q, "approved", ref))
           IN  /\ e \in EntryType /\ e \notin entries
               /\ e.kind = kind /\ e.key = key /\ e.qty = q /\ e.status = "approved" /\ e.ref = ref
               /\ \A f \in entries : f.id # e.id
  BY Assumed, MinIs DEF FreeIds, New, Entry, EntryType, AllKinds, Refs

\* One more entry, with an id of its own
LEMMA OneMoreEntry ==
    ASSUME NEW E, EntriesTyped(E), NEW e \in EntryType, \A f \in E : f.id # e.id
    PROVE  EntriesTyped(E \cup {e})
  <1>1. IsFiniteSet(E \cup {e}) BY FS_AddElement DEF EntriesTyped
  <1> QED BY <1>1 DEF EntriesTyped

\* Some of the entries of a table
LEMMA FewerEntries ==
    ASSUME NEW E, EntriesTyped(E), NEW F, F \subseteq E
    PROVE  EntriesTyped(F)
  BY FS_Subset DEF EntriesTyped

\* An entry that is saved replaces the one of its id.
LEMMA PutTyped ==
    ASSUME EntriesTyped(entries), NEW e \in EntryType
    PROVE  EntriesTyped(Put(e))
  BY FewerEntries, OneMoreEntry DEF Put

\* No entry and one entry, in the order of their ids
LEMMA InOrderIs ==
    /\ InOrder({}) = << >>
    /\ \A e : InOrder({e}) = << e >>
  <1>1. InOrder({}) = << >> BY FS_EmptySet DEF InOrder
  <1>2. ASSUME NEW e PROVE InOrder({e}) = << e >>
    <2>1. Cardinality({e}) = 1 BY FS_Singleton
    <2>2. << e >> \in [1 .. 1 -> {e}] /\ \A i, j \in DOMAIN << e >> : ~ (i < j) OBVIOUS
    <2>3. \A s \in [1 .. 1 -> {e}] : s = << e >> OBVIOUS
    <2> QED BY <2>1, <2>2, <2>3 DEF InOrder
  <1> QED BY <1>1, <1>2

\* What puts back the one entry a document may have
Back(e) == << Move(e.key, "adjustment", -e.qty) >>
LEMMA UndoneIs ==
    ASSUME NEW S, Single(S)
    PROVE  /\ (\A e \in S : ~Approved(e)) => Undone(S) = << >>
           /\ \A e \in S : Approved(e) => Undone(S) = Back(e)
  <1> DEFINE done == InOrder({e \in S : Approved(e)})
  <1>0. Undone(S) = [i \in DOMAIN done |-> Move(done[i].key, "adjustment", -done[i].qty)] BY DEF Undone
  <1> HIDE DEF done
  <1>1. ASSUME \A e \in S : ~Approved(e) PROVE Undone(S) = << >> BY <1>1, InOrderIs, <1>0 DEF done
  <1>2. ASSUME NEW e \in S, Approved(e) PROVE Undone(S) = Back(e)
    <2>1. {f \in S : Approved(f)} = {e} BY <1>2 DEF Single
    <2>2. done = << e >> BY <2>1, InOrderIs DEF done
    <2> QED BY <1>0, <2>2 DEF Back
  <1> QED BY <1>1, <1>2

\* What undoes the entries of a document is a list of updates.
LEMMA UndoneTyped ==
    ASSUME NEW S, Single(S), S \subseteq EntryType
    PROVE  Undone(S) \in Moves
  <1>1. CASE \A e \in S : ~Approved(e) BY <1>1, UndoneIs, MovesAre
  <1>2. CASE \E e \in S : Approved(e) BY <1>2, UndoneIs, MovesAre DEF EntryType, AllKinds, Kinds, Back
  <1> QED BY <1>1, <1>2

-----------------------------------------------------------------------------
(* Updates made inside a transaction *)

Tables == UNION {[D -> RowType] : D \in {X \in SUBSET Keys : IsFiniteSet(X)}}

\* The tables of stock rows as a set, for the fold below
LEMMA TablesAre == \A s : s \in Tables <=> RowsTyped(s)
  BY DEF Tables, RowsTyped

\* One update, the read and the save together
Stepped(t, m) == Saved(t, m.key, RowOf(t, m.key), Updated(RowOf(t, m.key), m))

\* One update inside a transaction leaves a table of rows.
LEMMA SteppedTyped ==
    ASSUME NEW t, RowsTyped(t), NEW m \in MoveType
    PROVE  RowsTyped(Stepped(t, m))
  BY RowIs, UpdatedIs, SavedTyped DEF MoveType, Move, Stepped

\* Updates are made one after the other.
LEMMA AppliedRuns ==
    ASSUME NEW s, RowsTyped(s), NEW moves \in Moves
    PROVE  \E acc \in [0 .. Len(moves) -> Tables] :
               /\ acc[0] = s
               /\ \A k \in 1 .. Len(moves) : acc[k] = Stepped(acc[k - 1], moves[k])
               /\ Applied(s, moves) = acc[Len(moves)]
  <1> DEFINE n     == Len(moves)
             T     == Tables
             h     == [k \in 1 .. n |-> [t \in T |-> Stepped(t, moves[k])]]
             Eq(i) == i = [S \in SUBSET (1 .. n) |->
                             IF S = {} THEN s ELSE Stepped(i[S \ {Max(S)}], moves[Max(S)])]
             iter  == CHOOSE i : Eq(i)
  <1>1. n \in Nat /\ DOMAIN moves = 1 .. n /\ \A k \in 1 .. n : moves[k] \in MoveType
    BY ElementOfSeq, LenProperties DEF Moves
  <1>2. s \in T BY TablesAre
  <1>3. h \in [1 .. n -> [T -> T]] BY <1>1, SteppedTyped, TablesAre
  <1>4. Applied(s, moves) = iter[1 .. n] BY <1>1 DEF Applied, FoldLeft, MapThenFoldSet, Stepped
  <1>5. PICK g \in [SUBSET (1 .. n) -> T] : Folding(g, s, h, n, T)
    <2> HIDE DEF n, T, h
    <2> QED BY <1>1, <1>2, <1>3, FoldExists
  <1>6. ASSUME NEW t \in T, NEW S \in SUBSET (1 .. n), S # {}
        PROVE  h[Max(S)][t] = Stepped(t, moves[Max(S)])
    <2>1. Max(S) \in 1 .. n BY <1>1, <1>6, MaxIsIn
    <2> HIDE DEF T, n
    <2> QED BY <2>1
  <1>7. Eq(iter)
    <2>1. Eq(g)
      <3> HIDE DEF T, n, h
      <3>1. g[{}] = s BY <1>5 DEF Folding
      <3>2. ASSUME NEW S \in SUBSET (1 .. n), S # {}
            PROVE  g[S] = Stepped(g[S \ {Max(S)}], moves[Max(S)])
        <4>1. g[S \ {Max(S)}] \in T BY <1>5
        <4> QED BY <1>5, <1>6, <3>2, <4>1 DEF Folding
      <3> QED BY <1>5, <3>1, <3>2
    <2> QED BY <2>1
  <1>8. Folding(iter, s, h, n, T)
    <2> HIDE DEF iter, T, n, h
    <2>1. iter[{}] = s BY <1>7
    <2>2. ASSUME NEW S \in SUBSET (1 .. n), S # {}, iter[S \ {Max(S)}] \in T
          PROVE  iter[S] = h[Max(S)][iter[S \ {Max(S)}]]
      BY <1>6, <1>7, <2>2
    <2> QED BY <1>1, <1>2, <1>3, <2>1, <2>2 DEF Folding
  <1>9. PICK acc : Run(acc, s, h, n, T) /\ iter[1 .. n] = acc[n]
    <2> HIDE DEF iter, h, T, n
    <2> QED BY <1>8, FoldRuns
  <1>10. \A k \in 1 .. n : acc[k] = Stepped(acc[k - 1], moves[k])
    <2> SUFFICES ASSUME NEW k \in 1 .. n PROVE acc[k] = Stepped(acc[k - 1], moves[k]) OBVIOUS
    <2>1. acc[k - 1] \in T /\ acc[k] = h[k][acc[k - 1]]
      <3> HIDE DEF T, h, n
      <3> QED BY <1>1, <1>9 DEF Run
    <2> HIDE DEF T, n
    <2> QED BY <2>1
  <1> QED BY <1>4, <1>9, <1>10 DEF Run

\* None, one or two updates
LEMMA AppliedIs ==
    ASSUME NEW s, RowsTyped(s)
    PROVE  /\ Applied(s, << >>) = s
           /\ \A m \in MoveType : Applied(s, << m >>) = Stepped(s, m)
           /\ \A m, p \in MoveType : Applied(s, << m, p >>) = Stepped(Stepped(s, m), p)
  <1>1. Applied(s, << >>) = s
    <2>1. << >> \in Moves /\ Len(<< >>) = 0 BY MovesAre
    <2> QED BY <2>1, AppliedRuns
  <1>2. ASSUME NEW m \in MoveType PROVE Applied(s, << m >>) = Stepped(s, m)
    <2>1. << m >> \in Moves /\ Len(<< m >>) = 1 /\ << m >>[1] = m BY DEF Moves
    <2> QED BY <2>1, AppliedRuns
  <1>3. ASSUME NEW m \in MoveType, NEW p \in MoveType PROVE Applied(s, << m, p >>) = Stepped(Stepped(s, m), p)
    <2> DEFINE t == << m, p >>
    <2>1. t \in Moves /\ Len(t) = 2 /\ t[1] = m /\ t[2] = p BY DEF Moves
    <2> HIDE DEF t
    <2>2. PICK acc \in [0 .. Len(t) -> Tables] :
               /\ acc[0] = s
               /\ \A k \in 1 .. Len(t) : acc[k] = Stepped(acc[k - 1], t[k])
               /\ Applied(s, t) = acc[Len(t)]
      BY <2>1, AppliedRuns
    <2>3. acc[1] = Stepped(s, m) /\ acc[2] = Stepped(acc[1], p) BY <2>1, <2>2
    <2>4. Applied(s, t) = Stepped(Stepped(s, m), p) BY <2>1, <2>2, <2>3
    <2> QED BY <2>4 DEF t
  <1> QED BY <1>1, <1>2, <1>3

\* So does a list of them.
LEMMA AppliedTyped ==
    ASSUME NEW s, RowsTyped(s), NEW moves \in Moves
    PROVE  RowsTyped(Applied(s, moves))
  BY LenProperties, AppliedRuns, TablesAre DEF Moves

-----------------------------------------------------------------------------
(* Where goods are taken from *)

\* The batch that expires first is among those it is chosen from.
LEMMA FefoIs ==
    ASSUME RowsTyped(stock), NEW o \in Outlets, NEW q \in Int
    PROVE  Fefo(o, q) \subseteq DOMAIN stock /\ \A k \in Fefo(o, q) : k[1] = o
  <1> DEFINE there  == {b \in Batches \cup {Unbatched} :
                           << o, b >> \in DOMAIN stock /\ stock[<< o, b >>].available > 0}
             enough == {b \in there : stock[<< o, b >>].available >= q}
             First(S) == IF S \ {Unbatched} # {} THEN Min(S \ {Unbatched}) ELSE Unbatched
  <1>1. Fefo(o, q) = IF enough # {} THEN {<< o, First(enough) >>}
                     ELSE IF there # {} THEN {<< o, First(there) >>} ELSE {}
    BY DEF Fefo
  <1>2. ASSUME NEW S, S \subseteq there, S # {} PROVE First(S) \in there
    <2>1. CASE S \ {Unbatched} # {}
      <3>1. S \ {Unbatched} \subseteq Nat BY <1>2, Assumed
      <3>2. Min(S \ {Unbatched}) \in S BY <2>1, <3>1, MinIs
      <3> QED BY <1>2, <2>1, <3>2
    <2>2. CASE S \ {Unbatched} = {} BY <1>2, <2>2
    <2> QED BY <2>1, <2>2
  <1>3. enough \subseteq there OBVIOUS
  <1>4. \A b \in there : << o, b >> \in DOMAIN stock OBVIOUS
  <1> HIDE DEF enough, First, there
  <1>5. ASSUME NEW k \in Fefo(o, q) PROVE k \in DOMAIN stock /\ k[1] = o BY <1>1, <1>2, <1>3, <1>4, <1>5
  <1> QED BY <1>5

\* Goods are taken from rows there are.
LEMMA LargestIs == ASSUME NEW S PROVE Largest(S, Available) \subseteq S /\ Largest(S, ReservedQty) \subseteq S
  BY DEF Largest

LEMMA ReservedFrom ==
    ASSUME RowsTyped(stock), NEW o \in Outlets, NEW b \in Lots, NEW q \in Int
    PROVE  ReservableRows(o, b, q) \subseteq DOMAIN stock /\ ReleasableRows(o, b) \subseteq DOMAIN stock
  BY FefoIs DEF ReservableRows, Largest, ReleasableRows

LEMMA OutletsAre == ASSUME RowsTyped(stock) PROVE SaleOutlets \subseteq Outlets
  <1>1. \A k \in DOMAIN stock : k[1] \in Outlets BY KeyIs DEF RowsTyped
  <1> QED BY <1>1, Assumed DEF SaleOutlets, Largest

\* A sale takes its goods from a row of the batch it names, if it names one.
LEMMA SaleKeysAre ==
    ASSUME RowsTyped(stock), NEW q \in Int, NEW b \in Batches \cup {Unbatched}
    PROVE  \A k \in SaleKeys(q, b) : k \in Keys /\ (b # Unbatched => k[2] = b)
  <1> DEFINE sellable == {k \in DOMAIN stock : k[2] = b /\ stock[k].available > 0}
             Picked(o) == IF Batching /\ b = Unbatched /\ Fefo(o, q) # {} THEN Fefo(o, q) ELSE {<< o, b >>}
  <1>1. SaleKeys(q, b) = IF b # Unbatched /\ sellable # {} THEN Largest(sellable, Available)
                         ELSE UNION {Picked(o) : o \in SaleOutlets}
    BY DEF SaleKeys
  <1>2. DOMAIN stock \subseteq Keys BY DEF RowsTyped
  <1>3. CASE b # Unbatched /\ sellable # {}
    <2>1. SaleKeys(q, b) \subseteq sellable BY <1>1, <1>3, LargestIs
    <2> QED BY <1>2, <2>1
  <1>4. CASE ~ (b # Unbatched /\ sellable # {})
    <2> SUFFICES ASSUME NEW k \in SaleKeys(q, b) PROVE k \in Keys /\ (b # Unbatched => k[2] = b) OBVIOUS
    <2>1. PICK o \in SaleOutlets : k \in Picked(o) BY <1>1, <1>4
    <2>2. o \in Outlets BY OutletsAre
    <2>3. CASE Batching /\ b = Unbatched /\ Fefo(o, q) # {}
      <3>1. k \in Fefo(o, q) BY <2>1, <2>3
      <3> QED BY <1>2, <2>2, <2>3, <3>1, FefoIs
    <2>4. CASE ~ (Batching /\ b = Unbatched /\ Fefo(o, q) # {}) BY <2>1, <2>2, <2>4, KeyIs
    <2> QED BY <2>3, <2>4
  <1> QED BY <1>3, <1>4

-----------------------------------------------------------------------------
(* Every step leaves tables and requests of their kinds: one lemma for each *)
(* action, which also says what it writes *)

\* What TypeInv says of each table and request
LEMMA TypeParts ==
    ASSUME TypeInv
    PROVE  /\ RowsTyped(stock) /\ EntriesTyped(entries) /\ RequestsTyped(req)
           /\ InvoicesTyped(invoices) /\ BillsTyped(bills)
           /\ \A r \in Requests : req[r] \in RequestType
           /\ \A i \in Invoices : invoices[i] \in InvoiceType \cup Gone
           /\ \A b \in Bills : bills[b] \in BillType \cup Gone
           /\ \A e \in entries : e \in EntryType
  BY DEF TypeInv, RequestsTyped, InvoicesTyped, BillsTyped, EntriesTyped

\* A request goes on and the tables stay.
LEMMA TablesStay ==
    ASSUME TypeInv, RequestsTyped(req'), UNCHANGED tables
    PROVE  TypeInv'
  BY DEF TypeInv, tables

\* A step that changes entries and its request only
LEMMA EntriesChange ==
    ASSUME TypeInv, RequestsTyped(req'), EntriesTyped(entries'), UNCHANGED << stock, invoices, bills >>
    PROVE  TypeInv'
  BY DEF TypeInv

LEMMA ReadRowTyped ==
    ASSUME TypeInv, NEW r \in Requests, ReadRow(r)
    PROVE  TypeInv' /\ req'[r] = [req[r] EXCEPT !.got = RowOf(stock, Head(req[r].todo).key)]
  <1> DEFINE x == req[r]
             g == RowOf(stock, Head(x.todo).key)
             y == [x EXCEPT !.got = g]
  <1>1. x \in RequestType /\ x.todo # << >> /\ x # Idle /\ req' = [req EXCEPT ![r] = y]
    BY TypeParts DEF ReadRow, Idle
  <1>2. x.todo \in Moves /\ x.got \in Got BY <1>1, RequestIs
  <1>3. g \in Got BY <1>1, <1>2, FirstMove, RowIs, TypeParts DEF Got
  <1>4. y \in RequestType
    <2> HIDE DEF g, x
    <2>1. x \in FinishType \cup BulkType \cup SeenType \cup SyncType \cup AllType
                \cup ReserveType \cup SellType \cup RewriteType \cup SoldType \cup UndoType
      BY <1>1 DEF RequestType
    <2>2. CASE x \in FinishType \cup BulkType \cup SeenType
      BY <1>3, <2>2 DEF RequestType, FinishType, BulkType, SeenType
    <2>3. CASE x \in SyncType \cup AllType \cup ReserveType
      BY <1>3, <2>3 DEF RequestType, SyncType, AllType, ReserveType
    <2>4. CASE x \in SellType \cup RewriteType BY <1>3, <2>4 DEF RequestType, SellType, RewriteType
    <2>5. CASE x \in SoldType \cup UndoType BY <1>3, <2>5 DEF RequestType, SoldType, UndoType
    <2> QED BY <2>1, <2>2, <2>3, <2>4, <2>5
  <1> HIDE DEF y
  <1>5. RequestsTyped(req') /\ req'[r] = y BY <1>1, <1>4, GoIs, TypeParts
  <1>6. TypeInv' BY <1>5, TablesStay DEF ReadRow
  <1> QED BY <1>5, <1>6 DEF y

\* What is left of a request after an update
Onward(x) == IF Tail(x.todo) = << >> /\ x.op \in {"finish", "sold"} THEN Idle
             ELSE [x EXCEPT !.todo = Tail(x.todo), !.got = NotRead]

\* What becomes of a request when its first update is saved
LEMMA OnwardTyped ==
    ASSUME NEW x \in RequestType, x.todo # << >>
    PROVE  /\ Onward(x) \in RequestType
           /\ Onward(x).todo = Tail(x.todo)
           /\ Onward(x) # Idle => Onward(x).got = NotRead /\ Onward(x) = [x EXCEPT !.todo = Tail(x.todo), !.got = NotRead]
  <1>1. x # Idle BY DEF Idle
  <1>2. Tail(x.todo) \in Moves /\ NotRead \in Got BY <1>1, RequestIs, FirstMove, NothingRead
  <1> DEFINE t == Tail(x.todo)
             y == [x EXCEPT !.todo = t, !.got = NotRead]
  <1>3. y \in RequestType /\ y.todo = t /\ y.got = NotRead /\ (y.op = x.op)
    <2>0. t \in Moves BY <1>2
    <2> HIDE DEF t
    <2>1. x \in FinishType \cup BulkType \cup SeenType \cup SyncType \cup AllType
                \cup ReserveType \cup SellType \cup RewriteType \cup SoldType \cup UndoType
      BY <1>1 DEF RequestType
    <2>2. CASE x \in FinishType \cup BulkType \cup SeenType
      BY <1>2, <2>0, <2>2 DEF RequestType, FinishType, BulkType, SeenType
    <2>3. CASE x \in SyncType \cup AllType \cup ReserveType
      BY <1>2, <2>0, <2>3 DEF RequestType, SyncType, AllType, ReserveType
    <2>4. CASE x \in SellType \cup RewriteType BY <1>2, <2>0, <2>4 DEF RequestType, SellType, RewriteType
    <2>5. CASE x \in SoldType \cup UndoType BY <1>2, <2>0, <2>5 DEF RequestType, SoldType, UndoType
    <2> QED BY <2>1, <2>2, <2>3, <2>4, <2>5
  <1>4. CASE t = << >> /\ x.op \in {"finish", "sold"}
    <2>1. Onward(x) = Idle BY <1>4 DEF Onward
    <2> QED BY <1>4, <2>1, IdleIs DEF Idle
  <1>5. CASE ~ (t = << >> /\ x.op \in {"finish", "sold"})
    <2>1. Onward(x) = y BY <1>5 DEF Onward
    <2> QED BY <1>3, <2>1
  <1> QED BY <1>4, <1>5

LEMMA SaveRowTyped ==
    ASSUME TypeInv, NEW r \in Requests, SaveRow(r)
    PROVE  TypeInv' /\ req'[r] = Onward(req[r])
  <1> DEFINE x == req[r]
             m == Head(x.todo)
             y == Onward(x)
  <1>1. /\ x \in RequestType /\ x.todo # << >> /\ x.got # NotRead /\ x # Idle
        /\ UNCHANGED << entries, invoices, bills >>
    BY TypeParts DEF SaveRow, Idle
  <1>2. stock' = Saved(stock, m.key, x.got, Updated(x.got, m)) /\ req' = [req EXCEPT ![r] = y]
    BY DEF SaveRow, Onward
  <1>3. x.todo \in Moves /\ x.got \in Got BY <1>1, RequestIs
  <1>4. m.key \in Keys /\ m.qty \in Int /\ m.kind \in AllKinds /\ x.got \in RowType \cup {NoRow}
    BY <1>1, <1>3, FirstMove DEF Got
  <1>5. RowsTyped(stock') BY <1>4, UpdatedIs, <1>2, SavedTyped, TypeParts DEF Updated, Move
  <1>6. y \in RequestType BY <1>1, OnwardTyped
  <1> HIDE DEF y, x
  <1>7. RequestsTyped(req') /\ req'[r] = y BY <1>2, <1>6, GoIs, TypeParts
  <1>8. TypeInv' BY <1>1, <1>5, <1>7 DEF TypeInv
  <1> QED BY <1>7, <1>8 DEF y, x

LEMMA CreateStockEntryTyped ==
    ASSUME TypeInv, NEW r \in Requests, NEW kind \in Kinds, NEW o \in Outlets, NEW b \in Lots, NEW q \in Signs,
           CreateStockEntry(r, kind, << o, b >>, q)
    PROVE  TypeInv' /\ req'[r] = Rest(<< Move(<< o, b >>, kind, q) >>)
  <1> DEFINE key == << o, b >>
             e   == New(Entry(kind, key, q, "approved", None))
             t   == << Move(key, kind, q) >>
  <1>1. /\ FreeIds # {} /\ entries' = entries \cup {e} /\ req' = [req EXCEPT ![r] = Rest(t)]
        /\ UNCHANGED << stock, invoices, bills >>
    BY DEF CreateStockEntry
  <1>2. key \in Keys /\ q \in Int /\ kind \in AllKinds /\ None \in Refs BY KeyIs, SignIs DEF AllKinds, Refs
  <1> HIDE DEF key
  <1>3. e \in EntryType /\ \A f \in entries : f.id # e.id BY <1>1, <1>2, NewIs, TypeParts
  <1>4. t \in Moves BY <1>2, MovesAre
  <1> HIDE DEF e, t
  <1>5. EntriesTyped(entries') BY <1>1, <1>3, OneMoreEntry, TypeParts
  <1>6. RequestsTyped(req') /\ req'[r] = Rest(t) BY <1>1, <1>4, RestIs, GoIs, TypeParts
  <1>7. TypeInv' BY <1>1, <1>5, <1>6, EntriesChange
  <1> QED BY <1>6, <1>7 DEF t, key

LEMMA ReadBulkRowTyped ==
    ASSUME TypeInv, NEW r \in Requests, NEW o \in Outlets, NEW b \in Lots, NEW q \in Targets, Targets \subseteq Int,
           ReadBulkRow(r, << o, b >>, q)
    PROVE  TypeInv' /\ req'[r].op = "bulk" /\ req'[r].todo = << >> /\ req'[r].got = NotRead
  <1> DEFINE key == << o, b >>
             x   == [op |-> "bulk", key |-> key, adj |-> q - RowOf(stock, key).qty, todo |-> << >>, got |-> NotRead]
  <1>1. key \in Keys BY KeyIs
  <1>2. req' = [req EXCEPT ![r] = x] /\ UNCHANGED tables BY DEF ReadBulkRow, Go
  <1> HIDE DEF key
  <1>3. RowOf(stock, key).qty \in Int BY <1>1, RowIs, TypeParts
  <1>4. x \in RequestType BY <1>1, <1>3, NothingRead DEF RequestType, BulkType
  <1>5. x.op = "bulk" /\ x.todo = << >> /\ x.got = NotRead OBVIOUS
  <1> HIDE DEF x
  <1>6. RequestsTyped(req') /\ req'[r] = x BY <1>2, <1>4, GoIs, TypeParts
  <1> QED BY <1>2, <1>5, <1>6, TablesStay

LEMMA AdjustBulkRowTyped ==
    ASSUME TypeInv, NEW r \in Requests, AdjustBulkRow(r)
    PROVE  /\ TypeInv' /\ req[r] \in BulkType /\ req[r].todo = << >>
           /\ req[r].adj = 0 => req'[r] = Idle
           /\ req[r].adj # 0 => req'[r] = Rest(<< Move(req[r].key, "adjustment", req[r].adj) >>)
  <1> DEFINE x == req[r]
             e == New(Entry("adjustment", x.key, x.adj, "approved", None))
             t == << Move(x.key, "adjustment", x.adj) >>
  <1>1. x \in BulkType /\ x.todo = << >> BY TypeParts, RequestIs DEF AdjustBulkRow, At
  <1>2. x.key \in Keys /\ x.adj \in Int /\ "adjustment" \in AllKinds /\ None \in Refs
    BY <1>1 DEF BulkType, AllKinds, Kinds, Refs
  <1>3. UNCHANGED << stock, invoices, bills >> BY DEF AdjustBulkRow
  <1>4. CASE x.adj = 0 BY <1>4, EndIs, TypeParts, <1>1, <1>3, TablesStay DEF AdjustBulkRow, tables
  <1>5. CASE x.adj # 0
    <2>1. FreeIds # {} /\ entries' = entries \cup {e} /\ req' = [req EXCEPT ![r] = Rest(t)]
      BY <1>5 DEF AdjustBulkRow
    <2>2. e \in EntryType /\ \A f \in entries : f.id # e.id BY <1>2, <2>1, NewIs, TypeParts
    <2>3. t \in Moves BY <1>2, MovesAre
    <2> HIDE DEF e, t
    <2>4. EntriesTyped(entries') BY <2>1, <2>2, OneMoreEntry, TypeParts
    <2>5. RequestsTyped(req') /\ req'[r] = Rest(t) BY <2>1, <2>3, RestIs, GoIs, TypeParts
    <2>6. TypeInv' BY <1>3, <2>4, <2>5, EntriesChange
    <2> QED BY <1>1, <1>5, <2>5, <2>6 DEF t
  <1> QED BY <1>4, <1>5

LEMMA LoadEntryTyped ==
    ASSUME TypeInv, NEW r \in Requests, NEW op \in {"edit", "approve", "reject"}, NEW e \in entries, LoadEntry(r, op, e)
    PROVE  /\ TypeInv'
           /\ req'[r] = [op |-> op, seen |-> e, todo |-> << >>, got |-> NotRead]
  BY TypeParts, NothingRead, GoIs, TablesStay DEF LoadEntry, Go, RequestType, SeenType

\* What a request that has read an entry knows of it
LEMMA SeenIs ==
    ASSUME TypeInv, NEW r \in Requests, req[r].op \in {"edit", "approve", "reject"}
    PROVE  /\ req[r].seen \in EntryType
           /\ req[r].seen.key \in Keys /\ req[r].seen.qty \in Int /\ req[r].seen.kind \in AllKinds
           /\ req[r].seen.ref \in Refs
  BY TypeParts, RequestIs DEF SeenType, EntryType, AllKinds, Refs

Rekeyed(old, q, b) == [old EXCEPT !.qty = q, !.key = << old.key[1], IF b = Unbatched THEN old.key[2] ELSE b >>]

\* An entry with another quantity, and maybe another batch
LEMMA RekeyedIs ==
    ASSUME NEW old \in EntryType, NEW q \in Signs, NEW b \in Lots
    PROVE  LET new == Rekeyed(old, q, b)
           IN  /\ new \in EntryType /\ new.id = old.id /\ new.kind = old.kind /\ new.status = old.status
               /\ new.ref = old.ref /\ new.qty = q /\ new.key \in Keys /\ new.key[1] = old.key[1]
  BY KeyIs, SignIs DEF EntryType, Rekeyed

LEMMA EditMovesTyped ==
    ASSUME NEW old \in EntryType, NEW new \in EntryType
    PROVE  EditMoves(old, new) \in Moves
  BY MovesAre DEF EntryType, AllKinds, Kinds, EditMoves

LEMMA UpdateStockEntryTyped ==
    ASSUME TypeInv, NEW r \in Requests, NEW q \in Signs, NEW b \in Lots, UpdateStockEntry(r, q, b)
    PROVE  /\ TypeInv' /\ req[r].op = "edit" /\ req[r].todo = << >>
           /\ entries' = Put(Rekeyed(req[r].seen, q, b))
           /\ req'[r] = Rest(EditMoves(req[r].seen, Rekeyed(req[r].seen, q, b)))
           /\ UNCHANGED << stock, invoices, bills >>
  <1> DEFINE old == req[r].seen
             new == Rekeyed(old, q, b)
  <1>1. /\ req[r].op = "edit" /\ req[r].todo = << >>
        /\ entries' = Put(new) /\ req' = [req EXCEPT ![r] = Rest(EditMoves(old, new))]
        /\ UNCHANGED << stock, invoices, bills >>
    BY DEF UpdateStockEntry, At, Rekeyed
  <1>2. old \in EntryType BY <1>1, SeenIs
  <1> HIDE DEF old
  <1>3. new \in EntryType BY <1>2, RekeyedIs
  <1> HIDE DEF new
  <1>4. EntriesTyped(entries') BY <1>1, <1>3, PutTyped, TypeParts
  <1>5. RequestsTyped(req') /\ req'[r] = Rest(EditMoves(old, new))
    BY <1>1, <1>2, <1>3, EditMovesTyped, RestIs, GoIs, TypeParts
  <1>6. TypeInv' BY <1>1, <1>4, <1>5, EntriesChange
  <1> QED BY <1>1, <1>5, <1>6 DEF old, new

Marked(e, st) == [e EXCEPT !.status = st]

\* An entry with another status
LEMMA MarkedIs ==
    ASSUME NEW e \in EntryType, NEW st \in {"approved", "rejected"}
    PROVE  LET new == Marked(e, st)
           IN  /\ new \in EntryType /\ new.id = e.id /\ new.kind = e.kind /\ new.key = e.key
               /\ new.qty = e.qty /\ new.ref = e.ref /\ new.status = st
  BY DEF Marked, EntryType

LEMMA ApproveStockEntryTyped ==
    ASSUME TypeInv, NEW r \in Requests, ApproveStockEntry(r)
    PROVE  LET e == req[r].seen
           IN  /\ TypeInv' /\ req[r].op = "approve" /\ req[r].todo = << >>
               /\ entries' = Put(Marked(e, "approved"))
               /\ req'[r] = [op |-> "sync", ref |-> e.ref, todo |-> << Move(e.key, e.kind, e.qty) >>, got |-> NotRead]
               /\ UNCHANGED << stock, invoices, bills >>
  <1> DEFINE e == req[r].seen
             m == << Move(e.key, e.kind, e.qty) >>
             x == [op |-> "sync", ref |-> e.ref, todo |-> m, got |-> NotRead]
  <1>1. /\ req[r].op = "approve" /\ req[r].todo = << >>
        /\ entries' = Put(Marked(e, "approved")) /\ req' = [req EXCEPT ![r] = x]
        /\ UNCHANGED << stock, invoices, bills >>
    BY DEF ApproveStockEntry, At, Go, Marked
  <1>2. e \in EntryType /\ m \in Moves /\ e.ref \in Refs BY <1>1, SeenIs, MovesAre
  <1> HIDE DEF e, m
  <1>3. EntriesTyped(entries') BY <1>1, <1>2, MarkedIs, PutTyped, TypeParts
  <1>4. x \in RequestType BY <1>2, NothingRead DEF RequestType, SyncType
  <1> HIDE DEF x
  <1>5. RequestsTyped(req') /\ req'[r] = x BY <1>1, <1>4, GoIs, TypeParts
  <1>6. TypeInv' BY <1>1, <1>3, <1>5, EntriesChange
  <1> QED BY <1>1, <1>5, <1>6 DEF x, m, e

LEMMA RejectStockEntryTyped ==
    ASSUME TypeInv, NEW r \in Requests, RejectStockEntry(r)
    PROVE  LET e == req[r].seen
           IN  /\ TypeInv' /\ req[r].op = "reject" /\ req[r].todo = << >>
               /\ entries' = Put(Marked(e, "rejected"))
               /\ req'[r] = [op |-> "sync", ref |-> e.ref, todo |-> << >>, got |-> NotRead]
               /\ UNCHANGED << stock, invoices, bills >>
  <1> DEFINE e == req[r].seen
             x == [op |-> "sync", ref |-> e.ref, todo |-> << >>, got |-> NotRead]
  <1>1. /\ req[r].op = "reject" /\ req[r].todo = << >>
        /\ entries' = Put(Marked(e, "rejected")) /\ req' = [req EXCEPT ![r] = x]
        /\ UNCHANGED << stock, invoices, bills >>
    BY DEF RejectStockEntry, At, Go, Marked
  <1>2. e \in EntryType /\ e.ref \in Refs BY <1>1, SeenIs
  <1> HIDE DEF e
  <1>3. EntriesTyped(entries') BY <1>1, <1>2, MarkedIs, PutTyped, TypeParts
  <1>4. x \in RequestType BY <1>2, NothingRead DEF RequestType, SyncType
  <1> HIDE DEF x
  <1>5. RequestsTyped(req') /\ req'[r] = x BY <1>1, <1>4, GoIs, TypeParts
  <1>6. TypeInv' BY <1>1, <1>3, <1>5, EntriesChange
  <1> QED BY <1>1, <1>5, <1>6 DEF x, e

LEMMA LoadPendingTyped ==
    ASSUME TypeInv, NEW r \in Requests, LoadPending(r)
    PROVE  /\ TypeInv'
           /\ req'[r] = [op |-> "approve_all", list |-> {e \in entries : e.status = "pending"}, refs |-> {},
                         todo |-> << >>, got |-> NotRead]
  BY TypeParts, NothingRead, GoIs, TablesStay DEF LoadPending, Go, RequestType, AllType

\* The entry to approve next
Earliest(S) == CHOOSE x \in S : \A y \in S : x.id <= y.id

\* A list of entries that is not empty has an earliest.
LEMMA NextIs ==
    ASSUME NEW S, S \subseteq EntryType, S # {}
    PROVE  Earliest(S) \in S
  <1> DEFINE ids == {e.id : e \in S}
  <1>1. ids \subseteq Nat /\ ids # {} BY Assumed DEF EntryType
  <1>2. PICK n \in ids : \A m \in ids : ~ (<< m, n >> \in OpToRel(<, Nat))
    BY <1>1, NatLessThanWellFounded, WFMin
  <1>3. \A m \in ids : ~ (m < n) BY <1>1, <1>2 DEF OpToRel
  <1>4. PICK e \in S : e.id = n OBVIOUS
  <1>5. \A y \in S : e.id <= y.id BY <1>1, <1>3, <1>4
  <1> QED BY <1>5 DEF Earliest

LEMMA ApproveNextTyped ==
    ASSUME TypeInv, NEW r \in Requests, ApproveNext(r)
    PROVE  LET x == req[r]
               e == Earliest(x.list)
           IN  /\ TypeInv' /\ x \in AllType /\ x.todo = << >> /\ e \in x.list /\ e \in EntryType
               /\ entries' = Put(Marked(e, "approved"))
               /\ req'[r] = [op |-> "approve_all", list |-> x.list \ {e}, refs |-> x.refs \cup {e.ref},
                             todo |-> << Move(e.key, e.kind, e.qty) >>, got |-> NotRead]
               /\ UNCHANGED << stock, invoices, bills >>
  <1> DEFINE x == req[r]
             e == Earliest(x.list)
             m == << Move(e.key, e.kind, e.qty) >>
             y == [op |-> "approve_all", list |-> x.list \ {e}, refs |-> x.refs \cup {e.ref}, todo |-> m, got |-> NotRead]
  <1>1. /\ x.op = "approve_all" /\ x.todo = << >> /\ x.list # {}
        /\ entries' = Put(Marked(e, "approved")) /\ req' = [req EXCEPT ![r] = y]
        /\ UNCHANGED << stock, invoices, bills >>
    BY DEF ApproveNext, At, Go, Marked, Earliest
  <1>2. x \in AllType BY <1>1, TypeParts, RequestIs
  <1>3. x.list \subseteq EntryType /\ x.refs \subseteq Refs BY <1>2 DEF AllType
  <1>4. e \in x.list /\ e \in EntryType BY <1>1, <1>3, NextIs
  <1> HIDE DEF x, e
  <1>5. e.key \in Keys /\ e.qty \in Int /\ e.kind \in AllKinds /\ e.ref \in Refs
    BY <1>4 DEF EntryType, AllKinds, Refs
  <1>6. m \in Moves BY <1>5, MovesAre
  <1> HIDE DEF m
  <1>7. EntriesTyped(entries') BY <1>1, <1>4, MarkedIs, PutTyped, TypeParts
  <1>8. y \in RequestType BY <1>3, <1>5, <1>6, NothingRead DEF RequestType, AllType
  <1> HIDE DEF y
  <1>9. RequestsTyped(req') /\ req'[r] = y BY <1>1, <1>8, GoIs, TypeParts
  <1>10. TypeInv' BY <1>1, <1>7, <1>9, EntriesChange
  <1> QED BY <1>1, <1>2, <1>4, <1>9, <1>10 DEF y, m, x, e

\* The stock status of a bill is one of five.
LEMMA StatusIs ==
    ASSUME NEW S, S \subseteq EntryType
    PROVE  StatusOf(S) \in {"none", "pending", "partial", "approved", "rejected"}
  BY DEF EntryType, StatusOf

\* Setting the stock status of a bill touches nothing else.
LEMMA SyncedIs ==
    ASSUME NEW B, BillsTyped(B), NEW b, NEW S, S \subseteq EntryType
    PROVE  /\ BillsTyped(Synced(B, b, S))
           /\ \A c \in Bills : c # b => Synced(B, b, S)[c] = B[c]
           /\ \A c \in Bills : Synced(B, b, S)[c].doc = B[c].doc
           /\ b \in Bills /\ B[b].doc = "live" => Synced(B, b, S)[b].stock = StatusOf(S)
  BY StatusIs DEF BillsTyped, Gone, Unused, Synced, BillType

LEMMA EntriesOfTyped == ASSUME TypeInv, NEW d PROVE EntriesOf(d) \subseteq EntryType /\ EntriesOf(d) \subseteq entries
  BY TypeParts DEF EntriesOf

LEMMA SyncTyped ==
    ASSUME TypeInv, NEW r \in Requests, Sync(r)
    PROVE  /\ TypeInv' /\ req[r].op = "sync" /\ req[r].todo = << >> /\ req'[r] = Idle
           /\ bills' = Synced(bills, req[r].ref, EntriesOf(req[r].ref))
           /\ UNCHANGED << stock, entries, invoices >>
  BY EntriesOfTyped, SyncedIs, TypeParts, EndIs DEF Sync, At, TypeInv

LEMMA SyncAllTyped ==
    ASSUME TypeInv, NEW r \in Requests, SyncAll(r)
    PROVE  /\ TypeInv' /\ req[r].op = "approve_all" /\ req[r].todo = << >> /\ req[r].list = {} /\ req'[r] = Idle
           /\ bills' = [b \in Bills |-> IF b \in req[r].refs THEN Synced(bills, b, EntriesOf(b))[b] ELSE bills[b]]
           /\ UNCHANGED << stock, entries, invoices >>
  BY EntriesOfTyped, SyncedIs, TypeParts, EndIs DEF SyncAll, At, BillsTyped, TypeInv

LEMMA LoadReservationTyped ==
    ASSUME TypeInv, NEW r \in Requests, NEW op \in {"reserve", "release"}, NEW o \in Outlets, NEW b \in Lots,
           NEW q \in Quantities, LoadReservation(r, op, o, b, q)
    PROVE  /\ TypeInv'
           /\ req'[r].op = op /\ req'[r].todo = << >> /\ req'[r].got = NotRead
           /\ req'[r].key \in DOMAIN stock /\ req'[r].seen = stock[req'[r].key]
  <1>1. PICK key \in IF op = "reserve" THEN ReservableRows(o, b, q) ELSE ReleasableRows(o, b) :
            /\ Go(r, [op |-> op, key |-> key, qty |-> q, seen |-> stock[key], todo |-> << >>, got |-> NotRead])
            /\ UNCHANGED tables
    BY Zenon DEF LoadReservation
  <1> DEFINE x == [op |-> op, key |-> key, qty |-> q, seen |-> stock[key], todo |-> << >>, got |-> NotRead]
  <1>2. q \in Int BY SignIs
  <1>3. key \in DOMAIN stock BY <1>1, <1>2, ReservedFrom, TypeParts
  <1>4. key \in Keys /\ stock[key] \in RowType BY <1>3, TypeParts DEF RowsTyped
  <1>5. x \in RequestType BY <1>4, NothingRead DEF RequestType, ReserveType
  <1>6. req' = [req EXCEPT ![r] = x] BY <1>1 DEF Go
  <1>7. x.op = op /\ x.todo = << >> /\ x.got = NotRead /\ x.key = key /\ x.seen = stock[key] OBVIOUS
  <1> HIDE DEF x
  <1>8. RequestsTyped(req') /\ req'[r] = x BY <1>5, <1>6, GoIs, TypeParts
  <1>9. TypeInv' BY <1>1, <1>8, TablesStay
  <1> QED BY <1>3, <1>7, <1>8, <1>9

\* What a request that reserves or releases knows
LEMMA ReservingIs ==
    ASSUME TypeInv, NEW r \in Requests, req[r].op \in {"reserve", "release"}
    PROVE  /\ req[r].key \in Keys /\ req[r].key[1] \in Outlets /\ req[r].qty \in Int /\ req[r].seen \in RowType
           /\ << req[r].key[1], Unbatched >> \in Keys
  BY TypeParts, RequestIs, SignIs, KeyIs DEF ReserveType

\* A reservation moves what is reserved and what is available, and leaves the quantity.
LEMMA ReservedRow ==
    ASSUME NEW row \in RowType, NEW n \in Int
    PROVE  /\ Reserved(row, n) \in RowType
           /\ Reserved(row, n).qty = row.qty /\ Reserved(row, n).reserved = row.reserved + n
           /\ Reserved(row, n).available = row.qty - (row.reserved + n)
  BY DEF Reserved, RowType

\* A row that is saved whole
LEMMA RowChanged ==
    ASSUME NEW s, RowsTyped(s), NEW k, NEW row \in RowType
    PROVE  RowsTyped([s EXCEPT ![k] = row])
  BY DEF RowsTyped

LEMMA ReserveStockTyped ==
    ASSUME TypeInv, NEW r \in Requests, ReserveStock(r)
    PROVE  /\ TypeInv' /\ req[r].op = "reserve" /\ req[r].todo = << >> /\ req'[r] = Idle
           /\ stock' = [stock EXCEPT ![req[r].key] = Reserved(req[r].seen, req[r].qty)]
           /\ FreeIds # {}
           /\ entries' = entries \cup
                {New(Entry("reservation", << req[r].key[1], Unbatched >>, -req[r].qty, "approved", None))}
           /\ UNCHANGED << invoices, bills >>
  <1> DEFINE x == req[r]
             k == << x.key[1], Unbatched >>
             e == New(Entry("reservation", k, -x.qty, "approved", None))
  <1>1. /\ x.op = "reserve" /\ x.todo = << >> /\ FreeIds # {} /\ End(r)
        /\ stock' = [stock EXCEPT ![x.key] = Reserved(x.seen, x.qty)] /\ entries' = entries \cup {e}
        /\ UNCHANGED << invoices, bills >>
    BY DEF ReserveStock, At
  <1>2. x.key \in Keys /\ x.qty \in Int /\ x.seen \in RowType /\ k \in Keys BY <1>1, ReservingIs
  <1>3. "reservation" \in AllKinds /\ None \in Refs /\ -x.qty \in Int BY <1>2 DEF AllKinds, Refs
  <1> HIDE DEF x, k
  <1>4. RowsTyped(stock') BY <1>1, <1>2, ReservedRow, RowChanged, TypeParts
  <1>5. e \in EntryType /\ \A f \in entries : f.id # e.id BY <1>1, <1>2, <1>3, NewIs, TypeParts
  <1> HIDE DEF e
  <1>6. EntriesTyped(entries') BY <1>1, <1>5, OneMoreEntry, TypeParts
  <1>7. RequestsTyped(req') /\ req'[r] = Idle BY <1>1, EndIs, TypeParts
  <1>8. TypeInv' BY <1>1, <1>4, <1>6, <1>7 DEF TypeInv
  <1> QED BY <1>1, <1>7, <1>8 DEF x, k, e

LEMMA ReleaseStockTyped ==
    ASSUME TypeInv, NEW r \in Requests, ReleaseStock(r)
    PROVE  /\ TypeInv' /\ req[r].op = "release" /\ req[r].todo = << >> /\ req'[r] = Idle
           /\ stock' = [stock EXCEPT ![req[r].key] = Reserved(req[r].seen, -req[r].qty)]
           /\ FreeIds # {}
           /\ entries' = entries \cup {New(Entry("release", req[r].key, req[r].qty, "approved", None))}
           /\ UNCHANGED << invoices, bills >>
  <1> DEFINE x == req[r]
             e == New(Entry("release", x.key, x.qty, "approved", None))
  <1>1. /\ x.op = "release" /\ x.todo = << >> /\ FreeIds # {} /\ End(r)
        /\ stock' = [stock EXCEPT ![x.key] = Reserved(x.seen, -x.qty)] /\ entries' = entries \cup {e}
        /\ UNCHANGED << invoices, bills >>
    BY DEF ReleaseStock, At
  <1>2. x.key \in Keys /\ x.qty \in Int /\ x.seen \in RowType BY <1>1, ReservingIs
  <1>3. "release" \in AllKinds /\ None \in Refs /\ -x.qty \in Int BY <1>2 DEF AllKinds, Refs
  <1> HIDE DEF x
  <1>4. RowsTyped(stock') BY <1>1, <1>2, <1>3, ReservedRow, RowChanged, TypeParts
  <1>5. e \in EntryType /\ \A f \in entries : f.id # e.id BY <1>1, <1>2, <1>3, NewIs, TypeParts
  <1> HIDE DEF e
  <1>6. EntriesTyped(entries') BY <1>1, <1>5, OneMoreEntry, TypeParts
  <1>7. RequestsTyped(req') /\ req'[r] = Idle BY <1>1, EndIs, TypeParts
  <1>8. TypeInv' BY <1>1, <1>4, <1>6, <1>7 DEF TypeInv
  <1> QED BY <1>1, <1>7, <1>8 DEF x, e

-----------------------------------------------------------------------------

\* What a request about an invoice knows
LEMMA DocIs ==
    ASSUME TypeInv, NEW r \in Requests, req[r].op \in {"sell", "rewrite", "save", "unsell", "erase"}
    PROVE  /\ req[r].doc \in Invoices /\ invoices[req[r].doc] \in InvoiceType \cup Gone
           /\ invoices[req[r].doc].doc = "live" => invoices[req[r].doc] \in InvoiceType
           /\ req[r].op \in {"sell", "rewrite", "save"} => req[r].check \in Answers
           /\ req[r].op \in {"rewrite", "save"} => req[r].new \in InvoiceType
  BY TypeParts, RequestIs DEF SellType, RewriteType, UndoType, Gone, Unused

LEMMA CheckTyped == \A i, q, b : Check(i, q, b) \in Answers
  BY DEF Check, Answers

\* The one who sells
LEMMA SellTyped ==
    ASSUME TypeInv, NEW r \in Requests, Sell(r)
    PROVE  LET i == req[r].doc  line == invoices[i]
           IN  /\ TypeInv' /\ req[r].op = "sell" /\ req[r].todo = << >> /\ UNCHANGED << stock, bills >>
               /\ ~Counts(line) => req'[r] = Idle /\ UNCHANGED << entries, invoices >>
               /\ Counts(line) =>
                    /\ FreeIds # {} /\ line \in InvoiceType
                    /\ \E key \in SaleKeys(line.qty, line.batch) :
                         /\ key \in Keys /\ (line.batch # Unbatched => key[2] = line.batch)
                         /\ entries' = entries \cup {New(Entry("sale", key, -line.qty, "approved", i))}
                         /\ invoices' = [invoices EXCEPT ![i].batch = key[2]]
                         /\ req'[r] = [op |-> "sold", todo |-> << Move(key, "sale", line.qty) >>,
                                       check |-> req[r].check, batch |-> line.batch, got |-> NotRead]
  <1> DEFINE x == req[r]
             i == x.doc
             line == invoices[i]
  <1>1. x.op = "sell" /\ x.todo = << >> /\ UNCHANGED << stock, bills >> BY DEF Sell, At
  <1>2. i \in Invoices /\ x.check \in Answers /\ (line.doc = "live" => line \in InvoiceType) BY <1>1, DocIs
  <1>3. CASE ~Counts(line) BY <1>3, EndIs, TypeParts, <1>1, TablesStay DEF Sell, tables
  <1>4. CASE Counts(line)
    <2>1. PICK key \in SaleKeys(line.qty, line.batch) :
            /\ FreeIds # {}
            /\ entries' = entries \cup {New(Entry("sale", key, -line.qty, "approved", i))}
            /\ invoices' = [invoices EXCEPT ![i].batch = key[2]]
            /\ req' = [req EXCEPT ![r] = [op |-> "sold", todo |-> << Move(key, "sale", line.qty) >>,
                                          check |-> x.check, batch |-> line.batch, got |-> NotRead]]
      BY <1>4, Zenon DEF Sell, Go
    <2> DEFINE e == New(Entry("sale", key, -line.qty, "approved", i))
               m == << Move(key, "sale", line.qty) >>
               y == [op |-> "sold", todo |-> m, check |-> x.check, batch |-> line.batch, got |-> NotRead]
    <2>2. line \in InvoiceType BY <1>2, <1>4 DEF Counts
    <2>3. line.qty \in Int /\ -line.qty \in Int /\ line.batch \in Batches \cup {Unbatched}
      BY <2>2, SignIs DEF InvoiceType
    <2>4. key \in Keys /\ (line.batch # Unbatched => key[2] = line.batch) BY <2>1, <2>3, SaleKeysAre, TypeParts
    <2>5. "sale" \in AllKinds /\ i \in Refs /\ key[2] \in Batches \cup {Unbatched}
      BY <1>2, <2>4, KeyIs DEF AllKinds, Kinds, Refs
    <2>6. [line EXCEPT !.batch = key[2]] \in InvoiceType BY <2>2, <2>5 DEF InvoiceType
    <2>7. InvoicesTyped(invoices') BY <2>1, <2>6, TypeParts DEF InvoicesTyped
    <2> HIDE DEF x, i, line
    <2>8. e \in EntryType /\ \A f \in entries : f.id # e.id BY <2>1, <2>3, <2>4, <2>5, NewIs, TypeParts
    <2>9. m \in Moves BY <2>3, <2>4, <2>5, MovesAre
    <2>10. y \in RequestType BY <1>2, <2>3, <2>9, NothingRead DEF RequestType, SoldType
    <2>11. entries' = entries \cup {e} /\ req' = [req EXCEPT ![r] = y] BY <2>1
    <2> HIDE DEF e, m, y
    <2>12. EntriesTyped(entries') BY <2>8, <2>11, OneMoreEntry, TypeParts
    <2>13. RequestsTyped(req') /\ req'[r] = y BY <2>10, <2>11, GoIs, TypeParts
    <2>14. TypeInv' BY <1>1, <2>7, <2>12, <2>13 DEF TypeInv
    <2>15. req'[r] = [op |-> "sold", todo |-> << Move(key, "sale", line.qty) >>,
                      check |-> x.check, batch |-> line.batch, got |-> NotRead]
      BY <2>13 DEF y, m
    <2>16. /\ key \in SaleKeys(line.qty, line.batch)
           /\ key \in Keys /\ (line.batch # Unbatched => key[2] = line.batch)
           /\ entries' = entries \cup {New(Entry("sale", key, -line.qty, "approved", i))}
           /\ invoices' = [invoices EXCEPT ![i].batch = key[2]]
      BY <2>1, <2>4
    <2> QED BY <1>1, <1>4, <2>1, <2>2, <2>14, <2>15, <2>16 DEF x, i, line
  <1> QED BY <1>3, <1>4

LEMMA InvoiceIs ==
    ASSUME NEW st \in Statuses, NEW q \in Quantities, NEW b \in Lots
    PROVE  Invoice(st, q, b) \in InvoiceType
  BY KeyIs DEF Invoice, InvoiceType

LEMMA CreateInvoiceTyped ==
    ASSUME TypeInv, NEW r \in Requests, NEW i \in Invoices, NEW st \in Statuses, NEW q \in Quantities, NEW b \in Lots,
           CreateInvoice(r, i, st, q, b)
    PROVE  /\ TypeInv' /\ req[r] = Idle /\ invoices[i].doc = "unused"
           /\ invoices' = [invoices EXCEPT ![i] = Invoice(st, q, b)]
           /\ req'[r] = [op |-> "sell", doc |-> i, check |-> Check(i, q, b), todo |-> << >>, got |-> NotRead]
           /\ UNCHANGED << stock, entries, bills >>
  <1> DEFINE c == Check(i, q, b)
             x == [op |-> "sell", doc |-> i, check |-> c, todo |-> << >>, got |-> NotRead]
  <1>1. /\ req[r] = Idle /\ invoices[i].doc = "unused" /\ invoices' = [invoices EXCEPT ![i] = Invoice(st, q, b)]
        /\ req' = [req EXCEPT ![r] = x] /\ UNCHANGED << stock, entries, bills >>
    BY DEF CreateInvoice, Start, Go
  <1>2. c \in Answers BY CheckTyped
  <1> HIDE DEF c
  <1>3. x \in RequestType BY <1>2, NothingRead DEF RequestType, SellType
  <1> HIDE DEF x
  <1>4. RequestsTyped(req') /\ req'[r] = x BY <1>1, <1>3, GoIs, TypeParts
  <1>5. InvoicesTyped(invoices') BY InvoiceIs, <1>1, TypeParts DEF InvoicesTyped
  <1>6. TypeInv' BY <1>1, <1>4, <1>5 DEF TypeInv
  <1> QED BY <1>1, <1>4, <1>6 DEF x, c

\* A document of one entry is undone by a list of updates.
LEMMA UndoneOf ==
    ASSUME TypeInv, Singles(entries), NEW d \in Invoices \cup Bills
    PROVE  Undone(EntriesOf(d)) \in Moves /\ Single(EntriesOf(d))
  <1>1. Single(EntriesOf(d)) BY DEF Singles, EntriesOf
  <1> QED BY <1>1, EntriesOfTyped, UndoneTyped

LEMMA LoadInvoiceTyped ==
    ASSUME TypeInv, Singles(entries), NEW r \in Requests, NEW i \in Invoices, NEW st \in Statuses, NEW q \in Quantities,
           NEW b \in Lots, LoadInvoice(r, i, st, q, b)
    PROVE  /\ TypeInv' /\ req[r] = Idle /\ invoices[i].doc = "live" /\ UNCHANGED tables
           /\ req'[r] = [op |-> "rewrite", doc |-> i, new |-> Invoice(st, q, b), check |-> Check(i, q, b),
                         todo |-> Undone(EntriesOf(i)), got |-> NotRead]
  <1> DEFINE c == Check(i, q, b)
             t == Undone(EntriesOf(i))
             n == Invoice(st, q, b)
             x == [op |-> "rewrite", doc |-> i, new |-> n, check |-> c, todo |-> t, got |-> NotRead]
  <1>1. /\ req[r] = Idle /\ invoices[i].doc = "live" /\ req' = [req EXCEPT ![r] = x] /\ UNCHANGED tables
    BY DEF LoadInvoice, Start, Go
  <1>2. c \in Answers /\ t \in Moves /\ n \in InvoiceType BY CheckTyped, UndoneOf, InvoiceIs
  <1> HIDE DEF c, t, n
  <1>3. x \in RequestType BY <1>2, NothingRead DEF RequestType, RewriteType
  <1> HIDE DEF x
  <1>4. RequestsTyped(req') /\ req'[r] = x BY <1>1, <1>3, GoIs, TypeParts
  <1>5. TypeInv' BY <1>1, <1>4, TablesStay
  <1> QED BY <1>1, <1>4, <1>5 DEF x, c, t, n

LEMMA DropEntriesTyped ==
    ASSUME TypeInv, NEW r \in Requests, DropEntries(r)
    PROVE  /\ TypeInv' /\ req[r].op \in {"rewrite", "unsell"} /\ req[r].todo = << >>
           /\ entries' = entries \ EntriesOf(req[r].doc)
           /\ req[r].op = "unsell" => req'[r] = Idle
           /\ req[r].op = "rewrite" => req'[r] = [req[r] EXCEPT !.op = "save"]
           /\ UNCHANGED << stock, invoices, bills >>
  <1> DEFINE x == req[r]
             y == [x EXCEPT !.op = "save"]
  <1>1. /\ x.op \in {"rewrite", "unsell"} /\ x.todo = << >> /\ entries' = entries \ EntriesOf(x.doc)
        /\ AfterDrop(r) /\ UNCHANGED << stock, invoices, bills >>
    BY DEF DropEntries, At
  <1>2. EntriesTyped(entries') BY <1>1, FewerEntries, TypeParts
  <1>3. CASE x.op = "unsell" BY <1>1, <1>3, EndIs, TypeParts, <1>2, EntriesChange DEF AfterDrop
  <1>4. CASE x.op = "rewrite"
    <2>1. req' = [req EXCEPT ![r] = y] BY <1>1, <1>4 DEF AfterDrop
    <2>2. x \in RewriteType BY <1>4, RequestIs, TypeParts
    <2>3. y \in RequestType BY <2>2 DEF RewriteType, RequestType
    <2> HIDE DEF y
    <2>4. RequestsTyped(req') /\ req'[r] = y BY <2>1, <2>3, GoIs, TypeParts
    <2>5. TypeInv' BY <1>1, <1>2, <2>4, EntriesChange
    <2> QED BY <1>1, <1>4, <2>4, <2>5 DEF y
  <1> QED BY <1>1, <1>3, <1>4

LEMMA SaveInvoiceTyped ==
    ASSUME TypeInv, NEW r \in Requests, SaveInvoice(r)
    PROVE  /\ TypeInv' /\ req[r].op = "save" /\ req[r].todo = << >> /\ req[r].new \in InvoiceType
           /\ invoices' = [invoices EXCEPT ![req[r].doc] = req[r].new]
           /\ req'[r] = [req[r] EXCEPT !.op = "sell"]
           /\ UNCHANGED << stock, entries, bills >>
  <1> DEFINE x == req[r]
             y == [x EXCEPT !.op = "sell"]
  <1>1. /\ x.op = "save" /\ x.todo = << >> /\ invoices' = [invoices EXCEPT ![x.doc] = x.new]
        /\ req' = [req EXCEPT ![r] = y] /\ UNCHANGED << stock, entries, bills >>
    BY DEF SaveInvoice, At
  <1>2. x \in RewriteType BY <1>1, RequestIs, TypeParts
  <1>3. y \in RequestType /\ x.new \in InvoiceType /\ x.doc \in Invoices BY <1>2 DEF RewriteType, RequestType
  <1> HIDE DEF y, x
  <1>4. RequestsTyped(req') /\ req'[r] = y BY <1>1, <1>3, GoIs, TypeParts
  <1>5. InvoicesTyped(invoices') BY <1>1, <1>3, TypeParts DEF InvoicesTyped
  <1>6. TypeInv' BY <1>1, <1>4, <1>5 DEF TypeInv
  <1> QED BY <1>1, <1>3, <1>4, <1>6 DEF y, x

LEMMA PatchStatusTyped ==
    ASSUME TypeInv, Singles(entries), NEW r \in Requests, NEW i \in Invoices, NEW st \in Statuses, PatchStatus(r, i, st)
    PROVE  LET old == invoices[i].st
           IN  /\ TypeInv' /\ req[r] = Idle /\ invoices[i].doc = "live" /\ invoices[i] \in InvoiceType /\ st # old
               /\ ((old = "draft" \/ st = "draft") => DraftPatches)
               /\ invoices' = [invoices EXCEPT ![i].st = st]
               /\ st = "cancelled" =>
                    req'[r] = [op |-> "unsell", doc |-> i, todo |-> Undone(EntriesOf(i)), got |-> NotRead]
               /\ st # "cancelled" /\ old = "cancelled" =>
                    req'[r] = [op |-> "sell", doc |-> i, check |-> "none", todo |-> << >>, got |-> NotRead]
               /\ st # "cancelled" /\ old # "cancelled" => req'[r] = Idle
               /\ UNCHANGED << stock, entries, bills >>
  <1> DEFINE old == invoices[i].st
             t   == Undone(EntriesOf(i))
             x   == [op |-> "unsell", doc |-> i, todo |-> t, got |-> NotRead]
             y   == [op |-> "sell", doc |-> i, check |-> "none", todo |-> << >>, got |-> NotRead]
  <1>1. /\ req[r] = Idle /\ invoices[i].doc = "live" /\ st # old
        /\ ((old = "draft" \/ st = "draft") => DraftPatches)
        /\ invoices' = [invoices EXCEPT ![i].st = st] /\ UNCHANGED << stock, entries, bills >>
    BY DEF PatchStatus, Start
  <1>2. IF st = "cancelled" THEN req' = [req EXCEPT ![r] = x]
        ELSE IF old = "cancelled" THEN req' = [req EXCEPT ![r] = y] ELSE req' = req
    BY DEF PatchStatus, Go
  <1>3. invoices[i] \in InvoiceType BY <1>1, TypeParts DEF Gone, Unused
  <1>4. InvoicesTyped(invoices') BY <1>3, <1>1, TypeParts DEF InvoiceType, InvoicesTyped
  <1>5. t \in Moves BY UndoneOf
  <1> HIDE DEF t
  <1>6. x \in RequestType /\ y \in RequestType BY <1>5, NothingRead DEF RequestType, UndoType, SellType, Answers
  <1> HIDE DEF x, y
  <1>7. /\ RequestsTyped(req')
        /\ st = "cancelled" => req'[r] = x
        /\ st # "cancelled" /\ old = "cancelled" => req'[r] = y
        /\ st # "cancelled" /\ old # "cancelled" => req'[r] = Idle
    BY <1>1, <1>2, <1>6, GoIs, TypeParts
  <1>8. TypeInv' BY <1>1, <1>4, <1>7 DEF TypeInv
  <1> QED BY <1>1, <1>3, <1>7, <1>8 DEF x, y, t

LEMMA LoadDeleteTyped ==
    ASSUME TypeInv, Singles(entries), NEW r \in Requests, NEW i \in Invoices, LoadDelete(r, i)
    PROVE  /\ TypeInv' /\ req[r] = Idle /\ invoices[i].doc = "live" /\ UNCHANGED tables
           /\ req'[r] = [op |-> "erase", doc |-> i, todo |-> Undone(EntriesOf(i)), got |-> NotRead]
  <1> DEFINE t == Undone(EntriesOf(i))
             x == [op |-> "erase", doc |-> i, todo |-> t, got |-> NotRead]
  <1>1. /\ req[r] = Idle /\ invoices[i].doc = "live" /\ req' = [req EXCEPT ![r] = x] /\ UNCHANGED tables
    BY DEF LoadDelete, Start, Go
  <1>2. t \in Moves BY UndoneOf
  <1> HIDE DEF t
  <1>3. x \in RequestType BY <1>2, NothingRead DEF RequestType, UndoType
  <1> HIDE DEF x
  <1>4. RequestsTyped(req') /\ req'[r] = x BY <1>1, <1>3, GoIs, TypeParts
  <1>5. TypeInv' BY <1>1, <1>4, TablesStay
  <1> QED BY <1>1, <1>4, <1>5 DEF x, t

LEMMA DeleteInvoiceTyped ==
    ASSUME TypeInv, NEW r \in Requests, DeleteInvoice(r)
    PROVE  /\ TypeInv' /\ req[r].op = "erase" /\ req[r].todo = << >> /\ req'[r] = Idle
           /\ entries' = entries \ EntriesOf(req[r].doc)
           /\ invoices' = [invoices EXCEPT ![req[r].doc] = [doc |-> "deleted"]]
           /\ UNCHANGED << stock, bills >>
  <1>1. /\ req[r].op = "erase" /\ req[r].todo = << >> /\ End(r)
        /\ entries' = entries \ EntriesOf(req[r].doc)
        /\ invoices' = [invoices EXCEPT ![req[r].doc] = [doc |-> "deleted"]]
        /\ UNCHANGED << stock, bills >>
    BY DEF DeleteInvoice, At
  <1>2. EntriesTyped(entries') BY <1>1, FewerEntries, TypeParts
  <1>3. InvoicesTyped(invoices')
    <2>1. [doc |-> "deleted"] \in Gone BY DEF Gone
    <2> QED BY <1>1, <2>1, TypeParts DEF InvoicesTyped
  <1>4. RequestsTyped(req') /\ req'[r] = Idle BY <1>1, EndIs, TypeParts
  <1> QED BY <1>1, <1>2, <1>3, <1>4 DEF TypeInv

LEMMA RefuseTyped ==
    ASSUME TypeInv, NEW r \in Requests, Refuse(r)
    PROVE  /\ TypeInv' /\ req[r].op \in {"save", "erase"} /\ req[r].todo = << >> /\ req'[r] = Idle
           /\ invoices[req[r].doc].doc = "live" /\ invoices[req[r].doc].st \in Refusable
           /\ UNCHANGED tables
  BY EndIs, TypeParts, TablesStay DEF Refuse, At

-----------------------------------------------------------------------------
(* What entries add up to *)

\* One more term
LEMMA GrownSum ==
    ASSUME NEW S, IsFiniteSet(S), NEW x, x \notin S, NEW f, NEW g, g[x] \in Int, \A y \in S : f[y] \in Int /\ g[y] = f[y]
    PROVE  SumFunctionOnSet(g, S \cup {x}) = SumFunctionOnSet(f, S) + g[x] /\ SumFunctionOnSet(f, S) \in Int
  BY SumAdds, SumAgrees, SumInt

\* Terms that are nothing can be left out.
LEMMA FilteredSum ==
    ASSUME NEW S, IsFiniteSet(S), NEW P \in SUBSET S, NEW f, NEW g,
           \A x \in P : f[x] \in Int /\ g[x] = f[x], \A x \in S \ P : f[x] = 0
    PROVE  SumFunctionOnSet(g, P) = SumFunctionOnSet(f, S)
  <1>1. IsFiniteSet(P) /\ IsFiniteSet(S \ P) BY FS_Subset
  <1>2. SumFunctionOnSet(f, P) = SumFunctionOnSet(g, P) /\ SumFunctionOnSet(f, P) \in Int
    BY <1>1, SumAgrees, SumInt
  <1>3. SumFunctionOnSet(f, S \ P) = 0 BY <1>1, SumZero
  <1>4. P \cup (S \ P) = S /\ P \cap (S \ P) = {} /\ \A x \in P \cup (S \ P) : f[x] \in Int OBVIOUS
  <1> DEFINE R == S \ P
             U == P \cup R
  <1>5. SumFunctionOnSet(f, U) = SumFunctionOnSet(f, P) + SumFunctionOnSet(f, R) BY <1>1, <1>4, SumUnion
  <1>6. U = S BY <1>4
  <1> HIDE DEF U
  <1>7. SumFunctionOnSet(f, S) = SumFunctionOnSet(f, P) + SumFunctionOnSet(f, R) BY <1>5, <1>6
  <1> QED BY <1>2, <1>3, <1>7

\* What an entry says of the row of a key, and of the reservations of an outlet
Share(e, k)    == IF e.key = k /\ Approved(e) THEN Effect(e.kind, e.qty) ELSE 0
Reserving(e)   == e.kind \in {"reservation", "release"}
OutShare(e, o) == IF Reserving(e) /\ e.key[1] = o THEN -e.qty ELSE 0

LedgerAt(E, k) == SumFunctionOnSet([e \in E |-> Share(e, k)], E)
OutAt(E, o)    == SumFunctionOnSet([e \in E |-> OutShare(e, o)], E)
HeldAt(s, o)   == SumFunctionOnSet([k \in DOMAIN s |-> IF k[1] = o THEN s[k].reserved ELSE 0], DOMAIN s)

\* Shares are integers.
LEMMA ShareIs ==
    ASSUME NEW e \in EntryType, NEW k, NEW o
    PROVE  Share(e, k) \in Int /\ OutShare(e, o) \in Int
  <1>1. e.qty \in Int BY DEF EntryType
  <1> QED BY <1>1, EffectIs DEF Share, OutShare

\* Without entries the ledger says nothing.
LEMMA LedgerEmpty == ASSUME NEW k, NEW o PROVE LedgerAt({}, k) = 0 /\ OutAt({}, o) = 0
  BY SumEmpty DEF LedgerAt, OutAt

\* A new entry adds its share.
LEMMA LedgerGrows ==
    ASSUME NEW E, EntriesTyped(E), NEW e \in EntryType, e \notin E, NEW k, NEW o
    PROVE  /\ LedgerAt(E \cup {e}, k) = LedgerAt(E, k) + Share(e, k) /\ LedgerAt(E, k) \in Int
           /\ OutAt(E \cup {e}, o) = OutAt(E, o) + OutShare(e, o) /\ OutAt(E, o) \in Int
  <1>1. IsFiniteSet(E) /\ \A x \in E \cup {e} : Share(x, k) \in Int /\ OutShare(x, o) \in Int
    BY ShareIs DEF EntriesTyped
  <1>2. LedgerAt(E \cup {e}, k) = LedgerAt(E, k) + Share(e, k) /\ LedgerAt(E, k) \in Int
    <2> DEFINE f == [x \in E |-> Share(x, k)]
               g == [x \in E \cup {e} |-> Share(x, k)]
    <2>1. g[e] = Share(e, k) /\ g[e] \in Int /\ \A y \in E : f[y] \in Int /\ g[y] = f[y] BY <1>1
    <2> HIDE DEF f, g
    <2>2. SumFunctionOnSet(g, E \cup {e}) = SumFunctionOnSet(f, E) + g[e] /\ SumFunctionOnSet(f, E) \in Int
      BY <1>1, <2>1, GrownSum
    <2> QED BY <2>1, <2>2 DEF f, g, LedgerAt
  <1>3. OutAt(E \cup {e}, o) = OutAt(E, o) + OutShare(e, o) /\ OutAt(E, o) \in Int BY <1>1, GrownSum DEF OutAt
  <1> QED BY <1>2, <1>3

\* An entry that is removed takes its share away.
LEMMA LedgerShrinks ==
    ASSUME NEW E, EntriesTyped(E), NEW e \in E, NEW k, NEW o
    PROVE  /\ LedgerAt(E \ {e}, k) = LedgerAt(E, k) - Share(e, k) /\ LedgerAt(E, k) \in Int
           /\ OutAt(E \ {e}, o) = OutAt(E, o) - OutShare(e, o) /\ OutAt(E, o) \in Int
  <1> DEFINE D == E \ {e}
  <1>1. EntriesTyped(D) /\ e \notin D /\ D \cup {e} = E /\ e \in EntryType BY FewerEntries DEF EntriesTyped
  <1> HIDE DEF D
  <1>2. /\ LedgerAt(D \cup {e}, k) = LedgerAt(D, k) + Share(e, k) /\ LedgerAt(D, k) \in Int
        /\ OutAt(D \cup {e}, o) = OutAt(D, o) + OutShare(e, o) /\ OutAt(D, o) \in Int
    BY <1>1, LedgerGrows
  <1>3. Share(e, k) \in Int /\ OutShare(e, o) \in Int BY <1>1, ShareIs
  <1> DEFINE U == D \cup {e}
  <1>4. U = E /\ LedgerAt(U, k) = LedgerAt(D, k) + Share(e, k) /\ OutAt(U, o) = OutAt(D, o) + OutShare(e, o)
    BY <1>1, <1>2
  <1> HIDE DEF U
  <1>5. LedgerAt(E, k) = LedgerAt(D, k) + Share(e, k) /\ OutAt(E, o) = OutAt(D, o) + OutShare(e, o) BY <1>4
  <1>6. /\ LedgerAt(D, k) = LedgerAt(E, k) - Share(e, k) /\ LedgerAt(E, k) \in Int
        /\ OutAt(D, o) = OutAt(E, o) - OutShare(e, o) /\ OutAt(E, o) \in Int
    BY <1>2, <1>3, <1>5
  <1> QED BY <1>6 DEF D

\* An entry that is saved again under its id
LEMMA LedgerSwaps ==
    ASSUME NEW E, EntriesTyped(E), NEW e \in E, NEW f \in EntryType, f.id = e.id, NEW k, NEW o
    PROVE  /\ LedgerAt((E \ {e}) \cup {f}, k) = LedgerAt(E, k) - Share(e, k) + Share(f, k)
           /\ OutAt((E \ {e}) \cup {f}, o) = OutAt(E, o) - OutShare(e, o) + OutShare(f, o)
  <1> DEFINE D == E \ {e}
  <1>1. EntriesTyped(D) /\ f \notin D BY FewerEntries DEF EntriesTyped
  <1>2. /\ LedgerAt(D, k) = LedgerAt(E, k) - Share(e, k)
        /\ OutAt(D, o) = OutAt(E, o) - OutShare(e, o)
    BY LedgerShrinks
  <1> HIDE DEF D
  <1>3. /\ LedgerAt(D \cup {f}, k) = LedgerAt(D, k) + Share(f, k)
        /\ OutAt(D \cup {f}, o) = OutAt(D, o) + OutShare(f, o)
    BY <1>1, LedgerGrows
  <1>4. /\ LedgerAt(D \cup {f}, k) = LedgerAt(E, k) - Share(e, k) + Share(f, k)
        /\ OutAt(D \cup {f}, o) = OutAt(E, o) - OutShare(e, o) + OutShare(f, o)
    BY <1>2, <1>3
  <1> QED BY <1>4 DEF D

\* What the properties add up is the same.
LEMMA LedgerIs ==
    ASSUME EntriesTyped(entries), NEW k
    PROVE  LET Eff(e) == Effect(e.kind, e.qty)
           IN  Sum({e \in entries : e.key = k /\ Approved(e)}, Eff) = LedgerAt(entries, k)
  BY ShareIs, FilteredSum DEF EntriesTyped, Share, Sum, LedgerAt

\* The sum ReservedMatches takes over an outlet's reservations
LEMMA OutIs ==
    ASSUME EntriesTyped(entries), NEW o
    PROVE  LET Out(e) == -e.qty
           IN  Sum({e \in entries : e.kind \in {"reservation", "release"} /\ e.key[1] = o}, Out) = OutAt(entries, o)
  BY ShareIs, FilteredSum DEF EntriesTyped, OutShare, Reserving, Sum, OutAt

\* The sum ReservedMatches takes over the reserved quantities of rows
LEMMA HeldIs ==
    ASSUME RowsTyped(stock), NEW o
    PROVE  Sum({k \in DOMAIN stock : k[1] = o}, LAMBDA k : stock[k].reserved) = HeldAt(stock, o)
  <1> DEFINE P == {k \in DOMAIN stock : k[1] = o}
             f == [k \in DOMAIN stock |-> IF k[1] = o THEN stock[k].reserved ELSE 0]
             g == [k \in P |-> stock[k].reserved]
             D == DOMAIN stock
  <1>1. \A k \in DOMAIN stock : stock[k].reserved \in Int BY DEF RowsTyped, RowType
  <1>2. \A x \in P : f[x] \in Int /\ g[x] = f[x] BY <1>1
  <1>3. \A x \in D \ P : f[x] = 0 OBVIOUS
  <1>4. P \in SUBSET D /\ IsFiniteSet(D) BY DEF RowsTyped
  <1> SUFFICES SumFunctionOnSet(g, P) = SumFunctionOnSet(f, D) BY DEF Sum, HeldAt
  <1> HIDE DEF P, f, g, D
  <1> QED BY <1>2, <1>3, <1>4, FilteredSum

\* A row that is there, saved again
LEMMA HeldChanges ==
    ASSUME NEW s, RowsTyped(s), NEW k \in DOMAIN s, NEW row \in RowType, NEW o
    PROVE  HeldAt([s EXCEPT ![k] = row], o) =
             HeldAt(s, o) - (IF k[1] = o THEN s[k].reserved ELSE 0) + (IF k[1] = o THEN row.reserved ELSE 0)
  <1> DEFINE t == [s EXCEPT ![k] = row]
             D == DOMAIN s
             f == [j \in D |-> IF j[1] = o THEN s[j].reserved ELSE 0]
             g == [j \in D |-> IF j[1] = o THEN t[j].reserved ELSE 0]
  <1>1. \A j \in D : s[j].reserved \in Int BY DEF RowsTyped, RowType
  <1>2. DOMAIN t = D /\ t[k] = row /\ \A j \in D : j # k => t[j] = s[j] OBVIOUS
  <1>3. row.reserved \in Int BY DEF RowType
  <1> HIDE DEF t
  <1>4. /\ \A j \in D : f[j] \in Int /\ g[j] \in Int /\ (j # k => g[j] = f[j])
        /\ f[k] = (IF k[1] = o THEN s[k].reserved ELSE 0) /\ g[k] = (IF k[1] = o THEN row.reserved ELSE 0)
    BY <1>1, <1>2, <1>3
  <1>5. HeldAt(t, o) = SumFunctionOnSet(g, D) /\ HeldAt(s, o) = SumFunctionOnSet(f, D) BY <1>2 DEF HeldAt
  <1>6. IsFiniteSet(D) /\ k \in D BY DEF RowsTyped
  <1> HIDE DEF f, g, D
  <1>7. ChangedAt(f, g, k, D) BY <1>4, <1>6 DEF ChangedAt
  <1>8. SumFunctionOnSet(g, D) = SumFunctionOnSet(f, D) - f[k] + g[k] BY <1>7, SumChanges
  <1> QED BY <1>4, <1>5, <1>8 DEF t

-----------------------------------------------------------------------------
(* One request, and what it still has to do *)

\* What an update adds to the row of a key, and what the first two updates add
MoveAt(m, k) == IF m.key = k THEN Effect(m.kind, m.qty) ELSE 0
Short(t)     == t = << >> \/ Tail(t) = << >> \/ Tail(Tail(t)) = << >>
TodoAt(t, k) == IF t = << >> THEN 0
                ELSE MoveAt(Head(t), k) + (IF Tail(t) = << >> THEN 0 ELSE MoveAt(Head(Tail(t)), k))

\* The entries there will be once the ones a request undoes are dropped
Dropping(x) == x.op \in {"rewrite", "unsell", "erase"}
Kept(E, x)  == IF Dropping(x) THEN {e \in E : e.ref # x.doc} ELSE E

\* Rows and the updates to come add up to the ledger.
Books(s, K, t) == \A k \in Keys : RowOf(s, k).qty + TodoAt(t, k) = LedgerAt(K, k)

\* What is available is what nobody has reserved, and what is reserved is what the
\* reservations of an outlet say.
Even(s)    == \A k \in DOMAIN s : s[k].available = s[k].qty - s[k].reserved
Held(s, E) == Even(s) /\ \A o \in Outlets : HeldAt(s, o) = OutAt(E, o)

\* Sales and transfers are recorded with a minus.
Outgoing(E) == \A e \in E : e.kind \in {"sale", "transfer"} => e.qty < 0

\* The entries of a document
Own(E, d) == {e \in E : e.ref = d}

\* An invoice has one sale where it counts and none where it does not, save
\* for the request that is changing it.
Selling(x, i)   == x.op \in {"sell", "save"} /\ x.doc = i
Unselling(x, i) == x.op = "unsell" /\ x.doc = i
SaleOf(E, I, x, i) ==
    /\ Single(Own(E, i))
    /\ \A e \in Own(E, i) : e.kind = "sale" /\ Approved(e)
    /\ Selling(x, i) => Own(E, i) = {}
    /\ Unselling(x, i) => ~Counts(I[i])
    /\ ~Selling(x, i) /\ ~Unselling(x, i) => (Own(E, i) # {}) = Counts(I[i])

\* A bill has at most one purchase, and its stock status is the one of its
\* entry, save for the request that is about to set it.
Syncing(x, b) == (x.op = "sync" /\ x.ref = b) \/ (x.op = "approve_all" /\ b \in x.refs)
BillOf(E, B, x, b) ==
    /\ Single(Own(E, b))
    /\ \A e \in Own(E, b) : e.kind = "purchase"
    /\ B[b].doc # "live" => Own(E, b) = {}
    /\ B[b].doc = "live" /\ ~Syncing(x, b) => B[b].stock = StatusOf(Own(E, b))

\* What a request has read still holds.
Knows(s, E, x) ==
    /\ x.op \in {"edit", "approve", "reject"} => x.seen \in E
    /\ x.op = "edit" => ~Reserving(x.seen)
    /\ x.op \in {"approve", "reject"} => x.seen.status = "pending"
    /\ x.op = "approve_all" => x.list \subseteq {e \in E : e.status = "pending"}
    /\ x.op \in {"reserve", "release"} => x.todo = << >> /\ x.key \in DOMAIN s /\ x.seen = s[x.key]
    /\ x # Idle /\ x.got # NotRead => x.todo # << >> /\ x.got = RowOf(s, Head(x.todo).key)

\* What holds of the tables at every step of a request
Story(s, E, I, B, x) ==
    /\ Short(x.todo) /\ Books(s, Kept(E, x), x.todo)
    /\ Held(s, E) /\ Outgoing(E)
    /\ \A i \in Invoices : SaleOf(E, I, x, i)
    /\ \A b \in Bills : BillOf(E, B, x, b)
    /\ Knows(s, E, x)

\* The inductive invariant, beside TypeInv
Tale == \A r \in Requests : Story(stock, entries, invoices, bills, req[r])

-----------------------------------------------------------------------------
(* One update *)

LEMMA MoveAtInt == ASSUME NEW m, m.qty \in Int, NEW k PROVE MoveAt(m, k) \in Int
  BY EffectIs DEF MoveAt

LEMMA HeadIn == ASSUME NEW t \in Moves, t # << >> PROVE Head(t) \in MoveType /\ Head(t).qty \in Int
  <1>1. Head(t) \in MoveType BY HeadTailProperties DEF Moves
  <1> QED BY <1>1 DEF MoveType

LEMMA TodoInt == ASSUME NEW t \in Moves, NEW k PROVE TodoAt(t, k) \in Int
  <1>1. CASE t = << >> BY <1>1 DEF TodoAt
  <1>2. CASE t # << >>
    <2> DEFINE u == Tail(t)
    <2>1. Head(t).qty \in Int /\ u \in Moves BY <1>2, HeadIn, FirstMove
    <2>2. u # << >> => Head(u).qty \in Int BY <2>1, HeadIn
    <2>3. MoveAt(Head(t), k) \in Int /\ (u # << >> => MoveAt(Head(u), k) \in Int) BY <2>1, <2>2, MoveAtInt
    <2> QED BY <1>2, <2>3 DEF TodoAt
  <1> QED BY <1>1, <1>2

\* The first of the updates to come, and the others
LEMMA TodoFirst ==
    ASSUME NEW t \in Moves, t # << >>, Short(t), NEW k
    PROVE  /\ Short(Tail(t)) /\ Tail(t) \in Moves
           /\ TodoAt(t, k) = MoveAt(Head(t), k) + TodoAt(Tail(t), k)
           /\ MoveAt(Head(t), k) \in Int /\ TodoAt(Tail(t), k) \in Int
  <1> DEFINE u == Tail(t)
  <1>1. u \in Moves /\ MoveAt(Head(t), k) \in Int /\ TodoAt(u, k) \in Int
    BY HeadIn, MoveAtInt, TodoInt, FirstMove
  <1>2. Short(u) BY DEF Short
  <1>3. u # << >> => Tail(u) = << >> BY DEF Short
  <1>4. u # << >> => MoveAt(Head(u), k) \in Int BY <1>1, HeadIn, MoveAtInt
  <1>5. TodoAt(u, k) = IF u = << >> THEN 0 ELSE MoveAt(Head(u), k) BY <1>3, <1>4 DEF TodoAt
  <1>6. TodoAt(t, k) = MoveAt(Head(t), k) + TodoAt(u, k) BY <1>5 DEF TodoAt
  <1> QED BY <1>1, <1>2, <1>6

\* Up to two updates
LEMMA TodoOf ==
    ASSUME NEW k
    PROVE  /\ Short(<< >>) /\ TodoAt(<< >>, k) = 0
           /\ \A m \in MoveType : Short(<< m >>) /\ TodoAt(<< m >>, k) = MoveAt(m, k)
           /\ \A m, p \in MoveType : Short(<< m, p >>) /\ TodoAt(<< m, p >>, k) = MoveAt(m, k) + MoveAt(p, k)
  BY MoveAtInt DEF MoveType, Short, TodoAt

\* An update, and what it does to a row
LEMMA UpdatedBy ==
    ASSUME NEW row \in RowType \cup {NoRow}, NEW m \in MoveType
    PROVE  /\ Updated(row, m) \in RowType
           /\ Updated(row, m).qty = row.qty + Effect(m.kind, m.qty)
           /\ Updated(row, m).reserved = row.reserved
           /\ Updated(row, m).available = Updated(row, m).qty - Updated(row, m).reserved
  <1>1. row.qty \in Int /\ row.reserved \in Int
    <2>1. CASE row = NoRow BY <2>1 DEF NoRow
    <2>2. CASE row \in RowType BY <2>2 DEF RowType
    <2> QED BY <2>1, <2>2
  <1>2. Effect(m.kind, m.qty) \in Int BY EffectIs DEF MoveType
  <1> QED BY <1>1, <1>2 DEF Updated, RowType

\* A save of a row that was read just now
With(s, k, row) == [j \in DOMAIN s \cup {k} |-> IF j = k THEN row ELSE s[j]]

\* A row that is saved as it was read replaces itself.
LEMMA SavedNow ==
    ASSUME NEW s, RowsTyped(s), NEW k \in Keys, NEW row
    PROVE  Saved(s, k, RowOf(s, k), row) = With(s, k, row)
  <1>1. RowOf(s, k).fresh <=> k \notin DOMAIN s BY RowIs
  <1> QED BY <1>1 DEF Saved, With

\* One update: what it adds to each row, and that reservations do not notice.
LEMMA SteppedIs ==
    ASSUME NEW s, RowsTyped(s), NEW m \in MoveType
    PROVE  LET t == Stepped(s, m)
           IN  /\ RowsTyped(t) /\ DOMAIN s \subseteq DOMAIN t
               /\ \A k \in Keys : RowOf(t, k).qty = RowOf(s, k).qty + MoveAt(m, k)
               /\ Even(s) => Even(t)
               /\ \A o : HeldAt(t, o) = HeldAt(s, o)
  <1> DEFINE k   == m.key
             row == Updated(RowOf(s, k), m)
             t   == Stepped(s, m)
  <1>1. k \in Keys /\ m.qty \in Int /\ m = Move(k, m.kind, m.qty) BY DEF MoveType, Move
  <1>2. t = [j \in DOMAIN s \cup {k} |-> IF j = k THEN row ELSE s[j]]
    <2>1. t = Saved(s, k, RowOf(s, k), row) BY DEF Stepped
    <2> HIDE DEF t, row, k
    <2>2. Saved(s, k, RowOf(s, k), row) = With(s, k, row) BY <1>1, SavedNow
    <2> QED BY <2>1, <2>2 DEF With
  <1>3. /\ RowOf(s, k) \in RowType \cup {NoRow} /\ RowOf(s, k).qty \in Int /\ RowOf(s, k).reserved \in Int
        /\ (k \notin DOMAIN s => RowOf(s, k) = NoRow) /\ (k \in DOMAIN s => RowOf(s, k) = s[k])
    BY <1>1, RowIs
  <1>4. /\ row \in RowType
        /\ row.qty = RowOf(s, k).qty + Effect(m.kind, m.qty) /\ row.reserved = RowOf(s, k).reserved
        /\ row.available = row.qty - row.reserved
    <2> HIDE DEF k
    <2> QED BY <1>1, <1>3, UpdatedBy
  <1>5. RowsTyped(t) BY SteppedTyped
  <1> HIDE DEF row, k
  <1>6. DOMAIN t = DOMAIN s \cup {k} /\ t[k] = row /\ \A j \in DOMAIN s : j # k => t[j] = s[j] BY <1>2
  <1> HIDE DEF t
  <1>7. Effect(m.kind, m.qty) \in Int BY <1>1, EffectIs
  <1>8. ASSUME NEW j \in Keys PROVE RowOf(t, j).qty = RowOf(s, j).qty + MoveAt(m, j)
    <2>1. RowOf(s, j).qty \in Int BY RowIs
    <2>2. CASE j = k BY <1>3, <1>4, <1>6, <2>2 DEF RowOf, MoveAt, k
    <2>3. CASE j # k
      <3>1. RowOf(t, j) = RowOf(s, j) BY <1>6, <2>3 DEF RowOf
      <3> QED BY <2>1, <2>3, <3>1 DEF MoveAt, k
    <2> QED BY <2>2, <2>3
  <1>9. Even(s) => Even(t) BY <1>4, <1>6 DEF Even
  <1>10. ASSUME NEW o PROVE HeldAt(t, o) = HeldAt(s, o)
    <2>1. CASE k \in DOMAIN s
      <3>1. t = [s EXCEPT ![k] = row] BY <1>2, <2>1 DEF RowsTyped
      <3>2. HeldAt([s EXCEPT ![k] = row], o) =
             HeldAt(s, o) - (IF k[1] = o THEN s[k].reserved ELSE 0) + (IF k[1] = o THEN row.reserved ELSE 0)
        BY <1>4, <2>1, HeldChanges
      <3>3. row.reserved = s[k].reserved /\ s[k].reserved \in Int /\ HeldAt(s, o) \in Int
        <4>1. row.reserved = s[k].reserved /\ s[k].reserved \in Int BY <1>3, <1>4, <2>1
        <4>2. HeldAt(s, o) \in Int
          <5>1. \A j \in DOMAIN s : s[j].reserved \in Int BY DEF RowsTyped, RowType
          <5> DEFINE f == [j \in DOMAIN s |-> IF j[1] = o THEN s[j].reserved ELSE 0]
          <5>2. \A j \in DOMAIN s : f[j] \in Int BY <5>1
          <5>3. IsFiniteSet(DOMAIN s) BY DEF RowsTyped
          <5> HIDE DEF f
          <5>4. SumFunctionOnSet(f, DOMAIN s) \in Int BY <5>2, <5>3, SumInt
          <5> QED BY <5>4 DEF f, HeldAt
        <4> QED BY <4>1, <4>2
      <3> QED BY <3>1, <3>2, <3>3
    <2>2. CASE k \notin DOMAIN s
      <3> DEFINE D == DOMAIN s
                 f == [j \in D |-> IF j[1] = o THEN s[j].reserved ELSE 0]
                 g == [j \in D \cup {k} |-> IF j[1] = o THEN t[j].reserved ELSE 0]
      <3>1. \A j \in D : s[j].reserved \in Int BY DEF RowsTyped, RowType
      <3>2. row.reserved = 0 BY <1>3, <1>4, <2>2 DEF NoRow
      <3>3. g[k] = 0 /\ g[k] \in Int /\ \A j \in D : f[j] \in Int /\ g[j] = f[j] BY <1>6, <2>2, <3>1, <3>2
      <3>4. IsFiniteSet(D) /\ k \notin D BY <2>2 DEF RowsTyped
      <3>5. HeldAt(t, o) = SumFunctionOnSet(g, D \cup {k}) /\ HeldAt(s, o) = SumFunctionOnSet(f, D)
        BY <1>6 DEF HeldAt
      <3> HIDE DEF f, g, D
      <3>6. SumFunctionOnSet(g, D \cup {k}) = SumFunctionOnSet(f, D) + g[k] /\ SumFunctionOnSet(f, D) \in Int
        BY <3>3, <3>4, GrownSum
      <3> QED BY <3>3, <3>5, <3>6
    <2> QED BY <2>1, <2>2
  <1> QED BY <1>5, <1>6, <1>8, <1>9, <1>10 DEF t

-----------------------------------------------------------------------------
(* What changes of a request or of the entries do to the story *)

\* The same request, whatever updates it still has to make
Same(x, y) ==
    /\ y.op = x.op
    /\ x.op \in {"sell", "save", "rewrite", "unsell", "erase"} => y.doc = x.doc
    /\ x.op = "sync" => y.ref = x.ref
    /\ x.op = "approve_all" => y.refs = x.refs /\ y.list = x.list
    /\ x.op \in {"edit", "approve", "reject"} => y.seen = x.seen
    /\ x.op \in {"reserve", "release"} => y.key = x.key /\ y.seen = x.seen

\* Reading a row leaves the request the same.
LEMMA SameReads ==
    ASSUME NEW x \in RequestType, x # Idle, NEW g
    PROVE  LET y == [x EXCEPT !.got = g] IN Same(x, y) /\ y.todo = x.todo /\ y.got = g /\ y # Idle
  <1> DEFINE y == [x EXCEPT !.got = g]
  <1>0. "got" \in DOMAIN y /\ "got" \notin DOMAIN Idle
    <2>1. "got" \in DOMAIN x
      BY DEF RequestType, FinishType, BulkType, SeenType, SyncType, AllType, ReserveType, SellType,
             RewriteType, SoldType, UndoType
    <2> QED BY <2>1 DEF Idle
  <1>1. y.op = x.op /\ y.todo = x.todo /\ y.got = g /\ y # Idle
    <2>1. DOMAIN x = DOMAIN y OBVIOUS
    <2>2. {"op", "todo", "got"} \subseteq DOMAIN x
      BY DEF RequestType, FinishType, BulkType, SeenType, SyncType, AllType, ReserveType, SellType,
             RewriteType, SoldType, UndoType
    <2> QED BY <1>0, <2>1, <2>2
  <1>2. x.op \in {"sell", "save", "rewrite", "unsell", "erase"} => y.doc = x.doc
    BY RequestIs DEF SellType, RewriteType, UndoType
  <1>3. x.op = "sync" => y.ref = x.ref BY RequestIs DEF SyncType
  <1>4. x.op = "approve_all" => y.refs = x.refs /\ y.list = x.list BY RequestIs DEF AllType
  <1>5. x.op \in {"edit", "approve", "reject"} => y.seen = x.seen BY RequestIs DEF SeenType
  <1>6. x.op \in {"reserve", "release"} => y.key = x.key /\ y.seen = x.seen BY RequestIs DEF ReserveType
  <1> QED BY <1>1, <1>2, <1>3, <1>4, <1>5, <1>6 DEF Same

Later(x, t, g) == [x EXCEPT !.todo = t, !.got = g]

\* So does moving on to the next update.
LEMMA SameSaves ==
    ASSUME NEW x \in RequestType, x # Idle, NEW t, NEW g
    PROVE  Same(x, Later(x, t, g)) /\ Later(x, t, g).todo = t /\ Later(x, t, g).got = g
  <1> DEFINE y == Later(x, t, g)
  <1>0. y = [x EXCEPT !.todo = t, !.got = g] BY DEF Later
  <1> HIDE DEF y
  <1>1. y.op = x.op /\ y.todo = t /\ y.got = g
    <2>1. DOMAIN x = DOMAIN y BY <1>0
    <2>2. {"op", "todo", "got"} \subseteq DOMAIN x
      BY DEF RequestType, FinishType, BulkType, SeenType, SyncType, AllType, ReserveType, SellType,
             RewriteType, SoldType, UndoType
    <2> QED BY <1>0, <2>1, <2>2
  <1>2. x.op \in {"sell", "save", "rewrite", "unsell", "erase"} => y.doc = x.doc
    BY <1>0, RequestIs DEF SellType, RewriteType, UndoType
  <1>3. x.op = "sync" => y.ref = x.ref BY <1>0, RequestIs DEF SyncType
  <1>4. x.op = "approve_all" => y.refs = x.refs /\ y.list = x.list BY <1>0, RequestIs DEF AllType
  <1>5. x.op \in {"edit", "approve", "reject"} => y.seen = x.seen BY <1>0, RequestIs DEF SeenType
  <1>6. x.op \in {"reserve", "release"} => y.key = x.key /\ y.seen = x.seen BY <1>0, RequestIs DEF ReserveType
  <1> QED BY <1>1, <1>2, <1>3, <1>4, <1>5, <1>6 DEF Same, y

\* What the story says of documents depends on no update still to make.
LEMMA SameStory ==
    ASSUME NEW x, NEW y, Same(x, y), NEW E, NEW I, NEW B
    PROVE  /\ Kept(E, y) = Kept(E, x)
           /\ \A i : SaleOf(E, I, x, i) => SaleOf(E, I, y, i)
           /\ \A b : BillOf(E, B, x, b) => BillOf(E, B, y, b)
  BY DEF Same, Kept, Dropping, Selling, Unselling, Syncing, SaleOf, BillOf

\* A request that is neither selling nor undoing a sale nor about to set the
\* stock status of a bill
Plain(x) == /\ x.op \in {"idle", "finish", "bulk", "edit", "approve", "reject", "reserve", "release", "sold",
                         "approve_all"}
            /\ x.op = "approve_all" => x.refs = {}

Docs(E, I, B) ==
    /\ \A i \in Invoices : /\ Single(Own(E, i)) /\ \A e \in Own(E, i) : e.kind = "sale" /\ Approved(e)
                           /\ (Own(E, i) # {}) = Counts(I[i])
    /\ \A b \in Bills : /\ Single(Own(E, b)) /\ \A e \in Own(E, b) : e.kind = "purchase"
                        /\ B[b].doc # "live" => Own(E, b) = {}
                        /\ B[b].doc = "live" => B[b].stock = StatusOf(Own(E, b))

\* The story of a request that changes no document, in fewer words
LEMMA PlainStory ==
    ASSUME NEW x, Plain(x), NEW s, NEW E, NEW I, NEW B
    PROVE  Story(s, E, I, B, x) <=>
             /\ Short(x.todo) /\ Books(s, E, x.todo) /\ Held(s, E) /\ Outgoing(E) /\ Docs(E, I, B)
             /\ Knows(s, E, x)
  <1>1. Kept(E, x) = E BY DEF Kept, Plain, Dropping
  <1>2. \A i : ~Selling(x, i) /\ ~Unselling(x, i) BY DEF Plain, Selling, Unselling
  <1>3. \A b : ~Syncing(x, b) BY DEF Plain, Syncing
  <1>4. (\A i \in Invoices : SaleOf(E, I, x, i)) /\ (\A b \in Bills : BillOf(E, B, x, b)) <=> Docs(E, I, B)
    BY <1>2, <1>3 DEF SaleOf, BillOf, Docs
  <1> QED BY <1>1, <1>4 DEF Story

\* Nothing is left to do.
LEMMA IdleIsPlain == Plain(Idle) /\ Idle.todo = << >> /\ \A s, E : Knows(s, E, Idle)
  BY DEF Plain, Idle, Knows

-----------------------------------------------------------------------------
(* Entries of a document *)

\* A new entry belongs to one document.
LEMMA OwnGrows ==
    ASSUME NEW E, NEW e, NEW d
    PROVE  Own(E \cup {e}, d) = IF e.ref = d THEN Own(E, d) \cup {e} ELSE Own(E, d)
  BY DEF Own

\* An entry of no document
LEMMA DocsStay ==
    ASSUME NEW E, NEW e, e.ref = None, NEW I, NEW B, Docs(E, I, B)
    PROVE  Docs(E \cup {e}, I, B)
  <1>1. \A d \in Invoices \cup Bills : Own(E \cup {e}, d) = Own(E, d) BY Assumed DEF Own
  <1> QED BY <1>1 DEF Docs

\* The stock status of a bill with no entry and with one
LEMMA StatusOne == /\ StatusOf({}) = "none"
                   /\ \A e : StatusOf({e}) = e.status
  <1>1. StatusOf({}) = "none" BY DEF StatusOf
  <1>2. ASSUME NEW e PROVE StatusOf({e}) = e.status
    <2> DEFINE some == {x.status : x \in {e}}
    <2>1. some = {e.status} OBVIOUS
    <2>2. Cardinality(some) = 1 /\ some # {} BY <2>1, FS_Singleton
    <2>3. StatusOf({e}) = CHOOSE st \in some : TRUE BY <2>2 DEF StatusOf
    <2> HIDE DEF some
    <2> QED BY <2>1, <2>3
  <1> QED BY <1>1, <1>2

\* An entry that is saved again under its id, for the same document
Swap(E, e, f) == (E \ {e}) \cup {f}
SameDocument(e, f) == f.id = e.id /\ f.ref = e.ref /\ f.kind = e.kind /\ f.key[1] = e.key[1]

\* Saving an entry again exchanges it.
LEMMA PutIs ==
    ASSUME EntriesTyped(entries), NEW e \in entries, NEW f, f.id = e.id
    PROVE  Put(f) = Swap(entries, e, f)
  BY DEF EntriesTyped, Put, Swap

\* Other documents do not notice the exchange.
LEMMA OthersSwap ==
    ASSUME NEW E, NEW e \in E, NEW f, f.ref = e.ref, NEW d, e.ref # d
    PROVE  Own(Swap(E, e, f), d) = Own(E, d)
  BY DEF Own, Swap

Exchanged(E, e, f, d) == Own(E, d) = {e} /\ Own(Swap(E, e, f), d) = {f}

\* The one entry of a document is exchanged.
LEMMA OwnSwaps ==
    ASSUME NEW E, NEW e \in E, NEW f, f.ref = e.ref, NEW d, d = e.ref, Single(Own(E, d))
    PROVE  Exchanged(E, e, f, d)
  BY DEF Own, Single, Swap, Exchanged

\* Reservations do not notice it either.
LEMMA OutSwaps ==
    ASSUME NEW E, EntriesTyped(E), NEW e \in E, NEW f \in EntryType, SameDocument(e, f), Reserving(e) => f.qty = e.qty, NEW o
    PROVE  OutAt(Swap(E, e, f), o) = OutAt(E, o)
  <1>1. OutShare(f, o) = OutShare(e, o) BY DEF OutShare, Reserving, SameDocument
  <1>2. OutAt(Swap(E, e, f), o) = OutAt(E, o) - OutShare(e, o) + OutShare(f, o)
    BY LedgerSwaps DEF SameDocument, Swap
  <1>3. OutShare(e, o) \in Int /\ OutAt(E, o) \in Int BY LedgerShrinks, ShareIs DEF EntriesTyped
  <1> QED BY <1>1, <1>2, <1>3

\* Entries of a document that are dropped
LEMMA LedgerDrops ==
    ASSUME NEW E, EntriesTyped(E), NEW d, Single(Own(E, d)), NEW e \in Own(E, d), NEW k, NEW o
    PROVE  /\ LedgerAt(E \ Own(E, d), k) = LedgerAt(E, k) - Share(e, k) /\ LedgerAt(E, k) \in Int
           /\ OutAt(E \ Own(E, d), o) = OutAt(E, o) - OutShare(e, o) /\ OutAt(E, o) \in Int
  BY LedgerShrinks DEF Single, Own

\* Dropping the entries of a document leaves those of the others.
LEMMA OwnDrops ==
    ASSUME NEW E, NEW d, NEW c
    PROVE  Own(E \ Own(E, d), c) = IF c = d THEN {} ELSE Own(E, c)
  BY DEF Own

-----------------------------------------------------------------------------
(* Every step goes on with the story: one lemma for each action, beginning with *)
(* the steps that update one row *)

Told(r) == TypeInv /\ r \in Requests /\ Story(stock, entries, invoices, bills, req[r])

\* What Told says
LEMMA ToldParts ==
    ASSUME NEW r, Told(r)
    PROVE  /\ TypeInv /\ r \in Requests /\ req[r] \in RequestType
           /\ Short(req[r].todo) /\ Books(stock, Kept(entries, req[r]), req[r].todo)
           /\ Held(stock, entries) /\ Outgoing(entries)
           /\ \A i \in Invoices : SaleOf(entries, invoices, req[r], i)
           /\ \A b \in Bills : BillOf(entries, bills, req[r], b)
           /\ Knows(stock, entries, req[r])
  BY TypeParts DEF Told, Story

\* Where the story holds no document has two entries.
LEMMA SinglesHold ==
    ASSUME NEW r, Told(r)
    PROVE  Singles(entries)
  BY ToldParts DEF SaleOf, BillOf, Singles, Own

LEMMA ReadRowStory ==
    ASSUME NEW r, Told(r), ReadRow(r)
    PROVE  TypeInv' /\ Story(stock', entries', invoices', bills', req'[r])
  <1> DEFINE x == req[r]
             g == RowOf(stock, Head(x.todo).key)
             y == [x EXCEPT !.got = g]
  <1>1. TypeInv' /\ req'[r] = y BY ReadRowTyped, ToldParts
  <1>2. stock' = stock /\ entries' = entries /\ invoices' = invoices /\ bills' = bills /\ x.todo # << >>
    BY DEF ReadRow, tables
  <1>3. x \in RequestType /\ x # Idle BY <1>2, ToldParts DEF Idle
  <1>4. Same(x, y) /\ y.todo = x.todo /\ y.got = g /\ y # Idle BY <1>3, SameReads
  <1> DEFINE s == stock  E == entries  I == invoices  B == bills
  <1>5. /\ Short(x.todo) /\ Books(s, Kept(E, x), x.todo) /\ Held(s, E) /\ Outgoing(E)
        /\ \A i \in Invoices : SaleOf(E, I, x, i)
        /\ \A b \in Bills : BillOf(E, B, x, b)
        /\ Knows(s, E, x)
    BY ToldParts
  <1>6. g = RowOf(s, Head(x.todo).key) OBVIOUS
  <1> HIDE DEF x, y, g, s, E, I, B
  <1>7. /\ Kept(E, y) = Kept(E, x)
        /\ \A i \in Invoices : SaleOf(E, I, y, i)
        /\ \A b \in Bills : BillOf(E, B, y, b)
    BY <1>4, <1>5, SameStory
  <1>8. Knows(s, E, y) BY <1>2, <1>4, <1>5, <1>6 DEF Knows, Same
  <1>9. Story(s, E, I, B, y) BY <1>4, <1>5, <1>7, <1>8 DEF Story
  <1> QED BY <1>1, <1>2, <1>9 DEF s, E, I, B

\* Rows and what is left to do, after an update
LEMMA BooksGo ==
    ASSUME NEW s, RowsTyped(s), NEW t \in Moves, t # << >>, Short(t), NEW K, Books(s, K, t)
    PROVE  Books(Stepped(s, Head(t)), K, Tail(t)) /\ Short(Tail(t))
  <1> DEFINE u == Stepped(s, Head(t))
  <1>1. Head(t) \in MoveType BY HeadIn
  <1>2. ASSUME NEW k \in Keys PROVE RowOf(u, k).qty + TodoAt(Tail(t), k) = LedgerAt(K, k)
    BY <1>1, SteppedIs, TodoFirst, RowIs DEF Books
  <1> HIDE DEF u
  <1>3. Books(u, K, Tail(t)) BY <1>2 DEF Books
  <1> QED BY <1>3, TodoFirst DEF u

LEMMA SaveRowStory ==
    ASSUME NEW r, Told(r), SaveRow(r)
    PROVE  TypeInv' /\ Story(stock', entries', invoices', bills', req'[r])
  <1> DEFINE x == req[r]
             m == Head(x.todo)
             y == [x EXCEPT !.todo = Tail(x.todo), !.got = NotRead]
             s == stock  E == entries  I == invoices  B == bills
             u == Stepped(s, m)
  <1>1. TypeInv' /\ req'[r] = Onward(x) BY SaveRowTyped, ToldParts
  <1>2. /\ entries' = E /\ invoices' = I /\ bills' = B /\ x.todo # << >> /\ x.got # NotRead
        /\ stock' = Saved(s, m.key, x.got, Updated(x.got, m))
    BY DEF SaveRow
  <1>3. x \in RequestType /\ x # Idle BY <1>2, ToldParts DEF Idle
  <1>4. /\ Short(x.todo) /\ Books(s, Kept(E, x), x.todo) /\ Held(s, E) /\ Outgoing(E)
        /\ \A i \in Invoices : SaleOf(E, I, x, i)
        /\ \A b \in Bills : BillOf(E, B, x, b)
        /\ Knows(s, E, x) /\ RowsTyped(s)
    BY ToldParts, TypeParts
  <1>5. stock' = u
    <2>1. x.got = RowOf(s, m.key) BY <1>2, <1>3, <1>4 DEF Knows
    <2> QED BY <1>2, <2>1 DEF Stepped
  <1>6. x.todo \in Moves BY <1>3, RequestIs
  <1>7. m \in MoveType BY <1>2, <1>6, HeadIn
  <1>8. Same(x, y) /\ y.todo = Tail(x.todo) /\ y.got = NotRead
    <2> DEFINE t == Tail(x.todo)
               z == [x EXCEPT !.todo = t, !.got = NotRead]
    <2>1. y = z OBVIOUS
    <2> HIDE DEF x, y, t
    <2>2. z = Later(x, t, NotRead) BY DEF Later
    <2> HIDE DEF z
    <2>3. Same(x, z) /\ z.todo = t /\ z.got = NotRead BY <1>3, <2>2, SameSaves
    <2> QED BY <2>1, <2>3 DEF t
  <1>9. x.op \notin {"reserve", "release"} BY <1>2, <1>4 DEF Knows
  <1>10. Onward(x) = IF Tail(x.todo) = << >> /\ x.op \in {"finish", "sold"} THEN Idle ELSE y BY DEF Onward
  <1> HIDE DEF x, y, s, E, I, B
  <1>11. Books(u, Kept(E, x), Tail(x.todo)) /\ Short(Tail(x.todo)) BY <1>2, <1>4, <1>6, BooksGo
  <1>12. Held(u, E) BY <1>4, <1>7, SteppedIs DEF Held
  <1> HIDE DEF u, m
  <1>13. CASE Tail(x.todo) = << >> /\ x.op \in {"finish", "sold"}
    <2>1. Plain(x) BY <1>13 DEF Plain
    <2>2. Kept(E, x) = E BY <1>13 DEF Kept, Dropping
    <2>3. Docs(E, I, B)
      <3>1. Story(s, E, I, B, x) BY <1>4 DEF Story
      <3> QED BY <2>1, <3>1, PlainStory
    <2>4. Plain(Idle) /\ Short(Idle.todo) /\ Books(u, E, Idle.todo) /\ Knows(u, E, Idle)
      BY <1>11, <1>13, <2>2, IdleIsPlain
    <2>5. Story(u, E, I, B, Idle) BY <1>4, <1>12, <2>3, <2>4, PlainStory
    <2> QED BY <1>1, <1>2, <1>5, <1>10, <1>13, <2>5
  <1>14. CASE ~ (Tail(x.todo) = << >> /\ x.op \in {"finish", "sold"})
    <2>1. /\ Kept(E, y) = Kept(E, x)
          /\ \A i \in Invoices : SaleOf(E, I, y, i)
          /\ \A b \in Bills : BillOf(E, B, y, b)
      BY <1>4, <1>8, SameStory
    <2>2. Knows(u, E, y) BY <1>4, <1>8, <1>9 DEF Knows, Same
    <2>3. Story(u, E, I, B, y) BY <1>4, <1>8, <1>11, <1>12, <2>1, <2>2 DEF Story
    <2> QED BY <1>1, <1>2, <1>5, <1>10, <1>14, <2>3
  <1> QED BY <1>13, <1>14

-----------------------------------------------------------------------------
(* Entries by hand, bulk updates and reservations *)

\* How clients use the shop where the story holds: quantities are signed as the
\* ledger signs them, drafts change on their own page, and only a draft's
\* update or deletion fails half-way.
Sound == Signed /\ ~DraftPatches /\ Refusable \subseteq {"draft"} /\ Targets \subseteq Int

\* An entry and the update that goes with it
LEMMA BooksAdd ==
    ASSUME NEW s, RowsTyped(s), NEW E, EntriesTyped(E), NEW e \in EntryType, e \notin E, Approved(e),
           NEW m \in MoveType, m.key = e.key, Effect(m.kind, m.qty) = Effect(e.kind, e.qty), Books(s, E, << >>)
    PROVE  Books(s, E \cup {e}, << m >>) /\ Short(<< m >>)
  <1>1. ASSUME NEW k \in Keys PROVE RowOf(s, k).qty + TodoAt(<< m >>, k) = LedgerAt(E \cup {e}, k)
    <2>1. RowOf(s, k).qty + TodoAt(<< >>, k) = LedgerAt(E, k) BY DEF Books
    <2>2. LedgerAt(E \cup {e}, k) = LedgerAt(E, k) + Share(e, k) /\ LedgerAt(E, k) \in Int BY LedgerGrows
    <2>3. TodoAt(<< >>, k) = 0 /\ TodoAt(<< m >>, k) = MoveAt(m, k) BY TodoOf
    <2>4. MoveAt(m, k) = Share(e, k) BY DEF MoveAt, Share
    <2>5. RowOf(s, k).qty \in Int BY RowIs
    <2>6. Share(e, k) \in Int BY ShareIs
    <2> QED BY <2>1, <2>2, <2>3, <2>4, <2>5, <2>6
  <1> QED BY <1>1, TodoOf DEF Books

\* An entry that reserves nothing leaves reservations as they are.
LEMMA HeldAdd ==
    ASSUME NEW s, NEW E, EntriesTyped(E), NEW e \in EntryType, e \notin E, ~Reserving(e), Held(s, E)
    PROVE  Held(s, E \cup {e})
  BY LedgerGrows DEF OutShare, Held

\* A request that only has updates left to make
LEMMA RestPlain ==
    ASSUME NEW t
    PROVE  Plain(Rest(t)) /\ Rest(t).todo = t /\ \A s, E : Knows(s, E, Rest(t))
  BY IdleIsPlain DEF Rest, Plain, Knows

\* A request that has done nothing yet, or nothing any more
LEMMA PlainParts ==
    ASSUME NEW r, Told(r), Plain(req[r])
    PROVE  /\ Short(req[r].todo) /\ Books(stock, entries, req[r].todo) /\ Held(stock, entries) /\ Outgoing(entries)
           /\ Docs(entries, invoices, bills) /\ Knows(stock, entries, req[r])
           /\ RowsTyped(stock) /\ EntriesTyped(entries)
  BY PlainStory, TypeParts DEF Told

\* A new entry of no document, and the update that is left to do
LEMMA NewStory ==
    ASSUME NEW r, Told(r), Plain(req[r]), req[r].todo = << >>, FreeIds # {},
           NEW kind \in Kinds, NEW key \in Keys, NEW q \in Int, kind \in {"sale", "transfer"} => q < 0,
           entries' = entries \cup {New(Entry(kind, key, q, "approved", None))},
           UNCHANGED << stock, invoices, bills >>,
           req'[r] = Rest(<< Move(key, kind, q) >>)
    PROVE  Story(stock', entries', invoices', bills', req'[r])
  <1> DEFINE e == New(Entry(kind, key, q, "approved", None))
             m == Move(key, kind, q)
             s == stock  E == entries  I == invoices  B == bills
             y == Rest(<< m >>)
  <1>1. /\ Books(s, E, << >>) /\ Held(s, E) /\ Outgoing(E) /\ Docs(E, I, B) /\ RowsTyped(s) /\ EntriesTyped(E)
    BY PlainParts
  <1>2. kind \in AllKinds /\ None \in Refs /\ kind \notin {"reservation", "release"}
    BY DEF AllKinds, Refs, Kinds
  <1>3. /\ e \in EntryType /\ e \notin E /\ e.kind = kind /\ e.key = key /\ e.qty = q /\ e.status = "approved"
        /\ e.ref = None
    BY <1>1, <1>2, NewIs
  <1>4. m \in MoveType /\ m.key = key /\ m.kind = kind /\ m.qty = q BY <1>2 DEF Move, MoveType
  <1>5. Approved(e) /\ ~Reserving(e) BY <1>2, <1>3 DEF Approved, Reserving
  <1>6. stock' = s /\ entries' = E \cup {e} /\ invoices' = I /\ bills' = B /\ req'[r] = y OBVIOUS
  <1> HIDE DEF e, m, s, E, I, B
  <1>7. Books(s, E \cup {e}, << m >>) /\ Short(<< m >>) BY <1>1, <1>3, <1>4, <1>5, BooksAdd
  <1>8. Held(s, E \cup {e}) BY <1>1, <1>3, <1>5, HeldAdd
  <1>9. Outgoing(E \cup {e}) BY <1>1, <1>3 DEF Outgoing
  <1>10. Docs(E \cup {e}, I, B) BY <1>1, <1>3, DocsStay
  <1>11. Plain(y) /\ y.todo = << m >> /\ Knows(s, E \cup {e}, y) BY RestPlain
  <1> HIDE DEF y
  <1>12. Story(s, E \cup {e}, I, B, y) BY <1>7, <1>8, <1>9, <1>10, <1>11, PlainStory
  <1> QED BY <1>6, <1>12

LEMMA CreateStockEntryStory ==
    ASSUME Sound, NEW r, Told(r), NEW kind \in Kinds, NEW o \in Outlets, NEW b \in Lots, NEW q \in Signs,
           CreateStockEntry(r, kind, << o, b >>, q)
    PROVE  TypeInv' /\ Story(stock', entries', invoices', bills', req'[r])
  <1> DEFINE key == << o, b >>
  <1>1. TypeInv' /\ req'[r] = Rest(<< Move(key, kind, q) >>) BY CreateStockEntryTyped, ToldParts
  <1>2. /\ req[r] = Idle /\ FreeIds # {}
        /\ entries' = entries \cup {New(Entry(kind, key, q, "approved", None))}
        /\ UNCHANGED << stock, invoices, bills >>
    BY DEF CreateStockEntry, Start
  <1>3. kind \in {"sale", "transfer"} => q < 0 BY DEF CreateStockEntry, Sound
  <1>4. key \in Keys /\ q \in Int BY KeyIs, SignIs
  <1>5. Plain(req[r]) /\ req[r].todo = << >> BY <1>2, IdleIsPlain
  <1> HIDE DEF key
  <1>6. Story(stock', entries', invoices', bills', req'[r]) BY <1>1, <1>2, <1>3, <1>4, <1>5, NewStory
  <1> QED BY <1>1, <1>6

\* A request that goes on without changing a table, to one that is plain
LEMMA PlainGoes ==
    ASSUME NEW r, Told(r), Plain(req[r]), UNCHANGED << stock, entries, invoices, bills >>,
           Plain(req'[r]), req'[r].todo = req[r].todo, Knows(stock, entries, req'[r])
    PROVE  Story(stock', entries', invoices', bills', req'[r])
  BY PlainParts, PlainStory

LEMMA ReadBulkRowStory ==
    ASSUME Sound, NEW r, Told(r), NEW o \in Outlets, NEW b \in Lots, NEW q \in Targets, ReadBulkRow(r, << o, b >>, q)
    PROVE  TypeInv' /\ Story(stock', entries', invoices', bills', req'[r])
  <1>1. TypeInv' /\ req'[r].op = "bulk" /\ req'[r].todo = << >> /\ req'[r].got = NotRead
    BY ReadBulkRowTyped, ToldParts DEF Sound
  <1>2. req[r] = Idle /\ UNCHANGED << stock, entries, invoices, bills >> BY DEF ReadBulkRow, Start, tables
  <1>3. Plain(req'[r]) /\ Knows(stock, entries, req'[r]) BY <1>1 DEF Plain, Knows
  <1> QED BY <1>1, <1>2, <1>3, IdleIsPlain, PlainGoes

LEMMA AdjustBulkRowStory ==
    ASSUME Sound, NEW r, Told(r), AdjustBulkRow(r)
    PROVE  TypeInv' /\ Story(stock', entries', invoices', bills', req'[r])
  <1> DEFINE x == req[r]
  <1>1. /\ TypeInv' /\ x \in BulkType /\ x.todo = << >>
        /\ x.adj = 0 => req'[r] = Idle
        /\ x.adj # 0 => req'[r] = Rest(<< Move(x.key, "adjustment", x.adj) >>)
    BY AdjustBulkRowTyped, ToldParts
  <1>2. x.op = "bulk" /\ x.key \in Keys /\ x.adj \in Int /\ Plain(x) BY <1>1 DEF BulkType, Plain
  <1>3. CASE x.adj = 0 BY <1>1, <1>3, <1>2, IdleIsPlain, PlainGoes DEF AdjustBulkRow
  <1>4. CASE x.adj # 0 BY <1>4, <1>1, <1>2, NewStory DEF AdjustBulkRow, Kinds
  <1> QED BY <1>3, <1>4

LEMMA LoadReservationStory ==
    ASSUME NEW r, Told(r), NEW op \in {"reserve", "release"}, NEW o \in Outlets, NEW b \in Lots,
           NEW q \in Quantities, LoadReservation(r, op, o, b, q)
    PROVE  TypeInv' /\ Story(stock', entries', invoices', bills', req'[r])
  <1>1. /\ TypeInv'
        /\ req'[r].op = op /\ req'[r].todo = << >> /\ req'[r].got = NotRead
        /\ req'[r].key \in DOMAIN stock /\ req'[r].seen = stock[req'[r].key]
    BY LoadReservationTyped, ToldParts
  <1>2. req[r] = Idle /\ UNCHANGED << stock, entries, invoices, bills >> BY DEF LoadReservation, Start, tables
  <1>3. Plain(req'[r]) /\ Knows(stock, entries, req'[r]) BY <1>1 DEF Plain, Knows
  <1> QED BY <1>1, <1>2, <1>3, IdleIsPlain, PlainGoes

\* What is reserved is what the reservation says, and the quantity stays.
LEMMA ReserveBooks ==
    ASSUME NEW s, RowsTyped(s), NEW E, EntriesTyped(E), NEW k \in DOMAIN s, NEW n \in Int,
           NEW e \in EntryType, e \notin E, Reserving(e), e.key[1] = k[1], e.qty = -n,
           Books(s, E, << >>), Held(s, E)
    PROVE  LET t == [s EXCEPT ![k] = Reserved(s[k], n)]
           IN  Books(t, E \cup {e}, << >>) /\ Held(t, E \cup {e})
  <1> DEFINE row == Reserved(s[k], n)
             t == [s EXCEPT ![k] = row]
  <1>1. s[k] \in RowType /\ k \in Keys BY DEF RowsTyped
  <1>2. row \in RowType /\ row.qty = s[k].qty /\ row.reserved = s[k].reserved + n
        /\ row.available = row.qty - row.reserved /\ s[k].reserved \in Int
    <2>1. /\ row \in RowType /\ row.qty = s[k].qty /\ row.reserved = s[k].reserved + n
          /\ row.available = s[k].qty - (s[k].reserved + n)
      BY <1>1, ReservedRow
    <2> QED BY <1>1, <2>1 DEF RowType
  <1> HIDE DEF row
  <1>3. DOMAIN t = DOMAIN s /\ t[k] = row /\ \A j \in DOMAIN s : j # k => t[j] = s[j] OBVIOUS
  <1>4. ASSUME NEW o \in Outlets PROVE HeldAt(t, o) = OutAt(E \cup {e}, o)
    <2>1. HeldAt(t, o) = HeldAt(s, o) - (IF k[1] = o THEN s[k].reserved ELSE 0) + (IF k[1] = o THEN row.reserved ELSE 0)
      BY <1>2, HeldChanges
    <2>2. OutAt(E \cup {e}, o) = OutAt(E, o) + OutShare(e, o) /\ OutAt(E, o) \in Int BY LedgerGrows
    <2>3. OutShare(e, o) = IF k[1] = o THEN n ELSE 0 BY DEF OutShare
    <2>4. HeldAt(s, o) = OutAt(E, o) BY DEF Held
    <2> HIDE DEF t
    <2> QED BY <1>2, <2>1, <2>2, <2>3, <2>4
  <1> HIDE DEF t
  <1>5. ASSUME NEW j \in Keys PROVE RowOf(t, j).qty + TodoAt(<< >>, j) = LedgerAt(E \cup {e}, j)
    <2>1. RowOf(t, j).qty = RowOf(s, j).qty BY <1>2, <1>3 DEF RowOf
    <2>2. LedgerAt(E \cup {e}, j) = LedgerAt(E, j) + Share(e, j) /\ LedgerAt(E, j) \in Int BY LedgerGrows
    <2>3. Share(e, j) = 0 BY DEF Share, Effect, Reserving
    <2>4. RowOf(s, j).qty + TodoAt(<< >>, j) = LedgerAt(E, j) BY DEF Books
    <2> QED BY <2>1, <2>2, <2>3, <2>4
  <1>6. Even(t) BY <1>2, <1>3 DEF Held, Even
  <1> QED BY <1>4, <1>5, <1>6 DEF Books, Held, t, row

\* A reservation or a release, as saved
LEMMA ReservedStory ==
    ASSUME NEW r, Told(r), req[r].op \in {"reserve", "release"}, req[r].todo = << >>, FreeIds # {},
           NEW kind \in {"reservation", "release"}, NEW key \in Keys, key[1] = req[r].key[1], NEW n \in Int,
           stock' = [stock EXCEPT ![req[r].key] = Reserved(req[r].seen, n)],
           entries' = entries \cup {New(Entry(kind, key, -n, "approved", None))},
           UNCHANGED << invoices, bills >>, req'[r] = Idle
    PROVE  Story(stock', entries', invoices', bills', req'[r])
  <1> DEFINE x == req[r]
             e == New(Entry(kind, key, -n, "approved", None))
             s == stock  E == entries  I == invoices  B == bills
             t == [s EXCEPT ![x.key] = Reserved(s[x.key], n)]
  <1>1. Plain(x) BY DEF Plain
  <1>2. /\ Books(s, E, << >>) /\ Held(s, E) /\ Outgoing(E) /\ Docs(E, I, B) /\ RowsTyped(s) /\ EntriesTyped(E)
        /\ x.key \in DOMAIN s /\ x.seen = s[x.key]
    BY <1>1, PlainParts DEF Knows
  <1>3. kind \in AllKinds /\ None \in Refs /\ -n \in Int BY DEF AllKinds, Refs
  <1>4. /\ e \in EntryType /\ e \notin E /\ e.kind = kind /\ e.key = key /\ e.qty = -n /\ e.ref = None
    BY <1>2, <1>3, NewIs
  <1>5. stock' = t /\ entries' = E \cup {e} /\ invoices' = I /\ bills' = B BY <1>2
  <1>6. Reserving(e) /\ e.key[1] = x.key[1] BY <1>4 DEF Reserving
  <1> HIDE DEF e, s, E, I, B, x
  <1>7. Books(t, E \cup {e}, << >>) /\ Held(t, E \cup {e}) BY <1>2, <1>4, <1>6, ReserveBooks
  <1> HIDE DEF t
  <1>8. Outgoing(E \cup {e}) BY <1>2, <1>4 DEF Outgoing
  <1>9. Docs(E \cup {e}, I, B) BY <1>2, <1>4, DocsStay
  <1>10. Story(t, E \cup {e}, I, B, Idle) BY <1>7, <1>8, <1>9, IdleIsPlain, PlainStory, TodoOf
  <1> QED BY <1>5, <1>10

LEMMA ReserveStockStory ==
    ASSUME NEW r, Told(r), ReserveStock(r)
    PROVE  TypeInv' /\ Story(stock', entries', invoices', bills', req'[r])
  <1> DEFINE x == req[r]
             k == << x.key[1], Unbatched >>
             kind == "reservation"
  <1>1. /\ TypeInv' /\ x.op = "reserve" /\ x.todo = << >> /\ req'[r] = Idle
        /\ stock' = [stock EXCEPT ![x.key] = Reserved(x.seen, x.qty)]
        /\ FreeIds # {}
        /\ entries' = entries \cup {New(Entry(kind, k, -x.qty, "approved", None))}
        /\ UNCHANGED << invoices, bills >>
    BY ReserveStockTyped, ToldParts
  <1>2. k \in Keys /\ x.qty \in Int /\ k[1] = x.key[1] /\ kind \in {"reservation", "release"}
    BY <1>1, ReservingIs, ToldParts
  <1> HIDE DEF k, kind
  <1>3. Story(stock', entries', invoices', bills', req'[r]) BY <1>1, <1>2, ReservedStory
  <1> QED BY <1>1, <1>3

LEMMA ReleaseStockStory ==
    ASSUME NEW r, Told(r), ReleaseStock(r)
    PROVE  TypeInv' /\ Story(stock', entries', invoices', bills', req'[r])
  <1> DEFINE x == req[r]
             k == x.key
             n == -x.qty
             kind == "release"
  <1>1. /\ TypeInv' /\ x.op = "release" /\ x.todo = << >> /\ req'[r] = Idle
        /\ stock' = [stock EXCEPT ![x.key] = Reserved(x.seen, n)]
        /\ FreeIds # {}
        /\ entries' = entries \cup {New(Entry(kind, k, x.qty, "approved", None))}
        /\ UNCHANGED << invoices, bills >>
    BY ReleaseStockTyped, ToldParts
  <1>2. k \in Keys /\ n \in Int /\ x.qty = -n /\ k[1] = x.key[1] /\ kind \in {"reservation", "release"}
    <2>1. x.key \in Keys /\ x.qty \in Int BY <1>1, ReservingIs, ToldParts
    <2> QED BY <2>1
  <1> HIDE DEF n, kind, k
  <1>3. entries' = entries \cup {New(Entry(kind, k, -n, "approved", None))} BY <1>1, <1>2
  <1>4. Story(stock', entries', invoices', bills', req'[r]) BY <1>1, <1>2, <1>3, ReservedStory
  <1> QED BY <1>1, <1>4

-----------------------------------------------------------------------------
(* Edits and approvals *)

LEMMA LoadEntryStory ==
    ASSUME Sound, NEW r, Told(r), NEW op \in {"edit", "approve", "reject"}, NEW e \in entries, LoadEntry(r, op, e)
    PROVE  TypeInv' /\ Story(stock', entries', invoices', bills', req'[r])
  <1> DEFINE y == [op |-> op, seen |-> e, todo |-> << >>, got |-> NotRead]
  <1>1. TypeInv' /\ req'[r] = y BY LoadEntryTyped, ToldParts
  <1>2. /\ req[r] = Idle /\ UNCHANGED << stock, entries, invoices, bills >>
        /\ op \in {"approve", "reject"} => e.status = "pending"
        /\ op = "edit" => ~Reserving(e)
    BY DEF LoadEntry, Start, tables, Sound, Reserving
  <1>3. y.op = op /\ y.seen = e /\ y.todo = << >> /\ y.got = NotRead OBVIOUS
  <1> HIDE DEF y
  <1>4. Plain(y) /\ Knows(stock, entries, y) BY <1>2, <1>3 DEF Plain, Knows
  <1> QED BY <1>1, <1>2, <1>3, <1>4, IdleIsPlain, PlainGoes

LEMMA LoadPendingStory ==
    ASSUME NEW r, Told(r), LoadPending(r)
    PROVE  TypeInv' /\ Story(stock', entries', invoices', bills', req'[r])
  <1> DEFINE P == {e \in entries : e.status = "pending"}
             y == [op |-> "approve_all", list |-> P, refs |-> {}, todo |-> << >>, got |-> NotRead]
  <1>1. TypeInv' /\ req'[r] = y BY LoadPendingTyped, ToldParts
  <1>2. req[r] = Idle /\ UNCHANGED << stock, entries, invoices, bills >> BY DEF LoadPending, Start, tables
  <1>3. y.op = "approve_all" /\ y.list = P /\ y.refs = {} /\ y.todo = << >> /\ y.got = NotRead OBVIOUS
  <1> HIDE DEF y
  <1>4. Plain(y) /\ Knows(stock, entries, y) BY <1>3 DEF Plain, Knows
  <1> QED BY <1>1, <1>2, <1>3, <1>4, IdleIsPlain, PlainGoes

\* What an entry that is saved again leaves to do
LEMMA BooksSwap ==
    ASSUME NEW s, RowsTyped(s), NEW E, EntriesTyped(E), NEW e \in E, NEW f \in EntryType, f.id = e.id, NEW t,
           Books(s, E, << >>), \A k \in Keys : TodoAt(t, k) = Share(f, k) - Share(e, k)
    PROVE  Books(s, Swap(E, e, f), t)
  <1>1. ASSUME NEW k \in Keys PROVE RowOf(s, k).qty + TodoAt(t, k) = LedgerAt(Swap(E, e, f), k)
    <2>1. RowOf(s, k).qty + TodoAt(<< >>, k) = LedgerAt(E, k) BY DEF Books
    <2>2. LedgerAt(Swap(E, e, f), k) = LedgerAt(E, k) - Share(e, k) + Share(f, k)
      <3>1. /\ LedgerAt((E \ {e}) \cup {f}, k) = LedgerAt(E, k) - Share(e, k) + Share(f, k)
            /\ OutAt((E \ {e}) \cup {f}, k) = OutAt(E, k) - OutShare(e, k) + OutShare(f, k)
        BY LedgerSwaps
      <3> QED BY <3>1 DEF Swap
    <2>3. Share(e, k) \in Int /\ Share(f, k) \in Int BY ShareIs DEF EntriesTyped
    <2>4. RowOf(s, k).qty \in Int /\ TodoAt(<< >>, k) = 0 BY RowIs, TodoOf
    <2> QED BY <2>1, <2>2, <2>3, <2>4
  <1> QED BY <1>1 DEF Books

\* An edit puts the old quantity back and takes the new one.
LEMMA EditSum ==
    ASSUME NEW e \in EntryType, NEW f \in EntryType, f.status = e.status, f.kind = e.kind, ~Reserving(e),
           (f.qty < 0) = (e.qty < 0), e.kind \in {"sale", "transfer"} => e.qty < 0, NEW k
    PROVE  Short(EditMoves(e, f)) /\ TodoAt(EditMoves(e, f), k) = Share(f, k) - Share(e, k)
  <1>1. e.qty \in Int /\ f.qty \in Int /\ e.kind \in Kinds /\ e.key \in Keys /\ f.key \in Keys
    BY DEF EntryType, Reserving
  <1>2. CASE ~Approved(e) BY <1>2, TodoOf DEF EditMoves, Share, Approved
  <1>3. CASE Approved(e)
    <2> DEFINE m == Move(e.key, "adjustment", -e.qty)
               p == Move(f.key, "adjustment", f.qty)
    <2>1. EditMoves(e, f) = << m, p >> BY <1>3 DEF EditMoves
    <2>2. m \in MoveType /\ p \in MoveType BY <1>1 DEF Move, MoveType, AllKinds, Kinds
    <2>3. MoveAt(m, k) = (IF e.key = k THEN -e.qty ELSE 0) /\ MoveAt(p, k) = (IF f.key = k THEN f.qty ELSE 0)
      BY DEF MoveAt, Move, Effect
    <2> HIDE DEF m, p
    <2>4. Short(EditMoves(e, f)) /\ TodoAt(EditMoves(e, f), k) = MoveAt(m, k) + MoveAt(p, k)
      BY <2>1, <2>2, TodoOf
    <2>5. Effect(e.kind, e.qty) = e.qty /\ Effect(f.kind, f.qty) = f.qty BY <1>1 DEF Effect, Abs2, Kinds
    <2>6. Share(e, k) = (IF e.key = k THEN e.qty ELSE 0) /\ Share(f, k) = (IF f.key = k THEN f.qty ELSE 0)
      BY <1>3, <2>5 DEF Share, Approved
    <2> QED BY <1>1, <2>3, <2>4, <2>6
  <1> QED BY <1>2, <1>3

\* Documents whose entry is saved again
LEMMA DocsSwap ==
    ASSUME NEW E, NEW e \in E, NEW f, f.ref = e.ref, f.kind = e.kind, f.status = e.status, NEW I, NEW B, Docs(E, I, B)
    PROVE  Docs(Swap(E, e, f), I, B)
  <1>1. ASSUME NEW d \in Invoices \cup Bills
        PROVE  \/ Own(Swap(E, e, f), d) = Own(E, d)
               \/ Own(E, d) = {e} /\ Own(Swap(E, e, f), d) = {f}
    <2>1. Single(Own(E, d)) BY DEF Docs
    <2>2. CASE e.ref # d BY <2>2, OthersSwap
    <2>3. CASE d = e.ref
      <3>1. Exchanged(E, e, f, d) BY <2>1, <2>3, OwnSwaps
      <3> QED BY <3>1 DEF Exchanged
    <2> QED BY <2>2, <2>3
  <1>2. ASSUME NEW i \in Invoices
        PROVE  LET F == Own(Swap(E, e, f), i)
               IN  Single(F) /\ (\A x \in F : x.kind = "sale" /\ Approved(x)) /\ (F # {}) = Counts(I[i])
    BY <1>1 DEF Docs, Approved, Single
  <1>3. ASSUME NEW b \in Bills
        PROVE  LET F == Own(Swap(E, e, f), b)
               IN  /\ Single(F) /\ (\A x \in F : x.kind = "purchase")
                   /\ (B[b].doc # "live" => F = {})
                   /\ (B[b].doc = "live" => B[b].stock = StatusOf(F))
    <2>1. /\ Single(Own(E, b)) /\ (\A x \in Own(E, b) : x.kind = "purchase")
          /\ (B[b].doc # "live" => Own(E, b) = {})
          /\ (B[b].doc = "live" => B[b].stock = StatusOf(Own(E, b)))
      BY DEF Docs
    <2>2. CASE Own(Swap(E, e, f), b) = Own(E, b) BY <2>1, <2>2
    <2>3. CASE Own(E, b) = {e} /\ Own(Swap(E, e, f), b) = {f}
      <3>1. StatusOf({f}) = StatusOf({e}) BY StatusOne
      <3> QED BY <2>1, <2>3, <3>1 DEF Single
    <2> QED BY <1>1, <2>2, <2>3
  <1> QED BY <1>2, <1>3 DEF Docs

\* So does an entry exchanged for one that reserves as much.
LEMMA HeldSwap ==
    ASSUME NEW s, NEW E, EntriesTyped(E), NEW e \in E, NEW f \in EntryType, SameDocument(e, f),
           Reserving(e) => f.qty = e.qty, Held(s, E)
    PROVE  Held(s, Swap(E, e, f))
  BY OutSwaps DEF Held

LEMMA UpdateStockEntryStory ==
    ASSUME Sound, NEW r, Told(r), NEW q \in Signs, NEW b \in Lots, UpdateStockEntry(r, q, b)
    PROVE  TypeInv' /\ Story(stock', entries', invoices', bills', req'[r])
  <1> DEFINE x == req[r]
             e == x.seen
             f == Rekeyed(e, q, b)
             s == stock  E == entries  I == invoices  B == bills
             t == EditMoves(e, f)
             y == Rest(t)
  <1>1. /\ TypeInv' /\ x.op = "edit" /\ x.todo = << >> /\ entries' = Put(f) /\ req'[r] = y
        /\ stock' = s /\ invoices' = I /\ bills' = B
    BY UpdateStockEntryTyped, ToldParts
  <1>2. (f.qty < 0) = (e.qty < 0) BY <1>1, SeenIs, ToldParts, RekeyedIs DEF UpdateStockEntry, Sound
  <1>3. Plain(x) BY <1>1 DEF Plain
  <1>4. /\ Books(s, E, << >>) /\ Held(s, E) /\ Outgoing(E) /\ Docs(E, I, B) /\ RowsTyped(s) /\ EntriesTyped(E)
        /\ e \in E /\ ~Reserving(e)
    BY <1>1, <1>3, PlainParts DEF Knows
  <1>5. /\ f \in EntryType /\ f.id = e.id /\ f.kind = e.kind /\ f.status = e.status /\ f.ref = e.ref
        /\ f.key[1] = e.key[1] /\ e \in EntryType
    <2>1. e \in EntryType BY <1>1, SeenIs, ToldParts
    <2> QED BY <2>1, RekeyedIs
  <1> HIDE DEF f, e
  <1>6. entries' = Swap(E, e, f) BY <1>1, <1>4, <1>5, PutIs
  <1> HIDE DEF s, E, I, B, x
  <1>7. e.kind \in {"sale", "transfer"} => e.qty < 0 BY <1>4 DEF Outgoing
  <1>8. \A k \in Keys : TodoAt(t, k) = Share(f, k) - Share(e, k) BY <1>2, <1>4, <1>5, <1>7, EditSum
  <1>9. Short(t) BY <1>2, <1>4, <1>5, <1>7, EditSum
  <1> HIDE DEF t
  <1>10. Books(s, Swap(E, e, f), t) BY <1>4, <1>5, <1>8, BooksSwap
  <1>11. Held(s, Swap(E, e, f)) BY <1>4, <1>5, HeldSwap DEF SameDocument
  <1>12. Docs(Swap(E, e, f), I, B) BY <1>4, <1>5, DocsSwap
  <1>13. Outgoing(Swap(E, e, f)) BY <1>2, <1>4, <1>5, <1>7 DEF Outgoing, Swap
  <1>14. Plain(y) /\ y.todo = t /\ Knows(s, Swap(E, e, f), y) BY RestPlain
  <1> HIDE DEF y
  <1>15. Story(s, Swap(E, e, f), I, B, y) BY <1>9, <1>10, <1>11, <1>12, <1>13, <1>14, PlainStory
  <1> QED BY <1>1, <1>6, <1>15

-----------------------------------------------------------------------------
(* Pending entries that are decided *)

Deciding(x) == x.op \in {"approve", "reject", "approve_all"}

\* A request that decides is neither selling nor undoing a sale.
LEMMA DecidingDocs ==
    ASSUME NEW E, NEW e \in E, e.status = "pending", NEW f, f.ref = e.ref, f.kind = e.kind,
           NEW I, NEW B, NEW x, NEW y, Deciding(x), y.op \in {"sync", "approve_all"},
           Syncing(y, e.ref), \A b : Syncing(x, b) => Syncing(y, b),
           \A i \in Invoices : SaleOf(E, I, x, i), \A b \in Bills : BillOf(E, B, x, b)
    PROVE  /\ \A i \in Invoices : SaleOf(Swap(E, e, f), I, y, i)
           /\ \A b \in Bills : BillOf(Swap(E, e, f), B, y, b)
  <1> DEFINE F == Swap(E, e, f)
  <1>1. ASSUME NEW i \in Invoices PROVE SaleOf(F, I, y, i)
    <2>1. SaleOf(E, I, x, i) /\ ~Selling(x, i) /\ ~Unselling(x, i) /\ ~Selling(y, i) /\ ~Unselling(y, i)
      BY DEF Selling, Unselling, Deciding
    <2>2. e.ref # i BY <2>1 DEF Own, SaleOf, Approved
    <2>3. Own(F, i) = Own(E, i) BY <2>2, OthersSwap
    <2> HIDE DEF F
    <2> QED BY <2>1, <2>3 DEF SaleOf
  <1>2. ASSUME NEW b \in Bills PROVE BillOf(F, B, y, b)
    <2>1. BillOf(E, B, x, b) OBVIOUS
    <2>2. CASE e.ref # b BY <2>2, OthersSwap, <2>1 DEF BillOf
    <2>3. CASE b = e.ref
      <3>1. Single(Own(E, b)) BY <2>1 DEF BillOf
      <3>2. Exchanged(E, e, f, b) BY <2>3, <3>1, OwnSwaps
      <3>3. Own(E, b) = {e} /\ Own(F, b) = {f} BY <3>2 DEF Exchanged
      <3>4. e.kind = "purchase" /\ B[b].doc = "live" BY <2>1, <3>3 DEF BillOf
      <3>5. Syncing(y, b) BY <2>3
      <3> HIDE DEF F
      <3> QED BY <3>3, <3>4, <3>5 DEF BillOf, Single
    <2> QED BY <2>2, <2>3
  <1> QED BY <1>1, <1>2

\* A pending entry that becomes approved or rejected, and what that leaves to do
LEMMA DecidedStory ==
    ASSUME NEW r, Told(r), Deciding(req[r]), req[r].todo = << >>,
           NEW e \in entries, e.status = "pending", NEW st \in {"approved", "rejected"},
           NEW y, y.op \in {"sync", "approve_all"}, y.got = NotRead,
           Syncing(y, e.ref), \A b : Syncing(req[r], b) => Syncing(y, b),
           st = "approved" => y.todo = << Move(e.key, e.kind, e.qty) >>,
           st = "rejected" => y.todo = << >>,
           y.op = "approve_all" => req[r].op = "approve_all" /\ y.list = req[r].list \ {e},
           entries' = Put(Marked(e, st)), UNCHANGED << stock, invoices, bills >>, req'[r] = y
    PROVE  Story(stock', entries', invoices', bills', req'[r])
  <1> DEFINE x == req[r]
             f == Marked(e, st)
             s == stock  E == entries  I == invoices  B == bills
             F == Swap(E, e, f)
             t == y.todo
             m == Move(e.key, e.kind, e.qty)
  <1>1. /\ TypeInv /\ Books(s, Kept(E, x), x.todo) /\ Held(s, E) /\ Outgoing(E)
        /\ \A i \in Invoices : SaleOf(E, I, x, i)
        /\ \A b \in Bills : BillOf(E, B, x, b)
        /\ Knows(s, E, x) /\ RowsTyped(s) /\ EntriesTyped(E) /\ e \in EntryType
    BY ToldParts, TypeParts
  <1>2. /\ f \in EntryType /\ f.id = e.id /\ f.kind = e.kind /\ f.key = e.key
        /\ f.qty = e.qty /\ f.ref = e.ref /\ f.status = st
    BY <1>1, MarkedIs
  <1>3. Kept(E, x) = E BY DEF Kept, Dropping, Deciding
  <1>4. m \in MoveType BY <1>1 DEF EntryType, Move, MoveType, AllKinds
  <1>5. entries' = F /\ stock' = s /\ invoices' = I /\ bills' = B BY <1>1, <1>2, PutIs
  <1>6. Short(t) /\ \A k \in Keys : TodoAt(t, k) = Share(f, k) - Share(e, k)
    <2>1. \A k \in Keys : Share(e, k) = 0 BY DEF Share, Approved
    <2>2. CASE st = "approved"
      <3>1. t = << m >> BY <2>2
      <3>2. \A k \in Keys : Share(f, k) = MoveAt(m, k) BY <1>2, <2>2 DEF Share, Approved, MoveAt, Move
      <3>3. \A k \in Keys : Share(f, k) \in Int BY <1>2, ShareIs
      <3> HIDE DEF t, m
      <3>4. Short(t) /\ \A k \in Keys : TodoAt(t, k) = MoveAt(m, k) BY <1>4, <3>1, TodoOf
      <3> HIDE DEF f
      <3> QED BY <2>1, <3>2, <3>3, <3>4
    <2>3. CASE st = "rejected" BY <2>3, <1>2, TodoOf, <2>1 DEF Share, Approved
    <2> QED BY <2>2, <2>3
  <1> HIDE DEF f, t, m
  <1>7. Books(s, F, t) BY <1>1, <1>2, <1>3, <1>6, BooksSwap
  <1>8. Held(s, F) BY <1>1, <1>2, HeldSwap DEF SameDocument
  <1>9. Outgoing(F) BY <1>1, <1>2 DEF Outgoing, Swap
  <1>10. /\ \A i \in Invoices : SaleOf(F, I, y, i)
         /\ \A b \in Bills : BillOf(F, B, y, b)
    BY <1>1, <1>2, DecidingDocs
  <1>11. Kept(F, y) = F BY DEF Kept, Dropping
  <1>12. Knows(s, F, y) BY <1>1 DEF Knows, Swap
  <1> HIDE DEF F
  <1>13. Story(s, F, I, B, y) BY <1>6, <1>7, <1>8, <1>9, <1>10, <1>11, <1>12 DEF Story, t
  <1> QED BY <1>5, <1>13

LEMMA ApproveStockEntryStory ==
    ASSUME NEW r, Told(r), ApproveStockEntry(r)
    PROVE  TypeInv' /\ Story(stock', entries', invoices', bills', req'[r])
  <1> DEFINE x == req[r]
             e == x.seen
             m == << Move(e.key, e.kind, e.qty) >>
             y == [op |-> "sync", ref |-> e.ref, todo |-> m, got |-> NotRead]
             st == "approved"
  <1>1. /\ TypeInv' /\ x.op = "approve" /\ x.todo = << >> /\ entries' = Put(Marked(e, st)) /\ req'[r] = y
        /\ UNCHANGED << stock, invoices, bills >>
    BY ApproveStockEntryTyped, ToldParts
  <1>2. e \in entries /\ e.status = "pending" BY <1>1, ToldParts DEF Knows
  <1>3. y.op = "sync" /\ y.got = NotRead /\ y.todo = m /\ Syncing(y, e.ref) BY DEF Syncing
  <1>4. Deciding(x) /\ \A b : ~Syncing(x, b) BY <1>1 DEF Deciding, Syncing
  <1>5. st \in {"approved", "rejected"} /\ st # "rejected" OBVIOUS
  <1> HIDE DEF y, st, x
  <1>6. Story(stock', entries', invoices', bills', req'[r]) BY <1>1, <1>2, <1>3, <1>4, <1>5, DecidedStory DEF x
  <1> QED BY <1>1, <1>6

LEMMA RejectStockEntryStory ==
    ASSUME NEW r, Told(r), RejectStockEntry(r)
    PROVE  TypeInv' /\ Story(stock', entries', invoices', bills', req'[r])
  <1> DEFINE x == req[r]
             e == x.seen
             y == [op |-> "sync", ref |-> e.ref, todo |-> << >>, got |-> NotRead]
             st == "rejected"
  <1>1. /\ TypeInv' /\ x.op = "reject" /\ x.todo = << >> /\ entries' = Put(Marked(e, st)) /\ req'[r] = y
        /\ UNCHANGED << stock, invoices, bills >>
    BY RejectStockEntryTyped, ToldParts
  <1>2. e \in entries /\ e.status = "pending" BY <1>1, ToldParts DEF Knows
  <1>3. y.op = "sync" /\ y.got = NotRead /\ y.todo = << >> /\ Syncing(y, e.ref) BY DEF Syncing
  <1>4. Deciding(x) /\ \A b : ~Syncing(x, b) BY <1>1 DEF Deciding, Syncing
  <1>5. st \in {"approved", "rejected"} /\ st # "approved" OBVIOUS
  <1> HIDE DEF y, st, x
  <1>6. Story(stock', entries', invoices', bills', req'[r]) BY <1>1, <1>2, <1>3, <1>4, <1>5, DecidedStory DEF x
  <1> QED BY <1>1, <1>6

LEMMA ApproveNextStory ==
    ASSUME NEW r, Told(r), ApproveNext(r)
    PROVE  TypeInv' /\ Story(stock', entries', invoices', bills', req'[r])
  <1> DEFINE x == req[r]
             e == Earliest(x.list)
             m == << Move(e.key, e.kind, e.qty) >>
             y == [op |-> "approve_all", list |-> x.list \ {e}, refs |-> x.refs \cup {e.ref}, todo |-> m,
                   got |-> NotRead]
             st == "approved"
  <1>1. /\ TypeInv' /\ x \in AllType /\ x.todo = << >> /\ e \in x.list /\ entries' = Put(Marked(e, st))
        /\ req'[r] = y /\ UNCHANGED << stock, invoices, bills >>
    BY ApproveNextTyped, ToldParts
  <1>2. x.op = "approve_all" BY <1>1 DEF AllType
  <1>3. e \in entries /\ e.status = "pending" BY <1>1, <1>2, ToldParts DEF Knows
  <1>4. /\ y.op = "approve_all" /\ y.got = NotRead /\ y.todo = m /\ y.list = x.list \ {e}
        /\ y.refs = x.refs \cup {e.ref}
    OBVIOUS
  <1>5. st \in {"approved", "rejected"} /\ st # "rejected" OBVIOUS
  <1> HIDE DEF y, st, x, e
  <1>6. Deciding(x) /\ Syncing(y, e.ref) /\ \A b : Syncing(x, b) => Syncing(y, b)
    BY <1>2, <1>4 DEF Deciding, Syncing
  <1>7. Story(stock', entries', invoices', bills', req'[r])
    BY <1>1, <1>2, <1>3, <1>4, <1>5, <1>6, DecidedStory DEF x
  <1> QED BY <1>1, <1>7

-----------------------------------------------------------------------------
(* The stock status of bills *)

\* Once the statuses are set nothing is left to do.
LEMMA SyncedStory ==
    ASSUME NEW r, Told(r), req[r].op \in {"sync", "approve_all"}, req[r].todo = << >>,
           UNCHANGED << stock, entries, invoices >>, req'[r] = Idle,
           \A b \in Bills : /\ bills'[b].doc = bills[b].doc
                            /\ Syncing(req[r], b) /\ bills[b].doc = "live" => bills'[b].stock = StatusOf(Own(entries, b))
                            /\ ~Syncing(req[r], b) => bills'[b] = bills[b]
    PROVE  Story(stock', entries', invoices', bills', req'[r])
  <1> DEFINE x == req[r]
             s == stock  E == entries  I == invoices  B == bills  C == bills'
  <1>1. /\ Books(s, Kept(E, x), x.todo) /\ Held(s, E) /\ Outgoing(E)
        /\ \A i \in Invoices : SaleOf(E, I, x, i)
        /\ \A b \in Bills : BillOf(E, B, x, b)
    BY ToldParts
  <1>2. Kept(E, x) = E /\ \A i : ~Selling(x, i) /\ ~Unselling(x, i) BY DEF Kept, Dropping, Selling, Unselling
  <1>3. \A b \in Bills : /\ C[b].doc = B[b].doc
                         /\ Syncing(x, b) /\ B[b].doc = "live" => C[b].stock = StatusOf(Own(E, b))
                         /\ ~Syncing(x, b) => C[b] = B[b]
    OBVIOUS
  <1>4. x.todo = << >> OBVIOUS
  <1> HIDE DEF x, s, E, I, B, C
  <1>5. Docs(E, I, C) BY <1>1, <1>2, <1>3 DEF SaleOf, BillOf, Docs
  <1>6. Story(s, E, I, C, Idle) BY <1>1, <1>2, <1>4, <1>5, IdleIsPlain, PlainStory, TodoOf
  <1> QED BY <1>6 DEF s, E, I, C

LEMMA SyncStory ==
    ASSUME NEW r, Told(r), Sync(r)
    PROVE  TypeInv' /\ Story(stock', entries', invoices', bills', req'[r])
  <1> DEFINE x == req[r]
  <1>1. /\ TypeInv' /\ x.op = "sync" /\ x.todo = << >> /\ req'[r] = Idle
        /\ bills' = Synced(bills, x.ref, EntriesOf(x.ref))
        /\ UNCHANGED << stock, entries, invoices >>
    BY SyncTyped, ToldParts
  <1>2. EntriesOf(x.ref) \subseteq EntryType /\ BillsTyped(bills) /\ EntriesOf(x.ref) = Own(entries, x.ref)
    BY EntriesOfTyped, ToldParts, TypeParts DEF EntriesOf, Own
  <1>3. /\ \A c \in Bills : c # x.ref => bills'[c] = bills[c]
        /\ \A c \in Bills : bills'[c].doc = bills[c].doc
        /\ x.ref \in Bills /\ bills[x.ref].doc = "live" => bills'[x.ref].stock = StatusOf(EntriesOf(x.ref))
    BY <1>1, <1>2, SyncedIs
  <1>4. \A b : Syncing(x, b) <=> b = x.ref BY <1>1 DEF Syncing
  <1>5. \A b \in Bills : /\ bills'[b].doc = bills[b].doc
                         /\ Syncing(x, b) /\ bills[b].doc = "live" => bills'[b].stock = StatusOf(Own(entries, b))
                         /\ ~Syncing(x, b) => bills'[b] = bills[b]
    BY <1>2, <1>3, <1>4
  <1>6. Story(stock', entries', invoices', bills', req'[r]) BY <1>1, <1>5, SyncedStory
  <1> QED BY <1>1, <1>6

LEMMA SyncAllStory ==
    ASSUME NEW r, Told(r), SyncAll(r)
    PROVE  TypeInv' /\ Story(stock', entries', invoices', bills', req'[r])
  <1> DEFINE x == req[r]
  <1>1. /\ TypeInv' /\ x.op = "approve_all" /\ x.todo = << >> /\ req'[r] = Idle
        /\ bills' = [b \in Bills |-> IF b \in x.refs THEN Synced(bills, b, EntriesOf(b))[b] ELSE bills[b]]
        /\ UNCHANGED << stock, entries, invoices >>
    BY SyncAllTyped, ToldParts
  <1>2. BillsTyped(bills) /\ \A b \in Bills : EntriesOf(b) \subseteq EntryType /\ EntriesOf(b) = Own(entries, b)
    BY EntriesOfTyped, ToldParts, TypeParts DEF EntriesOf, Own
  <1>3. \A b \in Bills : /\ Synced(bills, b, EntriesOf(b))[b].doc = bills[b].doc
                         /\ bills[b].doc = "live" => Synced(bills, b, EntriesOf(b))[b].stock = StatusOf(EntriesOf(b))
    BY <1>2, SyncedIs
  <1>4. \A b : Syncing(x, b) <=> b \in x.refs BY <1>1 DEF Syncing
  <1>5. \A b \in Bills : /\ bills'[b].doc = bills[b].doc
                         /\ Syncing(x, b) /\ bills[b].doc = "live" => bills'[b].stock = StatusOf(Own(entries, b))
                         /\ ~Syncing(x, b) => bills'[b] = bills[b]
    BY <1>1, <1>2, <1>3, <1>4
  <1>6. Story(stock', entries', invoices', bills', req'[r]) BY <1>1, <1>5, SyncedStory
  <1> QED BY <1>1, <1>6

-----------------------------------------------------------------------------
(* Sales *)

\* Bills do not notice what becomes of invoices.
LEMMA BillsStay ==
    ASSUME NEW E, NEW F, NEW B, NEW x, x.op \notin {"sync", "approve_all"}, NEW y,
           \A b \in Bills : BillOf(E, B, x, b), \A b \in Bills : Own(F, b) = Own(E, b)
    PROVE  \A b \in Bills : BillOf(F, B, y, b)
  <1>1. \A b : ~Syncing(x, b) BY DEF Syncing
  <1> QED BY <1>1 DEF BillOf

\* Putting back the one entry a document may have
LEMMA UndoneBooks ==
    ASSUME NEW s, RowsTyped(s), NEW E, EntriesTyped(E), NEW d, Single(Own(E, d)),
           \A e \in Own(E, d) : e.kind \in {"sale", "purchase"}, Outgoing(E), Books(s, E, << >>)
    PROVE  Short(Undone(Own(E, d))) /\ Books(s, E \ Own(E, d), Undone(Own(E, d)))
  <1> DEFINE S == Own(E, d)
             t == Undone(S)
             F == E \ S
  <1>0. \A k \in Keys : RowOf(s, k).qty + TodoAt(<< >>, k) = LedgerAt(E, k) /\ RowOf(s, k).qty \in Int
                        /\ TodoAt(<< >>, k) = 0
    BY RowIs, TodoOf DEF Books
  <1>1. CASE S = {} BY <1>1, UndoneIs, TodoOf DEF t, F, S
  <1>2. CASE S # {}
    <2>1. PICK e \in S : TRUE BY <1>2
    <2>2. e \in E /\ e \in EntryType /\ e.kind \in {"sale", "purchase"} BY DEF Own, EntriesTyped
    <2>3. e.qty \in Int /\ e.key \in Keys BY <2>2 DEF EntryType
    <2>4. ASSUME NEW k \in Keys PROVE LedgerAt(F, k) = LedgerAt(E, k) - Share(e, k) /\ LedgerAt(E, k) \in Int
      <3>1. /\ LedgerAt(E \ Own(E, d), k) = LedgerAt(E, k) - Share(e, k) /\ LedgerAt(E, k) \in Int
            /\ OutAt(E \ Own(E, d), k) = OutAt(E, k) - OutShare(e, k) /\ OutAt(E, k) \in Int
        BY LedgerDrops
      <3> QED BY <3>1
    <2>5. CASE Approved(e)
      <3>1. t = Back(e) BY <2>5, UndoneIs
      <3> DEFINE m == Move(e.key, "adjustment", -e.qty)
      <3>2. m \in MoveType BY <2>3 DEF Move, MoveType, AllKinds, Kinds
      <3>3. t = << m >> BY <3>1 DEF Back
      <3>4. \A k \in Keys : MoveAt(m, k) = IF e.key = k THEN -e.qty ELSE 0 BY DEF MoveAt, Move, Effect
      <3>5. Effect(e.kind, e.qty) = e.qty BY <2>2, <2>3 DEF Effect, Abs2, Outgoing
      <3>6. \A k \in Keys : Share(e, k) = IF e.key = k THEN e.qty ELSE 0 BY <2>5, <3>5 DEF Share
      <3> HIDE DEF t, m, F
      <3>7. Short(t) /\ \A k \in Keys : TodoAt(t, k) = MoveAt(m, k) BY <3>2, <3>3, TodoOf
      <3>8. ASSUME NEW k \in Keys PROVE RowOf(s, k).qty + TodoAt(t, k) = LedgerAt(F, k)
        BY <1>0, <2>3, <2>4, <3>4, <3>6, <3>7
      <3> QED BY <3>7, <3>8 DEF Books, t, F, S
    <2>6. CASE ~Approved(e)
      <3>1. t = << >> BY <2>1, <2>6, UndoneIs DEF Single
      <3>2. \A k \in Keys : Share(e, k) = 0 BY <2>6 DEF Share
      <3> HIDE DEF t, F
      <3>3. ASSUME NEW k \in Keys PROVE RowOf(s, k).qty + TodoAt(t, k) = LedgerAt(F, k)
        BY <1>0, <2>4, <3>1, <3>2
      <3>4. Short(t) BY <3>1, TodoOf
      <3> QED BY <3>3, <3>4 DEF Books, t, F, S
    <2> QED BY <2>5, <2>6
  <1> QED BY <1>1, <1>2

\* Dropping the entries of a document leaves the reservations.
LEMMA HeldDrop ==
    ASSUME NEW s, NEW E, EntriesTyped(E), NEW d, Single(Own(E, d)),
           \A e \in Own(E, d) : e.kind \in {"sale", "purchase"}, Held(s, E), Outgoing(E)
    PROVE  Held(s, E \ Own(E, d)) /\ Outgoing(E \ Own(E, d)) /\ EntriesTyped(E \ Own(E, d))
  <1>1. ASSUME NEW o \in Outlets PROVE OutAt(E \ Own(E, d), o) = OutAt(E, o)
    <2>1. CASE Own(E, d) = {}
      <3>1. E \ Own(E, d) = E BY <2>1
      <3> QED BY <3>1
    <2>2. CASE Own(E, d) # {} BY <2>2, LedgerDrops DEF OutShare, Reserving
    <2> QED BY <2>1, <2>2
  <1>2. Outgoing(E \ Own(E, d)) BY DEF Outgoing
  <1>3. EntriesTyped(E \ Own(E, d)) BY FewerEntries
  <1> QED BY <1>1, <1>2, <1>3 DEF Held

\* The entries a request leaves, by whether it drops some
LEMMA KeptIs ==
    ASSUME NEW E, NEW x
    PROVE  /\ Dropping(x) => Kept(E, x) = E \ Own(E, x.doc)
           /\ ~Dropping(x) => Kept(E, x) = E
  BY DEF Kept, Own

LEMMA CreateInvoiceStory ==
    ASSUME NEW r, Told(r), NEW i \in Invoices, NEW st \in Statuses, NEW q \in Quantities, NEW b \in Lots,
           CreateInvoice(r, i, st, q, b)
    PROVE  TypeInv' /\ Story(stock', entries', invoices', bills', req'[r])
  <1> DEFINE c == Check(i, q, b)
             n == Invoice(st, q, b)
             y == [op |-> "sell", doc |-> i, check |-> c, todo |-> << >>, got |-> NotRead]
             s == stock  E == entries  I == invoices  B == bills
             J == [I EXCEPT ![i] = n]
  <1>1. /\ TypeInv' /\ req[r] = Idle /\ I[i].doc = "unused" /\ invoices' = J /\ req'[r] = y
        /\ stock' = s /\ entries' = E /\ bills' = B
    BY CreateInvoiceTyped, ToldParts
  <1>2. /\ Books(s, E, << >>) /\ Held(s, E) /\ Outgoing(E) /\ Docs(E, I, B) BY <1>1, IdleIsPlain, PlainParts
  <1>3. y.op = "sell" /\ y.doc = i /\ y.todo = << >> /\ y.got = NotRead OBVIOUS
  <1>4. \A j \in Invoices : j # i => J[j] = I[j] BY ToldParts, TypeParts DEF InvoicesTyped
  <1> HIDE DEF y, J, s, E, I, B
  <1>5. Kept(E, y) = E BY <1>3, KeptIs DEF Dropping
  <1>6. ASSUME NEW j \in Invoices PROVE SaleOf(E, J, y, j)
    <2>1. Single(Own(E, j)) /\ (\A e \in Own(E, j) : e.kind = "sale" /\ Approved(e)) /\ (Own(E, j) # {}) = Counts(I[j])
      BY <1>2 DEF Docs
    <2>2. ~Unselling(y, j) /\ (Selling(y, j) <=> j = i) BY <1>3 DEF Unselling, Selling
    <2>3. j = i => Own(E, j) = {} BY <1>1, <2>1 DEF Counts
    <2> QED BY <1>4, <2>1, <2>2, <2>3 DEF SaleOf
  <1>7. \A d \in Bills : BillOf(E, B, y, d) BY <1>2 DEF Docs, BillOf
  <1>8. Knows(s, E, y) BY <1>3 DEF Knows
  <1>9. Story(s, E, J, B, y) BY <1>2, <1>3, <1>5, <1>6, <1>7, <1>8, TodoOf DEF Story
  <1> QED BY <1>1, <1>9

\* A request that is to undo a sale: what it is to put back
LEMMA UndoesStory ==
    ASSUME NEW r, Told(r), req[r] = Idle, NEW i \in Invoices, NEW y, y.op \in {"rewrite", "unsell", "erase"}, y.doc = i,
           y.todo = Undone(EntriesOf(i)), y.got = NotRead, UNCHANGED << stock, entries, bills >>, req'[r] = y,
           \A j \in Invoices : j # i \/ y.op # "unsell" => invoices'[j] = invoices[j],
           y.op = "unsell" => ~Counts(invoices'[i])
    PROVE  Story(stock', entries', invoices', bills', req'[r])
  <1> DEFINE s == stock  E == entries  I == invoices  B == bills  J == invoices'
             t == Undone(Own(E, i))
             F == E \ Own(E, i)
  <1>1. /\ Books(s, E, << >>) /\ Held(s, E) /\ Outgoing(E) /\ Docs(E, I, B) /\ RowsTyped(s) /\ EntriesTyped(E)
    BY IdleIsPlain, PlainParts
  <1>2. y.todo = t BY DEF EntriesOf, Own
  <1>3. \A j \in Invoices : Single(Own(E, j)) /\ (\A e \in Own(E, j) : e.kind = "sale" /\ Approved(e))
                            /\ (Own(E, j) # {}) = Counts(I[j])
    BY <1>1 DEF Docs
  <1>4. /\ \A j \in Invoices : j # i \/ y.op # "unsell" => J[j] = I[j]
        /\ y.op = "unsell" => ~Counts(J[i])
    OBVIOUS
  <1> HIDE DEF s, E, I, B, J
  <1>5. Short(t) /\ Books(s, F, t) BY <1>1, <1>3, UndoneBooks
  <1>6. Kept(E, y) = F BY KeptIs DEF Dropping
  <1> HIDE DEF t, F
  <1>7. ASSUME NEW j \in Invoices PROVE SaleOf(E, J, y, j)
    <2>1. ~Selling(y, j) /\ (Unselling(y, j) <=> y.op = "unsell" /\ j = i) BY DEF Selling, Unselling
    <2>2. CASE Unselling(y, j) BY <1>3, <1>4, <2>1, <2>2 DEF SaleOf
    <2>3. CASE ~Unselling(y, j)
      <3>1. J[j] = I[j] BY <1>4, <2>1, <2>3
      <3> QED BY <1>3, <2>1, <2>3, <3>1 DEF SaleOf
    <2> QED BY <2>2, <2>3
  <1>8. \A d \in Bills : BillOf(E, B, y, d) BY <1>1 DEF Docs, BillOf
  <1>9. Knows(s, E, y) BY DEF Knows
  <1>10. Story(s, E, J, B, y) BY <1>1, <1>2, <1>5, <1>6, <1>7, <1>8, <1>9 DEF Story
  <1> QED BY <1>10 DEF s, E, I, B, J

LEMMA LoadInvoiceStory ==
    ASSUME NEW r, Told(r), NEW i \in Invoices, NEW st \in Statuses, NEW q \in Quantities, NEW b \in Lots,
           LoadInvoice(r, i, st, q, b)
    PROVE  TypeInv' /\ Story(stock', entries', invoices', bills', req'[r])
  <1> DEFINE c == Check(i, q, b)
             n == Invoice(st, q, b)
             t == Undone(EntriesOf(i))
             y == [op |-> "rewrite", doc |-> i, new |-> n, check |-> c, todo |-> t, got |-> NotRead]
  <1>1. TypeInv' /\ req[r] = Idle /\ req'[r] = y /\ UNCHANGED << stock, entries, invoices, bills >>
    BY SinglesHold, LoadInvoiceTyped, ToldParts DEF tables
  <1>2. y.op = "rewrite" /\ y.doc = i /\ y.todo = t /\ y.got = NotRead OBVIOUS
  <1> HIDE DEF y
  <1>3. Story(stock', entries', invoices', bills', req'[r]) BY <1>1, <1>2, UndoesStory
  <1> QED BY <1>1, <1>3

LEMMA LoadDeleteStory ==
    ASSUME NEW r, Told(r), NEW i \in Invoices, LoadDelete(r, i)
    PROVE  TypeInv' /\ Story(stock', entries', invoices', bills', req'[r])
  <1> DEFINE t == Undone(EntriesOf(i))
             y == [op |-> "erase", doc |-> i, todo |-> t, got |-> NotRead]
  <1>1. TypeInv' /\ req[r] = Idle /\ req'[r] = y /\ UNCHANGED << stock, entries, invoices, bills >>
    BY SinglesHold, LoadDeleteTyped, ToldParts DEF tables
  <1>2. y.op = "erase" /\ y.doc = i /\ y.todo = t /\ y.got = NotRead OBVIOUS
  <1> HIDE DEF y
  <1>3. Story(stock', entries', invoices', bills', req'[r]) BY <1>1, <1>2, UndoesStory
  <1> QED BY <1>1, <1>3

LEMMA PatchStatusStory ==
    ASSUME Sound, NEW r, Told(r), NEW i \in Invoices, NEW st \in Statuses, PatchStatus(r, i, st)
    PROVE  TypeInv' /\ Story(stock', entries', invoices', bills', req'[r])
  <1> DEFINE old == invoices[i].st
             t == Undone(EntriesOf(i))
             x == [op |-> "unsell", doc |-> i, todo |-> t, got |-> NotRead]
             y == [op |-> "sell", doc |-> i, check |-> "none", todo |-> << >>, got |-> NotRead]
             s == stock  E == entries  I == invoices  B == bills
             J == [I EXCEPT ![i].st = st]
  <1>1. /\ TypeInv' /\ req[r] = Idle /\ I[i] \in InvoiceType /\ st # old
        /\ ((old = "draft" \/ st = "draft") => DraftPatches)
        /\ invoices' = J /\ stock' = s /\ entries' = E /\ bills' = B
        /\ st = "cancelled" => req'[r] = x
        /\ st # "cancelled" /\ old = "cancelled" => req'[r] = y
    BY SinglesHold, PatchStatusTyped, ToldParts
  <1>2. (\A j \in Invoices : j # i => J[j] = I[j]) /\ J[i] = [I[i] EXCEPT !.st = st]
    BY ToldParts, TypeParts DEF InvoicesTyped
  <1>3. J[i].st = st /\ old \in Statuses BY <1>1, <1>2 DEF InvoiceType
  <1> HIDE DEF J
  <1>4. CASE st = "cancelled"
    <2>1. x.op = "unsell" /\ x.doc = i /\ x.todo = t /\ x.got = NotRead OBVIOUS
    <2> HIDE DEF x
    <2>2. ~Counts(invoices'[i]) BY <1>1, <1>3, <1>4 DEF Counts
    <2>3. \A j \in Invoices : j # i \/ x.op # "unsell" => invoices'[j] = invoices[j] BY <1>1, <1>2, <2>1
    <2>4. Story(stock', entries', invoices', bills', req'[r]) BY <1>1, <1>4, <2>1, <2>2, <2>3, UndoesStory
    <2> QED BY <1>1, <2>4
  <1>5. CASE st # "cancelled"
    <2>1. old = "cancelled" /\ req'[r] = y BY <1>1, <1>3, <1>5 DEF Sound, Statuses
    <2>2. /\ Books(s, E, << >>) /\ Held(s, E) /\ Outgoing(E) /\ Docs(E, I, B) BY <1>1, IdleIsPlain, PlainParts
    <2>3. y.op = "sell" /\ y.doc = i /\ y.todo = << >> /\ y.got = NotRead OBVIOUS
    <2>4. ~Counts(I[i]) BY <2>1 DEF Counts
    <2> HIDE DEF y, s, E, I, B, x, old
    <2>5. Kept(E, y) = E BY <2>3, KeptIs DEF Dropping
    <2>6. ASSUME NEW j \in Invoices PROVE SaleOf(E, J, y, j)
      BY <2>2, <2>3, <1>2, <2>4 DEF Docs, Unselling, Selling, SaleOf
    <2>7. \A d \in Bills : BillOf(E, B, y, d) BY <2>2 DEF Docs, BillOf
    <2>8. Knows(s, E, y) BY <2>3 DEF Knows
    <2>9. Story(s, E, J, B, y) BY <2>2, <2>3, <2>5, <2>6, <2>7, <2>8, TodoOf DEF Story
    <2> QED BY <1>1, <2>1, <2>9
  <1> QED BY <1>4, <1>5

\* A rewrite goes on to its next phase with all it knows.
LEMMA NextOp ==
    ASSUME NEW x \in RewriteType, NEW op \in {"save", "sell"}
    PROVE  LET y == [x EXCEPT !.op = op] IN y.op = op /\ y.doc = x.doc /\ y.todo = x.todo /\ y.got = x.got
  BY DEF RewriteType

\* The entries a request has undone are dropped.
LEMMA DropEntriesStory ==
    ASSUME NEW r, Told(r), DropEntries(r)
    PROVE  TypeInv' /\ Story(stock', entries', invoices', bills', req'[r])
  <1> DEFINE x == req[r]
             i == x.doc
             s == stock  E == entries  I == invoices  B == bills
             F == E \ Own(E, i)
             z == req'[r]
  <1>1. /\ TypeInv' /\ x.op \in {"rewrite", "unsell"} /\ x.todo = << >> /\ entries' = E \ EntriesOf(i)
        /\ x.op = "unsell" => req'[r] = Idle
        /\ x.op = "rewrite" => req'[r] = [x EXCEPT !.op = "save"]
        /\ stock' = s /\ invoices' = I /\ bills' = B
    BY DropEntriesTyped, ToldParts
  <1>2. entries' = F BY <1>1 DEF EntriesOf, Own
  <1>3. /\ Books(s, Kept(E, x), x.todo) /\ Held(s, E) /\ Outgoing(E)
        /\ \A j \in Invoices : SaleOf(E, I, x, j)
        /\ \A b \in Bills : BillOf(E, B, x, b)
        /\ Knows(s, E, x) /\ EntriesTyped(E)
    BY ToldParts, TypeParts
  <1>4. i \in Invoices BY <1>1, DocIs, ToldParts
  <1>5. /\ z.todo = << >>
        /\ x.op = "unsell" => z = Idle
        /\ x.op = "rewrite" => z.op = "save" /\ z.doc = i /\ z.got = NotRead
    <2>1. CASE x.op = "unsell" BY <1>1, <2>1 DEF Idle
    <2>2. CASE x.op = "rewrite"
      <3>1. x \in RewriteType /\ x # Idle BY <2>2, RequestIs, ToldParts DEF Idle
      <3>2. x.got = NotRead BY <1>1, <1>3, <3>1 DEF Knows
      <3>3. z.op = "save" /\ z.doc = i /\ z.todo = x.todo /\ z.got = x.got BY <1>1, <2>2, <3>1, NextOp
      <3> QED BY <1>1, <2>2, <3>2, <3>3
    <2> QED BY <1>1, <2>1, <2>2
  <1> HIDE DEF x, i, s, E, I, B, z
  <1>6. Kept(E, x) = F BY <1>1, KeptIs DEF Dropping, i
  <1>7. Single(Own(E, i)) /\ \A e \in Own(E, i) : e.kind \in {"sale", "purchase"} BY <1>3, <1>4 DEF SaleOf
  <1>8. Held(s, F) /\ Outgoing(F) BY <1>3, <1>7, HeldDrop
  <1>9. Own(F, i) = {} /\ \A d \in Invoices \cup Bills : d # i => Own(F, d) = Own(E, d) BY OwnDrops
  <1>10. Kept(F, z) = F BY <1>1, <1>5, KeptIs DEF Dropping, Idle
  <1>11. Books(s, F, z.todo) BY <1>1, <1>3, <1>5, <1>6
  <1> HIDE DEF F
  <1>12. ASSUME NEW j \in Invoices PROVE SaleOf(F, I, z, j)
    <2>1. SaleOf(E, I, x, j) BY <1>3
    <2>2. (Selling(z, j) <=> x.op = "rewrite" /\ j = i) /\ ~Unselling(z, j)
      BY <1>1, <1>5 DEF Selling, Unselling, Idle
    <2>3. ~Selling(x, j) /\ (Unselling(x, j) <=> x.op = "unsell" /\ j = i) BY <1>1 DEF Selling, Unselling, i
    <2>4. CASE j = i
      <3>1. Single(Own(F, j)) /\ \A e \in Own(F, j) : e.kind = "sale" /\ Approved(e) BY <1>9, <2>4 DEF Single
      <3>2. Own(F, j) = {} BY <1>9, <2>4
      <3>3. CASE x.op = "rewrite" BY <2>2, <2>4, <3>1, <3>2, <3>3 DEF SaleOf
      <3>4. CASE x.op = "unsell" BY <2>1, <2>2, <2>3, <2>4, <3>1, <3>2, <3>4 DEF SaleOf, Counts
      <3> QED BY <1>1, <3>3, <3>4
    <2>5. CASE j # i BY <1>9, <2>1, <2>2, <2>3, <2>5 DEF SaleOf
    <2> QED BY <2>4, <2>5
  <1>13. \A b \in Bills : BillOf(F, B, z, b)
    <2>1. \A b \in Bills : Own(F, b) = Own(E, b) BY <1>4, <1>9, Assumed
    <2> QED BY <1>1, <1>3, <2>1, BillsStay
  <1>14. Knows(s, F, z) BY <1>1, <1>5 DEF Knows, Idle
  <1>15. Story(s, F, I, B, z) BY <1>5, <1>8, <1>10, <1>11, <1>12, <1>13, <1>14, TodoOf DEF Story
  <1> QED BY <1>1, <1>2, <1>15 DEF z

LEMMA SaveInvoiceStory ==
    ASSUME NEW r, Told(r), SaveInvoice(r)
    PROVE  TypeInv' /\ Story(stock', entries', invoices', bills', req'[r])
  <1> DEFINE x == req[r]
             i == x.doc
             s == stock  E == entries  I == invoices  B == bills
             J == [I EXCEPT ![i] = x.new]
             z == req'[r]
  <1>1. /\ TypeInv' /\ x.op = "save" /\ x.todo = << >> /\ invoices' = J
        /\ z = [x EXCEPT !.op = "sell"]
        /\ stock' = s /\ entries' = E /\ bills' = B
    BY SaveInvoiceTyped, ToldParts
  <1>2. /\ Books(s, Kept(E, x), x.todo) /\ Held(s, E) /\ Outgoing(E)
        /\ \A j \in Invoices : SaleOf(E, I, x, j)
        /\ \A b \in Bills : BillOf(E, B, x, b)
        /\ Knows(s, E, x)
    BY ToldParts
  <1>3. x \in RewriteType /\ x # Idle BY <1>1, RequestIs, ToldParts DEF Idle
  <1>4. z.op = "sell" /\ z.doc = i /\ z.todo = << >> /\ z.got = NotRead BY <1>1, <1>2, <1>3, NextOp DEF Knows
  <1>5. \A j \in Invoices : j # i => J[j] = I[j] BY ToldParts, TypeParts DEF InvoicesTyped
  <1> HIDE DEF x, i, s, E, I, B, J, z
  <1>6. Kept(E, x) = E /\ Kept(E, z) = E BY <1>1, <1>4, KeptIs DEF Dropping
  <1>7. ASSUME NEW j \in Invoices PROVE SaleOf(E, J, z, j)
    BY <1>2, <1>1, <1>4, <1>5 DEF Selling, Unselling, i, SaleOf
  <1>8. \A b \in Bills : BillOf(E, B, z, b) BY <1>1, <1>2, BillsStay
  <1>9. Knows(s, E, z) BY <1>4 DEF Knows
  <1>10. Story(s, E, J, B, z) BY <1>1, <1>2, <1>4, <1>6, <1>7, <1>8, <1>9, TodoOf DEF Story
  <1> QED BY <1>1, <1>10 DEF z

LEMMA DeleteInvoiceStory ==
    ASSUME NEW r, Told(r), DeleteInvoice(r)
    PROVE  TypeInv' /\ Story(stock', entries', invoices', bills', req'[r])
  <1> DEFINE x == req[r]
             i == x.doc
             s == stock  E == entries  I == invoices  B == bills
             F == E \ Own(E, i)
             J == [I EXCEPT ![i] = [doc |-> "deleted"]]
  <1>1. /\ TypeInv' /\ x.op = "erase" /\ x.todo = << >> /\ req'[r] = Idle
        /\ entries' = E \ EntriesOf(i) /\ invoices' = J
        /\ stock' = s /\ bills' = B
    BY DeleteInvoiceTyped, ToldParts
  <1>2. entries' = F BY <1>1 DEF EntriesOf, Own
  <1>3. /\ Books(s, Kept(E, x), x.todo) /\ Held(s, E) /\ Outgoing(E)
        /\ \A j \in Invoices : SaleOf(E, I, x, j)
        /\ \A b \in Bills : BillOf(E, B, x, b)
        /\ EntriesTyped(E)
    BY ToldParts, TypeParts
  <1>4. i \in Invoices BY <1>1, DocIs, ToldParts
  <1>5. ~Counts(J[i]) /\ \A j \in Invoices : j # i => J[j] = I[j]
    BY <1>4, ToldParts, TypeParts DEF InvoicesTyped, Counts
  <1> HIDE DEF x, i, s, E, I, B, J
  <1>6. Kept(E, x) = F BY <1>1, KeptIs DEF Dropping, i
  <1>7. Single(Own(E, i)) /\ \A e \in Own(E, i) : e.kind \in {"sale", "purchase"} BY <1>3, <1>4 DEF SaleOf
  <1>8. Held(s, F) /\ Outgoing(F) BY <1>3, <1>7, HeldDrop
  <1>9. Own(F, i) = {} /\ \A d \in Invoices \cup Bills : d # i => Own(F, d) = Own(E, d) BY OwnDrops
  <1>10. Kept(F, Idle) = F /\ Idle.todo = << >> BY KeptIs DEF Dropping, Idle
  <1>11. Books(s, F, Idle.todo) BY <1>1, <1>3, <1>6, <1>10
  <1> HIDE DEF F
  <1>12. ASSUME NEW j \in Invoices PROVE SaleOf(F, J, Idle, j)
    <2>1. SaleOf(E, I, x, j) BY <1>3
    <2>2. ~Selling(Idle, j) /\ ~Unselling(Idle, j) /\ ~Selling(x, j) /\ ~Unselling(x, j)
      BY <1>1 DEF Selling, Unselling, Idle
    <2>3. CASE j = i BY <1>5, <1>9, <2>1, <2>2, <2>3 DEF SaleOf, Single, Counts
    <2>4. CASE j # i BY <1>5, <1>9, <2>1, <2>2, <2>4 DEF SaleOf
    <2> QED BY <2>3, <2>4
  <1>13. \A b \in Bills : BillOf(F, B, Idle, b)
    <2>1. \A b \in Bills : Own(F, b) = Own(E, b) BY <1>4, <1>9, Assumed
    <2> QED BY <1>1, <1>3, <2>1, BillsStay
  <1>14. Story(s, F, J, B, Idle) BY <1>8, <1>10, <1>11, <1>12, <1>13, IdleIsPlain, TodoOf DEF Story
  <1> QED BY <1>1, <1>2, <1>14

\* An update or a deletion that stops half-way has undone nothing that counted.
LEMMA RefuseStory ==
    ASSUME Sound, NEW r, Told(r), Refuse(r)
    PROVE  TypeInv' /\ Story(stock', entries', invoices', bills', req'[r])
  <1> DEFINE x == req[r]
             i == x.doc
             s == stock  E == entries  I == invoices  B == bills
  <1>1. /\ TypeInv' /\ x.op \in {"save", "erase"} /\ x.todo = << >> /\ req'[r] = Idle
        /\ I[i].st \in Refusable
        /\ stock' = s /\ entries' = E /\ invoices' = I /\ bills' = B
    BY RefuseTyped, ToldParts DEF tables
  <1>2. ~Counts(I[i]) BY <1>1 DEF Sound, Counts
  <1>3. /\ Books(s, Kept(E, x), x.todo) /\ Held(s, E) /\ Outgoing(E)
        /\ \A j \in Invoices : SaleOf(E, I, x, j)
        /\ \A b \in Bills : BillOf(E, B, x, b)
    BY ToldParts, TypeParts
  <1>4. i \in Invoices BY <1>1, DocIs, ToldParts
  <1> HIDE DEF x, i, s, E, I, B
  <1>5. Own(E, i) = {} BY <1>1, <1>3, <1>4, <1>2 DEF Unselling, SaleOf
  <1>6. Kept(E, x) = E
    <2>1. E \ Own(E, i) = E BY <1>5
    <2> QED BY <2>1, KeptIs DEF i
  <1>7. Kept(E, Idle) = E /\ Idle.todo = << >> BY KeptIs DEF Dropping, Idle
  <1>8. ASSUME NEW j \in Invoices PROVE SaleOf(E, I, Idle, j)
    <2>1. SaleOf(E, I, x, j) BY <1>3
    <2>2. ~Selling(Idle, j) /\ ~Unselling(Idle, j) /\ (j # i => ~Selling(x, j)) /\ ~Unselling(x, j)
      BY <1>1 DEF Selling, Unselling, Idle, i
    <2>3. CASE j = i BY <1>2, <1>5, <2>1, <2>2, <2>3 DEF SaleOf, Single, Counts
    <2>4. CASE j # i BY <2>1, <2>2, <2>4 DEF SaleOf
    <2> QED BY <2>3, <2>4
  <1>9. \A b \in Bills : BillOf(E, B, Idle, b) BY <1>1, <1>3, BillsStay
  <1>10. Story(s, E, I, B, Idle) BY <1>1, <1>3, <1>6, <1>7, <1>8, <1>9, IdleIsPlain, TodoOf DEF Story
  <1> QED BY <1>1, <1>10

\* What a sale takes is what its entry says, whichever sign either has.
LEMMA SaleEffect ==
    ASSUME NEW q \in Int
    PROVE  Effect("sale", -q) = Effect("sale", q)
  BY DEF Effect, Abs2

\* The sale of an invoice that counts is all there is of it.
LEMMA SellStory ==
    ASSUME NEW r, Told(r), Sell(r)
    PROVE  TypeInv' /\ Story(stock', entries', invoices', bills', req'[r])
  <1> DEFINE x == req[r]
             i == x.doc
             line == invoices[i]
             s == stock  E == entries  I == invoices  B == bills
  <1>1. TypeInv' /\ x.op = "sell" /\ x.todo = << >> /\ stock' = s /\ bills' = B BY SellTyped, ToldParts
  <1>2. i \in Invoices BY <1>1, DocIs, ToldParts
  <1>3. /\ Books(s, Kept(E, x), x.todo) /\ Held(s, E) /\ Outgoing(E)
        /\ \A j \in Invoices : SaleOf(E, I, x, j)
        /\ \A b \in Bills : BillOf(E, B, x, b)
        /\ RowsTyped(s) /\ EntriesTyped(E)
    BY ToldParts, TypeParts
  <1>4. /\ Kept(E, x) = E /\ Single(Own(E, i)) /\ Own(E, i) = {}
        /\ \A j \in Invoices : (Selling(x, j) <=> j = i) /\ ~Unselling(x, j)
    BY <1>1, KeptIs, <1>2, <1>3 DEF Dropping, Selling, Unselling, SaleOf
  <1>5. Books(s, E, << >>) BY <1>1, <1>3, <1>4
  <1>6. ASSUME NEW j \in Invoices, j # i
        PROVE  Single(Own(E, j)) /\ (\A e \in Own(E, j) : e.kind = "sale" /\ Approved(e)) /\ (Own(E, j) # {}) = Counts(I[j])
    BY <1>3, <1>4, <1>6 DEF SaleOf
  <1>7. CASE ~Counts(line)
    <2>1. req'[r] = Idle /\ entries' = E /\ invoices' = I BY <1>7, SellTyped, ToldParts
    <2> HIDE DEF x, i, s, E, I, B
    <2>2. ASSUME NEW j \in Invoices PROVE SaleOf(E, I, Idle, j)
      <3>1. ~Selling(Idle, j) /\ ~Unselling(Idle, j) BY DEF Selling, Unselling, Idle
      <3>2. CASE j = i BY <1>4, <1>7, <3>1, <3>2 DEF SaleOf, I, Counts
      <3>3. CASE j # i BY <1>6, <3>1, <3>3 DEF SaleOf
      <3> QED BY <3>2, <3>3
    <2>3. \A b \in Bills : BillOf(E, B, Idle, b) BY <1>1, <1>3, BillsStay
    <2>4. Kept(E, Idle) = E BY KeptIs DEF Dropping, Idle
    <2>5. Story(s, E, I, B, Idle) BY <1>3, <1>5, <2>2, <2>3, <2>4, IdleIsPlain, TodoOf DEF Story
    <2> QED BY <1>1, <2>1, <2>5
  <1>8. CASE Counts(line)
    <2>1. PICK key \in SaleKeys(line.qty, line.batch) :
            /\ key \in Keys /\ (line.batch # Unbatched => key[2] = line.batch)
            /\ entries' = entries \cup {New(Entry("sale", key, -line.qty, "approved", i))}
            /\ invoices' = [invoices EXCEPT ![i].batch = key[2]]
            /\ req'[r] = [op |-> "sold", todo |-> << Move(key, "sale", line.qty) >>,
                          check |-> x.check, batch |-> line.batch, got |-> NotRead]
      BY <1>8, SellTyped, ToldParts
    <2>2. FreeIds # {} /\ line \in InvoiceType BY <1>8, SellTyped, ToldParts
    <2> DEFINE q == line.qty
               e == New(Entry("sale", key, -q, "approved", i))
               m == Move(key, "sale", q)
               y == [op |-> "sold", todo |-> << m >>, check |-> x.check, batch |-> line.batch, got |-> NotRead]
               J == [I EXCEPT ![i].batch = key[2]]
    <2>3. q \in Int /\ -q \in Int /\ -q < 0 BY <2>2, SignIs DEF InvoiceType
    <2>4. "sale" \in AllKinds /\ i \in Refs BY <1>2 DEF AllKinds, Kinds, Refs
    <2>5. entries' = E \cup {e} /\ invoices' = J /\ req'[r] = y BY <2>1
    <2>6. y.op = "sold" /\ y.todo = << m >> /\ y.got = NotRead OBVIOUS
    <2>7. (\A j \in Invoices : j # i => J[j] = I[j]) /\ Counts(J[i])
      BY <1>2, ToldParts, TypeParts, <2>2, <1>8 DEF InvoicesTyped, InvoiceType, Counts
    <2> HIDE DEF y, J, x, i, s, B, I, q, line
    <2>8. /\ e \in EntryType /\ e \notin E
          /\ e.kind = "sale" /\ e.key = key /\ e.qty = -q /\ e.status = "approved" /\ e.ref = i
      BY <1>3, <2>1, <2>2, <2>3, <2>4, NewIs
    <2>9. m \in MoveType /\ m.key = key /\ m.kind = "sale" /\ m.qty = q BY <2>1, <2>3, <2>4 DEF Move, MoveType
    <2> HIDE DEF e, m, E
    <2>10. Approved(e) /\ ~Reserving(e) /\ Effect(m.kind, m.qty) = Effect(e.kind, e.qty)
      BY <2>3, <2>8, <2>9, SaleEffect DEF Approved, Reserving
    <2>11. Books(s, E \cup {e}, << m >>) /\ Short(<< m >>) BY <1>3, <1>5, <2>8, <2>9, <2>10, BooksAdd
    <2>12. Held(s, E \cup {e}) BY <1>3, <2>8, <2>10, HeldAdd
    <2>13. Outgoing(E \cup {e}) BY <1>3, <2>3, <2>8 DEF Outgoing
    <2>14. ASSUME NEW j \in Invoices PROVE SaleOf(E \cup {e}, J, y, j)
      <3>1. ~Selling(y, j) /\ ~Unselling(y, j) BY <2>6 DEF Selling, Unselling
      <3>2. CASE j = i
        <4>1. Own(E \cup {e}, j) = {e}
          <5>1. Own(E \cup {e}, i) = Own(E, i) \cup {e} BY <2>8, OwnGrows
          <5> QED BY <1>4, <3>2, <5>1
        <4> QED BY <2>7, <2>8, <2>10, <3>1, <3>2, <4>1 DEF SaleOf, Single, Counts
      <3>3. CASE j # i
        <4>1. Own(E \cup {e}, j) = Own(E, j) BY <2>8, <3>3, OwnGrows
        <4> QED BY <1>6, <2>7, <3>1, <3>3, <4>1 DEF SaleOf
      <3> QED BY <3>2, <3>3
    <2>15. \A b \in Bills : BillOf(E \cup {e}, B, y, b)
      <3>1. ASSUME NEW b \in Bills PROVE Own(E \cup {e}, b) = Own(E, b) BY <1>2, <2>8, OwnGrows, Assumed
      <3> DEFINE F == E \cup {e}
      <3>2. \A b \in Bills : Own(F, b) = Own(E, b) BY <3>1
      <3> HIDE DEF F
      <3>3. \A b \in Bills : BillOf(F, B, y, b) BY <1>1, <1>3, <3>2, BillsStay
      <3> QED BY <3>3 DEF F
    <2>16. Kept(E \cup {e}, y) = E \cup {e} BY <2>6, KeptIs DEF Dropping
    <2>17. Knows(s, E \cup {e}, y) BY <2>6 DEF Knows
    <2>18. Story(s, E \cup {e}, J, B, y) BY <2>6, <2>11, <2>12, <2>13, <2>14, <2>15, <2>16, <2>17 DEF Story
    <2> QED BY <1>1, <2>5, <2>18
  <1> QED BY <1>7, <1>8

-----------------------------------------------------------------------------
(* Purchases *)

\* None, one or two updates
Few(t) == t = << >> \/ (\E m \in MoveType : t = << m >>) \/ (\E m, p \in MoveType : t = << m, p >>)

\* Updates made at once leave nothing to do.
LEMMA AppliedBooks ==
    ASSUME NEW s, RowsTyped(s), NEW t, Few(t), NEW K, Books(s, K, t)
    PROVE  LET T == Applied(s, t)
           IN  RowsTyped(T) /\ Books(T, K, << >>) /\ \A E : Held(s, E) => Held(T, E)
  <1> DEFINE T == Applied(s, t)
  <1>1. \A k \in Keys : RowOf(s, k).qty + TodoAt(t, k) = LedgerAt(K, k) /\ RowOf(s, k).qty \in Int /\ TodoAt(t, k) \in Int
                        /\ TodoAt(<< >>, k) = 0
    <2>1. t \in Moves
      <3>1. << >> \in Moves BY MovesAre
      <3>2. \A m \in MoveType : << m >> \in Moves BY DEF Moves
      <3>3. \A m, p \in MoveType : << m, p >> \in Moves BY DEF Moves
      <3> HIDE DEF T
      <3> QED BY <3>1, <3>2, <3>3 DEF Few
    <2> QED BY <2>1, RowIs, TodoInt, TodoOf DEF Books
  <1>2. /\ RowsTyped(T) /\ (Even(s) => Even(T)) /\ (\A o : HeldAt(T, o) = HeldAt(s, o))
        /\ \A k \in Keys : RowOf(T, k).qty = RowOf(s, k).qty + TodoAt(t, k)
    <2>1. CASE t = << >>
      <3>1. T = s BY <2>1, AppliedIs
      <3> HIDE DEF T
      <3> QED BY <1>1, <2>1, <3>1
    <2>2. CASE \E m \in MoveType : t = << m >>
      <3>1. PICK m \in MoveType : t = << m >> BY <2>2
      <3>2. T = Stepped(s, m) BY <3>1, AppliedIs
      <3>3. \A k \in Keys : TodoAt(t, k) = MoveAt(m, k) BY <3>1, TodoOf
      <3> HIDE DEF T
      <3>4. /\ RowsTyped(T)
            /\ \A k \in Keys : RowOf(T, k).qty = RowOf(s, k).qty + MoveAt(m, k)
            /\ Even(s) => Even(T)
            /\ \A o : HeldAt(T, o) = HeldAt(s, o)
        BY <3>2, SteppedIs
      <3> QED BY <3>3, <3>4
    <2>3. CASE \E m, p \in MoveType : t = << m, p >>
      <3>1. PICK m \in MoveType, p \in MoveType : t = << m, p >> BY <2>3
      <3> DEFINE U == Stepped(s, m)
      <3>2. T = Stepped(U, p) BY <3>1, AppliedIs
      <3>3. \A k \in Keys : TodoAt(t, k) = MoveAt(m, k) + MoveAt(p, k) BY <3>1, TodoOf
      <3>4. /\ RowsTyped(U)
            /\ \A k \in Keys : RowOf(U, k).qty = RowOf(s, k).qty + MoveAt(m, k)
            /\ Even(s) => Even(U)
            /\ \A o : HeldAt(U, o) = HeldAt(s, o)
        BY SteppedIs
      <3> HIDE DEF T, U
      <3>5. /\ RowsTyped(T)
            /\ \A k \in Keys : RowOf(T, k).qty = RowOf(U, k).qty + MoveAt(p, k)
            /\ Even(U) => Even(T)
            /\ \A o : HeldAt(T, o) = HeldAt(U, o)
        BY <3>2, <3>4, SteppedIs
      <3>6. \A k : MoveAt(m, k) \in Int /\ MoveAt(p, k) \in Int BY MoveAtInt DEF MoveType
      <3>7. ASSUME NEW k \in Keys PROVE RowOf(T, k).qty = RowOf(s, k).qty + TodoAt(t, k)
        BY <1>1, <3>3, <3>4, <3>5, <3>6
      <3> QED BY <3>4, <3>5, <3>7
    <2> QED BY <2>1, <2>2, <2>3 DEF Few
  <1> HIDE DEF T
  <1>3. Books(T, K, << >>) BY <1>1, <1>2 DEF Books
  <1>4. \A E : Held(s, E) => Held(T, E) BY <1>2 DEF Held
  <1> QED BY <1>2, <1>3, <1>4 DEF T

\* A new entry and its update, after at most one other
AtMostOne(u) == u = << >> \/ \E p \in MoveType : u = << p >>

\* A new entry adds its update after the one there may be, and the rows still add up.
LEMMA BooksMore ==
    ASSUME NEW s, RowsTyped(s), NEW F, EntriesTyped(F), NEW e \in EntryType, e \notin F, Approved(e),
           NEW m \in MoveType, m.key = e.key, Effect(m.kind, m.qty) = Effect(e.kind, e.qty),
           NEW u, AtMostOne(u), Books(s, F, u)
    PROVE  Books(s, F \cup {e}, u \o << m >>) /\ Few(u \o << m >>)
  <1> DEFINE v == u \o << m >>
  <1>1. \A k : Share(e, k) \in Int /\ MoveAt(m, k) = Share(e, k) BY ShareIs DEF MoveAt, Share
  <1>2. \A k : LedgerAt(F \cup {e}, k) = LedgerAt(F, k) + Share(e, k) /\ LedgerAt(F, k) \in Int BY LedgerGrows
  <1>3. Few(v) /\ \A k : TodoAt(v, k) = TodoAt(u, k) + MoveAt(m, k) /\ TodoAt(u, k) \in Int
    <2>1. CASE u = << >> BY <2>1, <1>1, TodoOf DEF Few
    <2>2. CASE \E p \in MoveType : u = << p >>
      <3>1. PICK p \in MoveType : u = << p >> BY <2>2
      <3>2. v = << p, m >>
        <4> DEFINE w == << p >> \o << m >>
        <4>0. << p >> \in Seq(MoveType) /\ << m >> \in Seq(MoveType) /\ << p, m >> \in Seq(MoveType)
              /\ Len(<< p >>) = 1 /\ Len(<< m >>) = 1 /\ Len(<< p, m >>) = 2
          OBVIOUS
        <4>2. w \in Seq(MoveType) /\ Len(w) = 2 /\ w[1] = p /\ w[2] = m BY <4>0, ConcatProperties
        <4> HIDE DEF w
        <4>3. w = << p, m >> BY <4>2
        <4>1. << p >> \o << m >> = << p, m >> BY <4>3 DEF w
        <4> QED BY <3>1, <4>1
      <3>3. \A k : MoveAt(p, k) \in Int BY MoveAtInt DEF MoveType
      <3> HIDE DEF v
      <3> QED BY <1>1, <3>1, <3>2, <3>3, TodoOf DEF Few
    <2> QED BY <2>1, <2>2 DEF AtMostOne
  <1> HIDE DEF v
  <1>4. ASSUME NEW k \in Keys PROVE RowOf(s, k).qty + TodoAt(v, k) = LedgerAt(F \cup {e}, k)
    <2>1. RowOf(s, k).qty + TodoAt(u, k) = LedgerAt(F, k) /\ RowOf(s, k).qty \in Int BY RowIs DEF Books
    <2>2. LedgerAt(F \cup {e}, k) = LedgerAt(F, k) + MoveAt(m, k) /\ MoveAt(m, k) \in Int BY <1>1, <1>2
    <2>3. TodoAt(v, k) = TodoAt(u, k) + MoveAt(m, k) /\ TodoAt(u, k) \in Int BY <1>3
    <2> QED BY <2>1, <2>2, <2>3
  <1> QED BY <1>3, <1>4 DEF Books, v

\* The entries a bill gets, and the updates they make
Fresh(new, b) ==
    \/ new = {}
    \/ \E e \in EntryType : /\ new = {e} /\ e.kind = "purchase" /\ Approved(e) /\ e.ref = b /\ e.id \in FreeIds
                            /\ Received(new) = << Move(e.key, "purchase", e.qty) >>

\* The updates of no new entry, and of one
LEMMA ReceivedIs ==
    /\ Received({}) = << >>
    /\ \A e : Received({e}) = << Move(e.key, "purchase", e.qty) >>
  <1>1. Received({}) = << >> BY InOrderIs DEF Received
  <1>2. ASSUME NEW e PROVE Received({e}) = << Move(e.key, "purchase", e.qty) >>
    <2> DEFINE new == InOrder({e})
    <2>1. Received({e}) = [i \in DOMAIN new |-> Move(new[i].key, "purchase", new[i].qty)] BY DEF Received
    <2>2. new = << e >> BY InOrderIs
    <2> HIDE DEF new
    <2> QED BY <2>1, <2>2
  <1> QED BY <1>1, <1>2

\* A bill gets one new purchase or none.
LEMMA IncomingIs ==
    ASSUME EntriesTyped(entries), FreeIds # {}, NEW b \in Bills, NEW st, NEW q \in Quantities, NEW l \in Lots
    PROVE  Fresh(Incoming(b, st, q, l), b)
  <1>1. CASE st = "draft" BY <1>1 DEF Incoming, Fresh
  <1>2. CASE st # "draft"
    <2> DEFINE key == << DefaultOutlet, l >>
               e == New(Entry("purchase", key, q, "approved", b))
    <2>1. Incoming(b, st, q, l) = {e} BY <1>2 DEF Incoming
    <2>2. key \in Keys /\ q \in Int /\ "purchase" \in AllKinds /\ b \in Refs
      BY KeyIs, SignIs, Assumed DEF AllKinds, Kinds, Refs
    <2> HIDE DEF key
    <2>3. e \in EntryType /\ e.kind = "purchase" /\ e.status = "approved" /\ e.ref = b BY <2>2, NewIs
    <2>4. e.id \in FreeIds BY Assumed, MinIs DEF FreeIds, New, Entry
    <2>5. Received({e}) = << Move(e.key, "purchase", e.qty) >> BY ReceivedIs
    <2> HIDE DEF e
    <2> QED BY <2>1, <2>3, <2>4, <2>5 DEF Fresh, Approved
  <1> QED BY <1>1, <1>2

\* A document with one entry is undone by one update at most.
LEMMA UndoneOne ==
    ASSUME NEW S, Single(S), S \subseteq EntryType
    PROVE  AtMostOne(Undone(S))
  <1>1. CASE \A e \in S : ~Approved(e) BY <1>1, UndoneIs DEF AtMostOne
  <1>2. CASE \E e \in S : Approved(e)
    <2>1. PICK e \in S : Approved(e) BY <1>2
    <2>2. Move(e.key, "adjustment", -e.qty) \in MoveType BY DEF EntryType, Move, MoveType, AllKinds, Kinds
    <2>3. Undone(S) = << Move(e.key, "adjustment", -e.qty) >> BY <2>1, UndoneIs DEF Back
    <2> QED BY <2>2, <2>3 DEF AtMostOne
  <1> QED BY <1>1, <1>2

\* What a bill's new entries, none or one, do to rows and reservations
LEMMA FreshBooks ==
    ASSUME NEW b, NEW new, Fresh(new, b), NEW s, RowsTyped(s), NEW F, EntriesTyped(F),
           \A e \in F : e.id \notin FreeIds, NEW u, AtMostOne(u), Books(s, F, u), Held(s, F), Outgoing(F)
    PROVE  LET t == u \o Received(new)
           IN  /\ Few(t) /\ Books(s, F \cup new, t)
               /\ Held(s, F \cup new) /\ Outgoing(F \cup new) /\ EntriesTyped(F \cup new)
  <1> DEFINE t == u \o Received(new)
             G == F \cup new
  <1>1. CASE new = {}
    <2>1. Received(new) = << >> BY <1>1, ReceivedIs
    <2>2. t = u BY <2>1, ConcatEmptySeq DEF AtMostOne
    <2>3. G = F BY <1>1
    <2> HIDE DEF t, G
    <2>4. Few(t) BY <2>2 DEF AtMostOne, Few
    <2>5. Few(t) /\ Books(s, G, t) /\ Held(s, G) /\ Outgoing(G) /\ EntriesTyped(G) BY <2>2, <2>3, <2>4
    <2> QED BY <2>5 DEF t, G
  <1>2. CASE new # {}
    <2>1. PICK e \in EntryType : /\ new = {e} /\ e.kind = "purchase" /\ Approved(e) /\ e.ref = b /\ e.id \in FreeIds
                                 /\ Received(new) = << Move(e.key, "purchase", e.qty) >>
      BY <1>2 DEF Fresh
    <2> DEFINE m == Move(e.key, "purchase", e.qty)
    <2>2. m \in MoveType /\ m.key = e.key /\ m.kind = "purchase" /\ m.qty = e.qty
      BY DEF EntryType, Move, MoveType, AllKinds, Kinds
    <2>3. t = u \o << m >> /\ G = F \cup {e} BY <2>1
    <2> HIDE DEF m, t, G
    <2>4. e \notin F /\ ~Reserving(e) /\ Effect(m.kind, m.qty) = Effect(e.kind, e.qty) /\ \A f \in F : f.id # e.id
      BY <2>1, <2>2 DEF Reserving
    <2>5. Books(s, F \cup {e}, u \o << m >>) /\ Few(u \o << m >>) BY <2>1, <2>2, <2>4, BooksMore
    <2>6. Held(s, F \cup {e}) /\ EntriesTyped(F \cup {e}) BY <2>4, HeldAdd, OneMoreEntry
    <2>7. Outgoing(F \cup {e}) BY <2>1 DEF Outgoing
    <2>8. Few(t) /\ Books(s, G, t) /\ Held(s, G) /\ Outgoing(G) /\ EntriesTyped(G) BY <2>3, <2>5, <2>6, <2>7
    <2> QED BY <2>8 DEF t, G
  <1> QED BY <1>1, <1>2

\* A bill that is written has the entries it gets now, and no others.
LEMMA BillStory ==
    ASSUME NEW r, Told(r), req[r] = Idle, NEW b \in Bills, NEW new, Fresh(new, b),
           NEW n \in BillType \cup Gone, n.doc # "live" => new = {}, n.doc = "live" => n.stock = StatusOf(new),
           entries' = (entries \ EntriesOf(b)) \cup new,
           stock' = Applied(stock, Removed(b) \o Received(new)),
           bills' = [bills EXCEPT ![b] = n], UNCHANGED << invoices, req >>
    PROVE  TypeInv' /\ Story(stock', entries', invoices', bills', req'[r])
  <1> DEFINE s == stock  E == entries  I == invoices  B == bills
             S == Own(E, b)
             u == Undone(S)
             F == E \ S
             t == u \o Received(new)
             G == F \cup new
             T == Applied(s, t)
             C == [B EXCEPT ![b] = n]
  <1>1. /\ Books(s, E, << >>) /\ Held(s, E) /\ Outgoing(E) /\ Docs(E, I, B) /\ RowsTyped(s) /\ EntriesTyped(E)
    BY IdleIsPlain, PlainParts
  <1>2. EntriesOf(b) = S BY DEF EntriesOf, Own
  <1>3. entries' = G /\ stock' = T /\ bills' = C /\ invoices' = I /\ req'[r] = Idle BY <1>2 DEF Removed
  <1>4. BillsTyped(C) /\ C[b] = n /\ \A c \in Bills : c # b => C[c] = B[c]
    BY ToldParts, TypeParts DEF BillsTyped
  <1>5. \A e \in E : e.id \notin FreeIds BY DEF FreeIds
  <1>6. Single(S) /\ S \subseteq EntryType /\ \A e \in S : e.kind \in {"sale", "purchase"}
    BY <1>1 DEF Docs, Own, EntriesTyped
  <1> HIDE DEF C, s, E, I, B
  <1>7. Short(u) /\ Books(s, F, u) /\ AtMostOne(u) BY <1>1, <1>6, UndoneBooks, UndoneOne
  <1>8. Held(s, F) /\ Outgoing(F) /\ EntriesTyped(F) BY <1>1, <1>6, HeldDrop
  <1>9. \A e \in F : e.id \notin FreeIds BY <1>5
  <1>10. Own(F, b) = {} /\ \A d : d # b => Own(F, d) = Own(E, d) BY OwnDrops
  <1> HIDE DEF u, F, T
  <1>11. /\ Few(t) /\ Books(s, G, t) /\ Held(s, G) /\ Outgoing(G) /\ EntriesTyped(G)
    BY <1>1, <1>7, <1>8, <1>9, FreshBooks
  <1>12. Own(G, b) = new /\ \A d : d # b => Own(G, d) = Own(E, d) BY <1>10 DEF Fresh, Own
  <1> HIDE DEF t, G
  <1>13. RowsTyped(T) /\ Books(T, G, << >>) /\ Held(T, G) BY <1>1, <1>11, AppliedBooks DEF T
  <1>14. Docs(G, I, C)
    <2>1. ASSUME NEW i \in Invoices
          PROVE  Single(Own(G, i)) /\ (\A e \in Own(G, i) : e.kind = "sale" /\ Approved(e)) /\ (Own(G, i) # {}) = Counts(I[i])
      <3>1. Own(G, i) = Own(E, i) BY <1>12, Assumed
      <3> QED BY <1>1, <3>1 DEF Docs
    <2>2. ASSUME NEW c \in Bills
          PROVE  /\ Single(Own(G, c)) /\ \A e \in Own(G, c) : e.kind = "purchase"
                 /\ C[c].doc # "live" => Own(G, c) = {}
                 /\ C[c].doc = "live" => C[c].stock = StatusOf(Own(G, c))
      BY <1>4, <1>12, <1>1 DEF Fresh, Single, Docs
    <2> QED BY <2>1, <2>2 DEF Docs
  <1>15. Story(T, G, I, C, Idle) BY <1>11, <1>13, <1>14, PlainStory, IdleIsPlain, TodoOf
  <1>16. TypeInv' BY <1>3, <1>4, <1>11, <1>13, ToldParts DEF TypeInv
  <1> QED BY <1>3, <1>15, <1>16

\* A bill with the stock status of its entries
LEMMA BillIs ==
    ASSUME NEW S, S \subseteq EntryType, NEW st \in {"draft", "unpaid"}
    PROVE  [doc |-> "live", st |-> st, stock |-> StatusOf(S)] \in BillType
  BY StatusIs DEF BillType

LEMMA FreshTyped == ASSUME NEW new, NEW b, Fresh(new, b) PROVE new \subseteq EntryType
  BY DEF Fresh

LEMMA CreateBillStory ==
    ASSUME NEW r, Told(r), NEW b \in Bills, NEW st \in {"draft", "unpaid"}, NEW q \in Quantities, NEW l \in Lots,
           CreateBill(r, b, st, q, l)
    PROVE  TypeInv' /\ Story(stock', entries', invoices', bills', req'[r])
  <1> DEFINE new == Incoming(b, st, q, l)
             n == [doc |-> "live", st |-> st, stock |-> StatusOf(new)]
  <1>1. /\ req[r] = Idle /\ FreeIds # {} /\ bills[b].doc = "unused" /\ entries' = entries \cup new
        /\ stock' = Applied(stock, Received(new)) /\ bills' = [bills EXCEPT ![b] = n]
        /\ UNCHANGED << invoices, req >>
    BY DEF CreateBill, Start
  <1>2. Fresh(new, b) BY <1>1, IncomingIs, ToldParts, TypeParts
  <1>3. n.doc = "live" /\ n.stock = StatusOf(new) OBVIOUS
  <1> HIDE DEF new
  <1>4. n \in BillType BY <1>2, FreshTyped, BillIs
  <1>5. EntriesOf(b) = {}
    <2>1. Docs(entries, invoices, bills) BY <1>1, IdleIsPlain, PlainParts
    <2> QED BY <1>1, <2>1 DEF Docs, Own, EntriesOf
  <1>6. Removed(b) \o Received(new) = Received(new)
    <2>1. Removed(b) = << >> BY <1>5, UndoneIs DEF Removed, Single
    <2>2. Received(new) \in Seq(MoveType)
      <3>1. CASE new = {} BY <3>1, ReceivedIs, MovesAre DEF Moves
      <3>2. CASE new # {}
        <4>1. PICK e \in EntryType : Received(new) = << Move(e.key, "purchase", e.qty) >>
          BY <1>2, <3>2 DEF Fresh
        <4>2. Move(e.key, "purchase", e.qty) \in MoveType BY DEF EntryType, Move, MoveType, AllKinds, Kinds
        <4> QED BY <4>1, <4>2
      <3> QED BY <3>1, <3>2
    <2> QED BY <2>1, <2>2, ConcatEmptySeq
  <1>7. entries' = (entries \ EntriesOf(b)) \cup new BY <1>1, <1>5
  <1>8. stock' = Applied(stock, Removed(b) \o Received(new)) BY <1>1, <1>6
  <1> HIDE DEF n
  <1> QED BY <1>1, <1>2, <1>3, <1>4, <1>7, <1>8, BillStory

LEMMA UpdateBillStory ==
    ASSUME NEW r, Told(r), NEW b \in Bills, NEW st \in {"draft", "unpaid"}, NEW q \in Quantities, NEW l \in Lots,
           UpdateBill(r, b, st, q, l)
    PROVE  TypeInv' /\ Story(stock', entries', invoices', bills', req'[r])
  BY IncomingIs, ToldParts, TypeParts, FreshTyped, BillIs, BillStory DEF UpdateBill, Start

LEMMA DeleteBillStory ==
    ASSUME NEW r, Told(r), NEW b \in Bills, DeleteBill(r, b)
    PROVE  TypeInv' /\ Story(stock', entries', invoices', bills', req'[r])
  <1> DEFINE n == [doc |-> "deleted"]
             new == {}
  <1>1. /\ req[r] = Idle /\ entries' = entries \ EntriesOf(b)
        /\ stock' = Applied(stock, Removed(b)) /\ bills' = [bills EXCEPT ![b] = n]
        /\ UNCHANGED << invoices, req >>
    BY DEF DeleteBill, Start
  <1>2. n \in BillType \cup Gone /\ n.doc # "live" BY DEF Gone
  <1>3. Fresh(new, b) BY DEF Fresh
  <1>4. Removed(b) \o Received(new) = Removed(b)
    <2>1. Docs(entries, invoices, bills) BY <1>1, IdleIsPlain, PlainParts
    <2>2. Single(EntriesOf(b)) /\ EntriesOf(b) \subseteq EntryType
      BY <2>1, EntriesOfTyped, ToldParts DEF Docs, Own, EntriesOf
    <2>3. Removed(b) \in Seq(MoveType) BY <2>2, UndoneTyped DEF Removed, Moves
    <2> QED BY <2>3, ReceivedIs, ConcatEmptySeq
  <1>5. /\ entries' = (entries \ EntriesOf(b)) \cup new
        /\ stock' = Applied(stock, Removed(b) \o Received(new))
        /\ new = {}
    BY <1>1, <1>4
  <1> HIDE DEF n, new
  <1> QED BY <1>1, <1>2, <1>3, <1>5, BillStory

-----------------------------------------------------------------------------
(* The story holds from the start, and every step goes on with it *)

\* A shop that has one entry of an earlier version waiting, or none
LEMMA InitEntries ==
    ASSUME NEW old \in Bills \cup {None}
    PROVE  LET e == Entry("purchase", << DefaultOutlet, Unbatched >>, 1, "pending", old)
               E == IF old = None THEN {} ELSE {e}
           IN  /\ EntriesTyped(E) /\ Outgoing(E)
               /\ \A d : Own(E, d) = IF old # None /\ d = old THEN E ELSE {}
               /\ old # None => StatusOf(E) = "pending"
               /\ \A k \in Keys : LedgerAt(E, k) = 0
               /\ \A o \in Outlets : OutAt(E, o) = 0
               /\ Single(E) /\ \A x \in E : x.kind = "purchase"
  <1> DEFINE e == Entry("purchase", << DefaultOutlet, Unbatched >>, 1, "pending", old)
             E == IF old = None THEN {} ELSE {e}
  <1>1. EntriesTyped({}) /\ (\A k, o : LedgerAt({}, k) = 0 /\ OutAt({}, o) = 0)
    BY FS_EmptySet, LedgerEmpty DEF EntriesTyped
  <1>2. CASE old = None BY <1>2, <1>1 DEF Outgoing, Single, Own, E, e
  <1>3. CASE old # None
    <2>1. E = {e} BY <1>3
    <2>2. << DefaultOutlet, Unbatched >> \in Keys BY Assumed DEF Keys
    <2>3. /\ e \in EntryType /\ e.kind = "purchase" /\ e.status = "pending" /\ e.ref = old /\ e.qty = 1
      BY <1>3, <2>2, Assumed DEF Entry, EntryType, Kinds
    <2> HIDE DEF e, E
    <2>4. ~Approved(e) /\ ~Reserving(e) BY <2>3 DEF Approved, Reserving
    <2>5. EntriesTyped(E) BY <1>1, <2>3, OneMoreEntry, <2>1
    <2>6. ASSUME NEW k, NEW o PROVE LedgerAt(E, k) = 0 /\ OutAt(E, o) = 0
      <3> DEFINE D == {}
      <3>1. EntriesTyped(D) /\ e \notin D /\ D \cup {e} = E /\ LedgerAt(D, k) = 0 /\ OutAt(D, o) = 0
        BY <1>1, <2>1
      <3>2. Share(e, k) = 0 /\ OutShare(e, o) = 0 BY <2>4 DEF Share, OutShare
      <3> HIDE DEF D
      <3>3. /\ LedgerAt(D \cup {e}, k) = LedgerAt(D, k) + Share(e, k) /\ LedgerAt(D, k) \in Int
            /\ OutAt(D \cup {e}, o) = OutAt(D, o) + OutShare(e, o) /\ OutAt(D, o) \in Int
        BY <2>3, <3>1, LedgerGrows
      <3>4. LedgerAt(D \cup {e}, k) = 0 /\ OutAt(D \cup {e}, o) = 0 BY <3>1, <3>2, <3>3
      <3> QED BY <3>1, <3>4
    <2>7. Outgoing(E) /\ Single(E) /\ \A d : Own(E, d) = IF d = old THEN E ELSE {}
      BY <2>1, <2>3 DEF Outgoing, Single, Own
    <2>8. StatusOf(E) = "pending" BY <2>1, <2>3, StatusOne
    <2>9. \A x \in E : x.kind = "purchase" BY <2>1, <2>3
    <2> QED BY <1>3, <2>5, <2>6, <2>7, <2>8, <2>9 DEF E, e
  <1> QED BY <1>2, <1>3

\* No row holds anything.
LEMMA EmptyRows == /\ RowsTyped(<< >>) /\ Even(<< >>)
                   /\ \A k : RowOf(<< >>, k).qty = 0
                   /\ \A o : HeldAt(<< >>, o) = 0
  BY FS_EmptySet, SumEmpty DEF RowsTyped, Even, RowOf, NoRow, HeldAt

\* The story holds at the start.
LEMMA InitStory ==
    ASSUME Init
    PROVE  TypeInv /\ Tale
  <1>1. /\ stock = << >> /\ invoices = [i \in Invoices |-> Unused] /\ req = [r \in Requests |-> Idle]
    BY DEF Init
  <1>2. PICK old \in Bills \cup {None} :
          /\ entries = IF old = None THEN {}
                       ELSE {Entry("purchase", << DefaultOutlet, Unbatched >>, 1, "pending", old)}
          /\ bills = [b \in Bills |->
                        IF b = old THEN [doc |-> "live", st |-> "unpaid", stock |-> "pending"] ELSE Unused]
    BY DEF Init
  <1> DEFINE s == stock  E == entries  I == invoices  B == bills
  <1>3. /\ EntriesTyped(E) /\ Outgoing(E)
        /\ \A d : Own(E, d) = IF old # None /\ d = old THEN E ELSE {}
        /\ old # None => StatusOf(E) = "pending"
        /\ \A k \in Keys : LedgerAt(E, k) = 0
        /\ \A o \in Outlets : OutAt(E, o) = 0
        /\ Single(E) /\ \A x \in E : x.kind = "purchase"
    BY <1>2, InitEntries
  <1>4. RowsTyped(s) /\ Even(s) /\ (\A k : RowOf(s, k).qty = 0) /\ \A o : HeldAt(s, o) = 0 BY <1>1, EmptyRows
  <1>5. InvoicesTyped(I) /\ \A i \in Invoices : ~Counts(I[i]) BY <1>1 DEF InvoicesTyped, Gone, Counts, Unused
  <1>6. BillsTyped(B) /\ \A b \in Bills : /\ B[b].doc = "live" <=> b = old
                                          /\ b = old => B[b].stock = "pending"
    BY <1>2 DEF BillsTyped, BillType, Gone, Unused
  <1>7. RequestsTyped(req) BY <1>1, IdleIs DEF RequestsTyped
  <1>8. TypeInv BY <1>3, <1>4, <1>5, <1>6, <1>7 DEF TypeInv
  <1> HIDE DEF s, E, I, B
  <1>9. Books(s, E, << >>) BY <1>3, <1>4, TodoOf DEF Books
  <1>10. Held(s, E) BY <1>3, <1>4 DEF Held
  <1>11. Docs(E, I, B)
    <2>1. ASSUME NEW i \in Invoices
          PROVE  Single(Own(E, i)) /\ (\A e \in Own(E, i) : e.kind = "sale" /\ Approved(e)) /\ (Own(E, i) # {}) = Counts(I[i])
      BY <1>3, Assumed, <1>5 DEF Single, Counts
    <2>2. ASSUME NEW b \in Bills
          PROVE  /\ Single(Own(E, b)) /\ \A e \in Own(E, b) : e.kind = "purchase"
                 /\ B[b].doc # "live" => Own(E, b) = {}
                 /\ B[b].doc = "live" => B[b].stock = StatusOf(Own(E, b))
      <3>1. b # None BY Assumed
      <3> QED BY <1>3, <1>6, <3>1 DEF Single
    <2> QED BY <2>1, <2>2 DEF Docs
  <1>12. Story(s, E, I, B, Idle) BY <1>3, <1>9, <1>10, <1>11, PlainStory, IdleIsPlain, TodoOf
  <1> QED BY <1>1, <1>8, <1>12 DEF Tale, s, E, I, B

\* With one client at a time every step goes on with the story.
LEMMA NextStory ==
    ASSUME Sound, NEW r, Requests = {r}, TypeInv, Tale, [Next]_vars
    PROVE  TypeInv' /\ Tale'
  <1> DEFINE Goal == TypeInv' /\ Story(stock', entries', invoices', bills', req'[r])
  <1>1. Told(r) BY DEF Told, Tale
  <1>2. SUFFICES Goal BY DEF Tale
  <1>3. CASE UNCHANGED vars BY <1>1, <1>3 DEF vars, Told, TypeInv
  <1>4. CASE ReadRow(r) BY <1>1, <1>4, ReadRowStory
  <1>5. CASE SaveRow(r) BY <1>1, <1>5, SaveRowStory
  <1>6. CASE EntrySteps(r)
    <2> HIDE DEF Goal
    <2>1. ASSUME NEW kind \in Kinds, NEW o \in Outlets, NEW b \in Lots, NEW q \in Signs,
                 CreateStockEntry(r, kind, << o, b >>, q)
          PROVE  Goal
      BY <1>1, <2>1, CreateStockEntryStory DEF Goal
    <2>2. ASSUME NEW o \in Outlets, NEW b \in Lots, NEW q \in Targets, ReadBulkRow(r, << o, b >>, q)
          PROVE  Goal
      BY <1>1, <2>2, ReadBulkRowStory DEF Goal
    <2>3. ASSUME NEW e \in entries, NEW op \in {"edit", "approve", "reject"}, LoadEntry(r, op, e)
          PROVE  Goal
      BY <1>1, <2>3, LoadEntryStory DEF Goal
    <2>4. ASSUME NEW q \in Signs, NEW b \in Lots, UpdateStockEntry(r, q, b)
          PROVE  Goal
      BY <1>1, <2>4, UpdateStockEntryStory DEF Goal
    <2>5. ASSUME NEW o \in Outlets, NEW b \in Lots, NEW q \in Quantities, NEW op \in {"reserve", "release"},
                 LoadReservation(r, op, o, b, q)
          PROVE  Goal
      BY <1>1, <2>5, LoadReservationStory DEF Goal
    <2>6. CASE AdjustBulkRow(r) BY <1>1, <2>6, AdjustBulkRowStory DEF Goal
    <2>7. CASE ApproveStockEntry(r) BY <1>1, <2>7, ApproveStockEntryStory DEF Goal
    <2>8. CASE RejectStockEntry(r) BY <1>1, <2>8, RejectStockEntryStory DEF Goal
    <2>9. CASE Sync(r) BY <1>1, <2>9, SyncStory DEF Goal
    <2>10. CASE LoadPending(r) BY <1>1, <2>10, LoadPendingStory DEF Goal
    <2>11. CASE ApproveNext(r) BY <1>1, <2>11, ApproveNextStory DEF Goal
    <2>12. CASE SyncAll(r) BY <1>1, <2>12, SyncAllStory DEF Goal
    <2>13. CASE ReserveStock(r) BY <1>1, <2>13, ReserveStockStory DEF Goal
    <2>14. CASE ReleaseStock(r) BY <1>1, <2>14, ReleaseStockStory DEF Goal
    <2> QED
      BY <1>6, <2>1, <2>2, <2>3, <2>4, <2>5, <2>6, <2>7, <2>8, <2>9, <2>10, <2>11, <2>12, <2>13, <2>14
         DEF EntrySteps
  <1>7. CASE SaleSteps(r)
    <2> HIDE DEF Goal
    <2>1. ASSUME NEW i \in Invoices, NEW st \in Statuses, NEW q \in Quantities, NEW b \in Lots,
                 CreateInvoice(r, i, st, q, b)
          PROVE  Goal
      BY <1>1, <2>1, CreateInvoiceStory DEF Goal
    <2>2. ASSUME NEW i \in Invoices, NEW st \in Statuses, NEW q \in Quantities, NEW b \in Lots,
                 LoadInvoice(r, i, st, q, b)
          PROVE  Goal
      BY <1>1, <2>2, LoadInvoiceStory DEF Goal
    <2>3. ASSUME NEW i \in Invoices, NEW st \in Statuses, PatchStatus(r, i, st)
          PROVE  Goal
      BY <1>1, <2>3, PatchStatusStory DEF Goal
    <2>4. ASSUME NEW i \in Invoices, LoadDelete(r, i)
          PROVE  Goal
      BY <1>1, <2>4, LoadDeleteStory DEF Goal
    <2>5. CASE DropEntries(r) BY <1>1, <2>5, DropEntriesStory DEF Goal
    <2>6. CASE SaveInvoice(r) BY <1>1, <2>6, SaveInvoiceStory DEF Goal
    <2>7. CASE Sell(r) BY <1>1, <2>7, SellStory DEF Goal
    <2>8. CASE DeleteInvoice(r) BY <1>1, <2>8, DeleteInvoiceStory DEF Goal
    <2>9. CASE Refuse(r) BY <1>1, <2>9, RefuseStory DEF Goal
    <2> QED BY <1>7, <2>1, <2>2, <2>3, <2>4, <2>5, <2>6, <2>7, <2>8, <2>9 DEF SaleSteps
  <1>8. CASE BillSteps(r)
    <2> HIDE DEF Goal
    <2>1. PICK b \in Bills :
             \/ \E st \in {"draft", "unpaid"}, q \in Quantities, l \in Lots :
                   CreateBill(r, b, st, q, l) \/ UpdateBill(r, b, st, q, l)
             \/ DeleteBill(r, b)
      BY <1>8, Zenon DEF BillSteps
    <2>2. ASSUME NEW st \in {"draft", "unpaid"}, NEW q \in Quantities, NEW l \in Lots, CreateBill(r, b, st, q, l)
          PROVE  Goal
      BY <1>1, <2>2, CreateBillStory DEF Goal
    <2>3. ASSUME NEW st \in {"draft", "unpaid"}, NEW q \in Quantities, NEW l \in Lots, UpdateBill(r, b, st, q, l)
          PROVE  Goal
      BY <1>1, <2>3, UpdateBillStory DEF Goal
    <2>4. CASE DeleteBill(r, b) BY <1>1, <2>4, DeleteBillStory DEF Goal
    <2> QED BY <2>1, <2>2, <2>3, <2>4
  <1> HIDE DEF Goal
  <1>9. CASE Next BY <1>4, <1>5, <1>6, <1>7, <1>8, <1>9 DEF Next
  <1> QED BY <1>3, <1>9

\* What the properties say, from the story of a client that is idle
LEMMA RowsFollow ==
    ASSUME TypeInv, Tale, NEW r \in Requests
    PROVE  RowsExact
  <1>1. RowsTyped(stock) /\ EntriesTyped(entries) /\ InvoicesTyped(invoices) /\ BillsTyped(bills) BY TypeParts
  <1>2. Story(stock, entries, invoices, bills, req[r]) BY DEF Tale
  <1>3. TypeOK BY <1>1 DEF TypeOK, RowsTyped, EntriesTyped, InvoicesTyped, BillsTyped
  <1>4. Held(stock, entries) BY <1>2 DEF Story
  <1>5. Quiet => Books(stock, entries, << >>) BY <1>2, PlainStory, IdleIsPlain DEF Quiet
  <1>6. LedgerMatches
    <2> SUFFICES ASSUME Quiet, NEW k \in Keys
                 PROVE  LET Eff(e) == Effect(e.kind, e.qty)
                        IN  RowOf(stock, k).qty = Sum({e \in entries : e.key = k /\ Approved(e)}, Eff)
      BY DEF LedgerMatches
    <2>1. RowOf(stock, k).qty + TodoAt(<< >>, k) = LedgerAt(entries, k) BY <1>5 DEF Books
    <2>2. RowOf(stock, k).qty = LedgerAt(entries, k) BY <1>1, <2>1, RowIs, TodoOf
    <2> QED BY <1>1, <2>2, LedgerIs
  <1>7. ReservedMatches BY <1>4, <1>1, HeldIs, OutIs DEF Held, Even, ReservedMatches
  <1> QED BY <1>3, <1>6, <1>7 DEF RowsExact

\* The story says, where nobody is at work, what DocumentsFollow says.
LEMMA DocsFollow ==
    ASSUME TypeInv, Tale, NEW r \in Requests
    PROVE  DocumentsFollow
  <1>1. ASSUME Quiet PROVE Docs(entries, invoices, bills) BY <1>1, PlainStory, IdleIsPlain DEF Quiet, Tale
  <1>2. \A d : EntriesOf(d) = Own(entries, d) BY DEF EntriesOf, Own
  <1>3. ASSUME Quiet, NEW i \in Invoices
        PROVE  /\ Cardinality(EntriesOf(i)) = IF invoices[i].doc = "live" /\ invoices[i].st = "sent" THEN 1 ELSE 0
               /\ \A e \in EntriesOf(i) : e.kind = "sale" /\ Approved(e)
    <2>1. Single(Own(entries, i)) /\ (\A e \in Own(entries, i) : e.kind = "sale" /\ Approved(e))
          /\ (Own(entries, i) # {}) = Counts(invoices[i])
      BY <1>1, <1>3 DEF Docs
    <2>2. CASE Counts(invoices[i])
      <3>1. PICK e \in Own(entries, i) : TRUE BY <2>1, <2>2
      <3>2. Own(entries, i) = {e} BY <2>1, <3>1 DEF Single
      <3>3. Cardinality(Own(entries, i)) = 1 BY <3>2, FS_Singleton
      <3> QED BY <1>2, <2>1, <2>2, <3>3 DEF Counts
    <2>3. CASE ~Counts(invoices[i]) BY <2>1, <2>3, FS_EmptySet, <1>2 DEF Counts
    <2> QED BY <2>2, <2>3
  <1>4. ASSUME Quiet, NEW b \in Bills, bills[b].doc = "live" PROVE bills[b].stock = StatusOf(EntriesOf(b))
    BY <1>1, <1>2, <1>4 DEF Docs
  <1> QED BY <1>3, <1>4 DEF DocumentsFollow, InvoiceDeducted, BillStatusFollows

-----------------------------------------------------------------------------
(* Theorems *)

\* One client at a time, who uses the shop as Sound says
OneAtATime == Sound /\ \E r : Requests = {r}

\* The inductive invariant: rows and updates still to make add up to the ledger, and documents
\* to their entries, at every step of every request.
THEOREM StoryHolds == OneAtATime => (Spec => [](TypeInv /\ Tale))
  <1> SUFFICES ASSUME OneAtATime PROVE Spec => [](TypeInv /\ Tale) OBVIOUS
  <1>1. PICK r : Requests = {r} BY DEF OneAtATime
  <1>2. Init => TypeInv /\ Tale BY InitStory
  <1>3. TypeInv /\ Tale /\ [Next]_vars => TypeInv' /\ Tale' BY <1>1, NextStory DEF OneAtATime
  <1> QED BY <1>2, <1>3, PTL DEF Spec

\* Where nobody is at work each stock row is what its approved entries add up to, what is
\* available is the quantity less what is reserved, and what an outlet has reserved is what
\* its reservations and releases say: for every number of invoices, bills, outlets, batches and
\* entries, whatever one client does in whatever order and wherever a draft is refused half-way.
THEOREM RowsExactHolds == OneAtATime => (Spec => []RowsExact)
  <1> SUFFICES ASSUME OneAtATime PROVE Spec => []RowsExact OBVIOUS
  <1>1. PICK r : Requests = {r} BY DEF OneAtATime
  <1>2. TypeInv /\ Tale => RowsExact BY <1>1, RowsFollow
  <1>3. Spec => [](TypeInv /\ Tale) BY StoryHolds
  <1> QED BY <1>2, <1>3, PTL

\* Where nobody is at work an invoice that counts has one sale in the ledger, any other has
\* none, and a bill's stock status is the one of its entry.
THEOREM DocumentsFollowHolds == OneAtATime => (Spec => []DocumentsFollow)
  <1> SUFFICES ASSUME OneAtATime PROVE Spec => []DocumentsFollow OBVIOUS
  <1>1. PICK r : Requests = {r} BY DEF OneAtATime
  <1>2. TypeInv /\ Tale => DocumentsFollow BY <1>1, DocsFollow
  <1>3. Spec => [](TypeInv /\ Tale) BY StoryHolds
  <1> QED BY <1>2, <1>3, PTL

-----------------------------------------------------------------------------
(* What a check foretells *)

\* What is available of every batch (Unbatched) or of one, and what updates add to it
InPart(k, b) == b = Unbatched \/ k[2] = b
Ready(s, b)  == SumFunctionOnSet([k \in DOMAIN s |-> IF InPart(k, b) THEN s[k].available ELSE 0], DOMAIN s)
GainBy(m, b) == IF InPart(m.key, b) THEN Effect(m.kind, m.qty) ELSE 0
Gain(t, b)   == IF t = << >> THEN 0
                ELSE GainBy(Head(t), b) + (IF Tail(t) = << >> THEN 0 ELSE GainBy(Head(Tail(t)), b))

\* There is enough of the product, and of the batch if one is named, once the
\* updates are made.
Covers(s, t, q, b) ==
    /\ Ready(s, Unbatched) + Gain(t, Unbatched) >= q
    /\ b # Unbatched => Ready(s, b) + Gain(t, b) >= q

\* What the check answered is so for what the request has still to do.
Foretold(s, I, x) ==
    /\ x.op \in {"rewrite", "save"} => (x.check = "enough") = Covers(s, x.todo, x.new.qty, x.new.batch)
    /\ x.op = "sell" => x.todo = << >>
    /\ x.op = "sell" /\ x.check # "none" =>
         (x.check = "enough") = Covers(s, << >>, I[x.doc].qty, I[x.doc].batch)
    /\ x.op = "sold" => Tail(x.todo) = << >>
    /\ x.op = "sold" /\ x.check # "none" => (x.check = "enough") = Covers(s, x.todo, 0, x.batch)

\* Sums over rows are whole numbers.
LEMMA ReadyInt ==
    ASSUME NEW s, RowsTyped(s), NEW b
    PROVE  Ready(s, b) \in Int
  <1> DEFINE D == DOMAIN s
             f == [k \in D |-> IF InPart(k, b) THEN s[k].available ELSE 0]
  <1>1. \A k \in D : s[k].available \in Int BY DEF RowsTyped, RowType
  <1>2. \A k \in D : f[k] \in Int BY <1>1
  <1>3. IsFiniteSet(D) BY DEF RowsTyped
  <1>4. Ready(s, b) = SumFunctionOnSet(f, D) BY DEF Ready
  <1> HIDE DEF f, D
  <1> QED BY <1>2, <1>3, <1>4, SumInt

\* A row that is saved moves what is available by what it holds more.
LEMMA ReadyWith ==
    ASSUME NEW s, RowsTyped(s), NEW k \in Keys, NEW row \in RowType, NEW b
    PROVE  Ready(With(s, k, row), b) =
             Ready(s, b) + (IF InPart(k, b) THEN row.available - RowOf(s, k).available ELSE 0)
  <1> DEFINE D == DOMAIN s
             t == With(s, k, row)
             f == [j \in D |-> IF InPart(j, b) THEN s[j].available ELSE 0]
             g == [j \in D \cup {k} |-> IF InPart(j, b) THEN t[j].available ELSE 0]
  <1>1. \A j \in D : s[j].available \in Int BY DEF RowsTyped, RowType
  <1>2. row.available \in Int BY DEF RowType
  <1>3. t = [j \in D \cup {k} |-> IF j = k THEN row ELSE s[j]] BY DEF With
  <1> HIDE DEF t
  <1>4. DOMAIN t = D \cup {k} /\ t[k] = row /\ \A j \in D : j # k => t[j] = s[j] BY <1>3
  <1>5. Ready(t, b) = SumFunctionOnSet(g, D \cup {k}) /\ Ready(s, b) = SumFunctionOnSet(f, D) BY <1>4 DEF Ready
  <1>6. /\ \A j \in D : f[j] \in Int /\ (j # k => g[j] = f[j])
        /\ g[k] = (IF InPart(k, b) THEN row.available ELSE 0) /\ g[k] \in Int
    BY <1>1, <1>2, <1>4
  <1>7. IsFiniteSet(D) BY DEF RowsTyped
  <1>8. CASE k \in D
    <2>1. f[k] = (IF InPart(k, b) THEN s[k].available ELSE 0) /\ RowOf(s, k) = s[k] BY <1>8 DEF RowOf
    <2>2. D \cup {k} = D BY <1>8
    <2>3. s[k].available \in Int BY <1>1, <1>8
    <2>4. Ready(t, b) = SumFunctionOnSet(g, D) BY <1>5, <2>2
    <2> HIDE DEF f, g, D
    <2>5. ChangedAt(f, g, k, D) BY <1>6, <1>7, <1>8 DEF ChangedAt
    <2>6. SumFunctionOnSet(g, D) = SumFunctionOnSet(f, D) - f[k] + g[k] BY <2>5, SumChanges
    <2>7. SumFunctionOnSet(f, D) \in Int BY <1>6, <1>7, SumInt
    <2> QED BY <1>2, <1>5, <1>6, <2>1, <2>3, <2>4, <2>6, <2>7 DEF t
  <1>9. CASE k \notin D
    <2>1. RowOf(s, k).available = 0 BY <1>9 DEF RowOf, NoRow
    <2>2. \A j \in D : f[j] \in Int /\ g[j] = f[j] BY <1>6, <1>9
    <2> HIDE DEF f, g, D
    <2>3. SumFunctionOnSet(g, D \cup {k}) = SumFunctionOnSet(f, D) + g[k] /\ SumFunctionOnSet(f, D) \in Int
      BY <1>6, <1>7, <1>9, <2>2, GrownSum
    <2> QED BY <1>2, <1>5, <1>6, <2>1, <2>3 DEF t
  <1> QED BY <1>8, <1>9

\* One update moves what is available by its effect.
LEMMA ReadySteps ==
    ASSUME NEW s, RowsTyped(s), Even(s), NEW m \in MoveType, NEW b
    PROVE  Ready(Stepped(s, m), b) = Ready(s, b) + GainBy(m, b)
  <1> DEFINE k   == m.key
             row == Updated(RowOf(s, k), m)
  <1>1. k \in Keys /\ m.qty \in Int BY DEF MoveType
  <1>2. RowOf(s, k) \in RowType \cup {NoRow} /\ RowOf(s, k).qty \in Int /\ RowOf(s, k).reserved \in Int
        /\ (k \notin DOMAIN s => RowOf(s, k) = NoRow) /\ (k \in DOMAIN s => RowOf(s, k) = s[k])
    BY <1>1, RowIs
  <1>3. RowOf(s, k).available = RowOf(s, k).qty - RowOf(s, k).reserved BY <1>2 DEF Even, NoRow
  <1>4. row \in RowType /\ row.available = RowOf(s, k).qty + Effect(m.kind, m.qty) - RowOf(s, k).reserved
    <2>1. /\ row \in RowType /\ row.qty = RowOf(s, k).qty + Effect(m.kind, m.qty)
          /\ row.reserved = RowOf(s, k).reserved /\ row.available = row.qty - row.reserved
      <3> HIDE DEF k
      <3> QED BY <1>2, UpdatedBy
    <2>2. Effect(m.kind, m.qty) \in Int BY <1>1, EffectIs
    <2> HIDE DEF row, k
    <2> QED BY <1>2, <2>1, <2>2
  <1>5. Effect(m.kind, m.qty) \in Int BY <1>1, EffectIs
  <1>6. Stepped(s, m) = With(s, k, row) BY <1>1, SavedNow DEF Stepped
  <1> HIDE DEF row
  <1>7. Ready(With(s, k, row), b) = Ready(s, b) + (IF InPart(k, b) THEN row.available - RowOf(s, k).available ELSE 0)
    BY <1>1, <1>4, ReadyWith
  <1> QED BY <1>2, <1>3, <1>4, <1>5, <1>6, <1>7 DEF GainBy

\* The first of up to two updates, and the other
LEMMA GainInt == ASSUME NEW m \in MoveType, NEW b PROVE GainBy(m, b) \in Int
  BY EffectIs DEF GainBy, MoveType

\* What updates add is what the first adds and what the others add.
LEMMA GainFirst ==
    ASSUME NEW t \in Moves, t # << >>, Short(t), NEW b
    PROVE  Gain(t, b) = GainBy(Head(t), b) + Gain(Tail(t), b)
           /\ GainBy(Head(t), b) \in Int /\ Gain(Tail(t), b) \in Int
  <1>1. Head(t) \in MoveType /\ Tail(t) \in Moves BY HeadIn, FirstMove
  <1>2. GainBy(Head(t), b) \in Int BY <1>1, GainInt
  <1>3. CASE Tail(t) = << >> BY <1>2, <1>3 DEF Gain
  <1>4. CASE Tail(t) # << >>
    <2> DEFINE u == Tail(t)
    <2>1. Tail(u) = << >> BY <1>4 DEF Short
    <2>2. Head(u) \in MoveType BY <1>1, <1>4, HeadIn
    <2>3. GainBy(Head(u), b) \in Int BY <2>2, GainInt
    <2> QED BY <1>2, <1>4, <2>1, <2>3 DEF Gain
  <1> QED BY <1>3, <1>4

\* The updates of a request that are made stop being updates to make.
LEMMA CoversOn ==
    ASSUME NEW s, RowsTyped(s), Even(s), NEW t \in Moves, t # << >>, Short(t), NEW q \in Int, NEW b
    PROVE  Covers(Stepped(s, Head(t)), Tail(t), q, b) = Covers(s, t, q, b)
  BY HeadIn, ReadySteps, ReadyInt, GainFirst DEF Covers

\* The sums CheckIsExact and CheckInvoiceStock take over rows
LEMMA ReadyIs ==
    ASSUME NEW s, RowsTyped(s), NEW b
    PROVE  /\ SumFunctionOnSet([k \in DOMAIN s |-> s[k].available], DOMAIN s) = Ready(s, Unbatched)
           /\ b # Unbatched =>
                SumFunctionOnSet([k \in {j \in DOMAIN s : j[2] = b} |-> s[k].available], {j \in DOMAIN s : j[2] = b})
                  = Ready(s, b)
  <1> DEFINE D == DOMAIN s
             P == {j \in D : j[2] = b}
             f == [k \in D |-> IF InPart(k, b) THEN s[k].available ELSE 0]
             g == [k \in P |-> s[k].available]
  <1>1. \A k \in D : s[k].available \in Int BY DEF RowsTyped, RowType
  <1>2. [k \in D |-> s[k].available] = [k \in D |-> IF InPart(k, Unbatched) THEN s[k].available ELSE 0]
    BY DEF InPart
  <1>3. SumFunctionOnSet([k \in D |-> s[k].available], D) = Ready(s, Unbatched) BY <1>2 DEF Ready
  <1>4. ASSUME b # Unbatched PROVE SumFunctionOnSet(g, P) = Ready(s, b)
    BY <1>1, <1>4, FilteredSum DEF InPart, RowsTyped, Ready
  <1> QED BY <1>3, <1>4

\* Up to one update
LEMMA GainOf ==
    ASSUME NEW b
    PROVE  /\ Gain(<< >>, b) = 0
           /\ \A m \in MoveType : Gain(<< m >>, b) = GainBy(m, b)
  BY GainInt DEF Gain

\* What the check takes an invoice's own sale to give back is what undoing it
\* gives back.
LEMMA OwnBack ==
    ASSUME TypeInv, NEW i, Single(Own(entries, i)), \A e \in Own(entries, i) : e.kind = "sale" /\ Approved(e), NEW b
    PROVE  LET own == {e \in EntriesOf(i) : e.kind = "sale" /\ Approved(e)}
               u   == Undone(EntriesOf(i))
           IN  /\ Gain(u, b) \in Int
               /\ SumFunctionOnSet([e \in own |-> -e.qty], own) = Gain(u, Unbatched)
               /\ b # Unbatched => LET part == {e \in own : e.key[2] = b}
                                   IN  SumFunctionOnSet([e \in part |-> -e.qty], part) = Gain(u, b)
  <1> DEFINE S    == EntriesOf(i)
             own  == {e \in S : e.kind = "sale" /\ Approved(e)}
             part == {e \in own : e.key[2] = b}
             u    == Undone(S)
  <1>1. S = Own(entries, i) BY DEF EntriesOf, Own
  <1>2. own = S /\ Single(S) /\ \A e \in S : Approved(e) BY <1>1
  <1>3. S \subseteq EntryType BY EntriesOfTyped
  <1>4. CASE S = {} BY <1>2, <1>4, UndoneIs, GainOf, SumEmpty
  <1>5. CASE S # {}
    <2>1. PICK e \in S : TRUE BY <1>5
    <2>2. S = {e} /\ own = {e} /\ e \in EntryType /\ Approved(e) BY <1>2, <1>3, <2>1 DEF Single
    <2> DEFINE m == Move(e.key, "adjustment", -e.qty)
    <2>3. u = << m >> BY <1>2, <2>1, UndoneIs DEF Back
    <2>4. e.qty \in Int /\ e.key \in Keys BY <2>2 DEF EntryType
    <2>5. m \in MoveType BY <2>4 DEF Move, MoveType, AllKinds, Kinds
    <2>6. \A c : GainBy(m, c) = IF InPart(e.key, c) THEN -e.qty ELSE 0 BY DEF GainBy, Move, Effect
    <2>7. \A c : Gain(u, c) = IF InPart(e.key, c) THEN -e.qty ELSE 0
      <3> HIDE DEF m
      <3> QED BY <2>3, <2>5, <2>6, GainOf
    <2>8. SumFunctionOnSet([x \in own |-> -x.qty], own) = -e.qty BY <2>4, <2>2, SumOne
    <2>9. ASSUME b # Unbatched
          PROVE  SumFunctionOnSet([x \in part |-> -x.qty], part) = IF InPart(e.key, b) THEN -e.qty ELSE 0
      <3>1. CASE e.key[2] = b BY <2>4, <2>2, <3>1, SumOne DEF InPart
      <3>2. CASE e.key[2] # b BY <2>2, <3>2, SumEmpty, <2>9 DEF InPart
      <3> QED BY <3>1, <3>2
    <2>10. InPart(e.key, Unbatched) BY DEF InPart
    <2> DEFINE all == SumFunctionOnSet([x \in own |-> -x.qty], own)
               lot == SumFunctionOnSet([x \in part |-> -x.qty], part)
    <2> HIDE DEF u, all, lot, m
    <2>11. /\ Gain(u, b) \in Int /\ all = Gain(u, Unbatched) /\ (b # Unbatched => lot = Gain(u, b))
      BY <2>8, <2>9, <2>4, <2>7, <2>10 DEF all, lot
    <2> QED BY <2>11 DEF all, lot, u
  <1> QED BY <1>4, <1>5

\* The check answers whether there is enough once the invoice's own sale is undone.
LEMMA CheckForetells ==
    ASSUME TypeInv, NEW i, Single(Own(entries, i)), \A e \in Own(entries, i) : e.kind = "sale" /\ Approved(e),
           NEW q \in Int, NEW b
    PROVE  (Check(i, q, b) = "enough") = Covers(stock, Undone(EntriesOf(i)), q, b)
  <1> DEFINE own  == {e \in EntriesOf(i) : e.kind = "sale" /\ Approved(e)}
             part == {e \in own : e.key[2] = b}
             D    == DOMAIN stock
             P    == {k \in DOMAIN stock : k[2] = b}
             u    == Undone(EntriesOf(i))
             OnHandOf(K) == SumFunctionOnSet([k \in K |-> stock[k].available], K)
             SoldOf(S)   == SumFunctionOnSet([e \in S |-> -e.qty], S)
  <1>1. Warned(i, q, b) <=> \/ OnHandOf(D) + SoldOf(own) < q
                            \/ b # Unbatched /\ OnHandOf(P) + SoldOf(part) < q
    BY DEF Warned, OnHand, Sold, Sum
  <1>2. RowsTyped(stock) BY TypeParts
  <1>3. OnHandOf(D) = Ready(stock, Unbatched) /\ (b # Unbatched => OnHandOf(P) = Ready(stock, b))
    BY <1>2, ReadyIs
  <1>4. SoldOf(own) = Gain(u, Unbatched) /\ Gain(u, Unbatched) \in Int BY OwnBack
  <1>5. (b # Unbatched => SoldOf(part) = Gain(u, b)) /\ Gain(u, b) \in Int BY OwnBack
  <1>6. Ready(stock, Unbatched) \in Int /\ Ready(stock, b) \in Int BY <1>2, ReadyInt
  <1> HIDE DEF u, OnHandOf, SoldOf, D, P, own, part
  <1>7. Warned(i, q, b) <=> ~Covers(stock, u, q, b) BY <1>1, <1>3, <1>4, <1>5, <1>6 DEF Covers
  <1>8. (Check(i, q, b) = "enough") <=> Covers(stock, u, q, b) BY <1>7 DEF Check
  <1>9. Covers(stock, u, q, b) \in BOOLEAN BY DEF Covers
  <1> QED BY <1>8, <1>9 DEF u

Watched == {"rewrite", "save", "sell", "sold"}

\* A request that sells nothing foretells nothing.
LEMMA Unwatched == ASSUME NEW s, NEW I, NEW y, y.op \notin Watched PROVE Foretold(s, I, y)
  BY DEF Foretold, Watched

\* Requests that are over, or that only move stock, sell nothing.
LEMMA RestUnwatched == /\ Idle.op \notin Watched
                       /\ \A t : Rest(t).op \notin Watched
  BY DEF Watched, Idle, Rest

\* The handlers of entries sell nothing: they leave a request that foretells nothing.
LEMMA EntriesForetold ==
    ASSUME TypeInv, NEW r \in Requests, EntrySteps(r)
    PROVE  req'[r].op \notin Watched
  <1>1. DOMAIN req = Requests BY DEF TypeInv, RequestsTyped
  <1>2. \A y : req' = [req EXCEPT ![r] = y] => req'[r] = y BY <1>1
  <1>3. ASSUME NEW y, Go(r, y) PROVE req'[r] = y BY <1>2, <1>3 DEF Go
  <1>4. ASSUME End(r) PROVE req'[r].op \notin Watched BY <1>2, <1>4, RestUnwatched DEF End
  <1>5. ASSUME NEW t, req' = [req EXCEPT ![r] = Rest(t)] PROVE req'[r].op \notin Watched
    BY <1>2, <1>5, RestUnwatched
  <1>6. ASSUME NEW kind, NEW k, NEW q, CreateStockEntry(r, kind, k, q) PROVE req'[r].op \notin Watched
    BY <1>5, <1>6 DEF CreateStockEntry
  <1>7. ASSUME NEW k, NEW q, ReadBulkRow(r, k, q) PROVE req'[r].op \notin Watched
    BY <1>3, <1>7 DEF ReadBulkRow, Watched
  <1>8. ASSUME AdjustBulkRow(r) PROVE req'[r].op \notin Watched BY <1>4, <1>5, <1>8 DEF AdjustBulkRow
  <1>9. ASSUME NEW e, NEW op \in {"edit", "approve", "reject"}, LoadEntry(r, op, e) PROVE req'[r].op \notin Watched
    BY <1>3, <1>9 DEF LoadEntry, Watched
  <1>10. ASSUME NEW q, NEW b, UpdateStockEntry(r, q, b) PROVE req'[r].op \notin Watched
    BY <1>5, <1>10 DEF UpdateStockEntry
  <1>11. ASSUME ApproveStockEntry(r) \/ RejectStockEntry(r) PROVE req'[r].op \notin Watched
    BY <1>3, <1>11 DEF ApproveStockEntry, RejectStockEntry, Watched
  <1>12. ASSUME Sync(r) \/ SyncAll(r) \/ ReserveStock(r) \/ ReleaseStock(r) PROVE req'[r].op \notin Watched
    BY <1>4, <1>12 DEF Sync, SyncAll, ReserveStock, ReleaseStock
  <1>13. ASSUME LoadPending(r) \/ ApproveNext(r) PROVE req'[r].op \notin Watched
    BY <1>3, <1>13 DEF LoadPending, ApproveNext, Watched
  <1>14. ASSUME NEW op \in {"reserve", "release"}, NEW o, NEW b, NEW q, LoadReservation(r, op, o, b, q)
         PROVE  req'[r].op \notin Watched
    BY <1>14, <1>3 DEF LoadReservation, Watched
  <1> QED BY <1>6, <1>7, <1>8, <1>9, <1>10, <1>11, <1>12, <1>13, <1>14 DEF EntrySteps

\* Reading a row changes nothing a check is about.
LEMMA ReadRowForetold ==
    ASSUME NEW r, Told(r), ReadRow(r), Foretold(stock, invoices, req[r])
    PROVE  Foretold(stock', invoices', req'[r])
  BY ReadRowTyped, ToldParts, SameReads DEF ReadRow, tables, Idle, Foretold

\* A request that goes on to its next update
LEMMA LaterForetells ==
    ASSUME NEW x \in RequestType, x.op \in {"rewrite", "save"}, NEW t, NEW g
    PROVE  LET y == Later(x, t, g)
           IN  y.op = x.op /\ y.todo = t /\ y.check = x.check /\ y.new = x.new
  BY SameSaves, RequestIs DEF Idle, Same, RewriteType, Later

\* Saving a row makes the update that was foretold.
LEMMA SaveRowForetold ==
    ASSUME NEW r, Told(r), SaveRow(r), Foretold(stock, invoices, req[r])
    PROVE  Foretold(stock', invoices', req'[r])
  <1> DEFINE x == req[r]
             m == Head(x.todo)
             s == stock
             t == Tail(x.todo)
  <1>1. req'[r] = Onward(x) BY SaveRowTyped, ToldParts
  <1>2. invoices' = invoices /\ x.todo # << >> /\ stock' = Stepped(s, m)
    BY ToldParts DEF SaveRow, Idle, Knows, Stepped
  <1>3. x \in RequestType /\ x # Idle BY <1>2, ToldParts DEF Idle
  <1>4. x.todo \in Moves /\ Short(x.todo) /\ RowsTyped(s) /\ Even(s)
    BY <1>3, RequestIs, ToldParts, TypeParts DEF Held
  <1>5. CASE x.op \in {"rewrite", "save"}
    <2> DEFINE y == Later(x, t, NotRead)
    <2>1. Onward(x) = y BY <1>5 DEF Onward, Later
    <2>2. y.op = x.op /\ y.todo = t /\ y.check = x.check /\ y.new = x.new BY <1>3, <1>5, LaterForetells
    <2>3. x.new.qty \in Int BY <1>5, DocIs, ToldParts, SignIs DEF InvoiceType
    <2>4. (x.check = "enough") = Covers(s, x.todo, x.new.qty, x.new.batch) BY <1>5 DEF Foretold
    <2> HIDE DEF x, y, s, t, m
    <2>5. Covers(Stepped(s, Head(x.todo)), Tail(x.todo), x.new.qty, x.new.batch) = Covers(s, x.todo, x.new.qty, x.new.batch)
      BY <1>2, <1>4, <2>3, CoversOn
    <2>6. Foretold(stock', invoices', y) BY <1>2, <1>5, <2>2, <2>4, <2>5 DEF Foretold, m, t
    <2> QED BY <1>1, <2>1, <2>6 DEF x
  <1>6. CASE x.op = "sold"
    <2>1. Onward(x) = Idle BY <1>6 DEF Onward, Foretold
    <2> QED BY <1>1, <2>1, RestUnwatched, Unwatched
  <1>7. CASE x.op \notin {"rewrite", "save", "sold"}
    <2>1. x.op # "sell" BY <1>2 DEF Foretold
    <2>2. Onward(x) = Idle \/ Onward(x).op = x.op
      <3>1. CASE t = << >> /\ x.op = "finish" BY <3>1 DEF Onward
      <3>2. CASE ~ (t = << >> /\ x.op = "finish")
        <4>1. Onward(x) = Later(x, t, NotRead) BY <1>7, <3>2 DEF Onward, Later
        <4> HIDE DEF t
        <4>2. Later(x, t, NotRead).op = x.op BY <1>3, SameSaves DEF Same
        <4> QED BY <4>1, <4>2
      <3> QED BY <3>1, <3>2
    <2>3. Onward(x).op \notin Watched BY <1>7, <2>1, <2>2, RestUnwatched DEF Watched
    <2> QED BY <1>1, <2>3, Unwatched
  <1> QED BY <1>5, <1>6, <1>7

\* A sale that is created or rewritten starts with what the check answers.
LEMMA ChecksForetell ==
    ASSUME NEW r, Told(r), req[r] = Idle, NEW i \in Invoices, NEW q \in Int, NEW b
    PROVE  /\ (Check(i, q, b) = "enough") = Covers(stock, Undone(EntriesOf(i)), q, b)
           /\ invoices[i].doc = "unused" => Undone(EntriesOf(i)) = << >>
  <1>1. Single(Own(entries, i)) /\ (\A e \in Own(entries, i) : e.kind = "sale" /\ Approved(e))
        /\ (invoices[i].doc = "unused" => Own(entries, i) = {})
    <2>1. SaleOf(entries, invoices, Idle, i) BY ToldParts
    <2> QED BY <2>1 DEF SaleOf, Idle, Selling, Unselling, Counts
  <1>2. EntriesOf(i) = Own(entries, i) BY DEF EntriesOf, Own
  <1>3. Own(entries, i) = {} => Undone(EntriesOf(i)) = << >> BY <1>1, <1>2, UndoneIs
  <1> QED BY <1>1, <1>3, CheckForetells, ToldParts

\* A sale of a new invoice starts with what the check answers.
LEMMA CreateInvoiceForetold ==
    ASSUME NEW r, Told(r), NEW i \in Invoices, NEW st \in Statuses, NEW q \in Quantities, NEW b \in Lots,
           CreateInvoice(r, i, st, q, b)
    PROVE  Foretold(stock', invoices', req'[r])
  <1> DEFINE y == [op |-> "sell", doc |-> i, check |-> Check(i, q, b), todo |-> << >>, got |-> NotRead]
  <1>1. /\ req[r] = Idle /\ invoices[i].doc = "unused" /\ invoices' = [invoices EXCEPT ![i] = Invoice(st, q, b)]
        /\ req'[r] = y /\ stock' = stock
    BY CreateInvoiceTyped, ToldParts
  <1>2. invoices'[i].qty = q /\ invoices'[i].batch = b BY <1>1, ToldParts DEF TypeInv, InvoicesTyped, Invoice
  <1>3. q \in Int BY SignIs
  <1>4. (Check(i, q, b) = "enough") = Covers(stock, << >>, q, b) BY <1>1, <1>3, ChecksForetell
  <1> QED BY <1>1, <1>2, <1>4 DEF Foretold

\* A sale that is rewritten starts with what the check answers, its own sale undone.
LEMMA LoadInvoiceForetold ==
    ASSUME NEW r, Told(r), NEW i \in Invoices, NEW st \in Statuses, NEW q \in Quantities, NEW b \in Lots,
           LoadInvoice(r, i, st, q, b)
    PROVE  Foretold(stock', invoices', req'[r])
  <1> DEFINE u == Undone(EntriesOf(i))
             y == [op |-> "rewrite", doc |-> i, new |-> Invoice(st, q, b), check |-> Check(i, q, b),
                   todo |-> u, got |-> NotRead]
  <1>1. req[r] = Idle /\ req'[r] = y /\ stock' = stock BY LoadInvoiceTyped, ToldParts, SinglesHold DEF tables
  <1>2. q \in Int BY SignIs
  <1>3. (Check(i, q, b) = "enough") = Covers(stock, u, q, b) BY <1>1, <1>2, ChecksForetell
  <1>4. y.new.qty = q /\ y.new.batch = b BY DEF Invoice
  <1> HIDE DEF u
  <1> QED BY <1>1, <1>3, <1>4 DEF Foretold

\* Dropping the entries of an invoice changes no row.
LEMMA DropEntriesForetold ==
    ASSUME NEW r, Told(r), DropEntries(r), Foretold(stock, invoices, req[r])
    PROVE  Foretold(stock', invoices', req'[r])
  <1> DEFINE x == req[r]
             y == [x EXCEPT !.op = "save"]
  <1>1. /\ x.op \in {"rewrite", "unsell"} /\ x.todo = << >>
        /\ (x.op = "unsell" => req'[r] = Idle) /\ (x.op = "rewrite" => req'[r] = y)
        /\ stock' = stock
    BY DropEntriesTyped, ToldParts
  <1>2. CASE x.op = "unsell" BY <1>1, <1>2, RestUnwatched, Unwatched
  <1>3. CASE x.op = "rewrite" BY <1>3, RequestIs, ToldParts, <1>1 DEF RewriteType, Foretold, x
  <1> QED BY <1>1, <1>2, <1>3

\* The invoice is saved with the batch and the quantity the check was asked about.
LEMMA SaveInvoiceForetold ==
    ASSUME NEW r, Told(r), SaveInvoice(r), Foretold(stock, invoices, req[r])
    PROVE  Foretold(stock', invoices', req'[r])
  <1> DEFINE x == req[r]
             y == [x EXCEPT !.op = "sell"]
  <1>1. /\ x.op = "save" /\ x.todo = << >> /\ req'[r] = y /\ stock' = stock
        /\ invoices' = [invoices EXCEPT ![x.doc] = x.new]
    BY SaveInvoiceTyped, ToldParts
  <1>2. x \in RewriteType BY <1>1, RequestIs, ToldParts
  <1>3. y.op = "sell" /\ y.todo = x.todo /\ y.check = x.check /\ y.doc = x.doc BY <1>2 DEF RewriteType
  <1>4. invoices'[x.doc] = x.new BY <1>1, DocIs, ToldParts DEF TypeInv, InvoicesTyped
  <1> HIDE DEF x, y
  <1> QED BY <1>1, <1>3, <1>4 DEF Foretold, x

\* The sale takes what was asked for from the batch that was named.
LEMMA SellForetold ==
    ASSUME NEW r, Told(r), Sell(r), Foretold(stock, invoices, req[r])
    PROVE  Foretold(stock', invoices', req'[r])
  <1> DEFINE x == req[r]
             line == invoices[x.doc]
             s == stock
  <1>1. x.op = "sell" /\ stock' = s /\ (~Counts(line) => req'[r] = Idle) BY SellTyped, ToldParts
  <1>2. CASE ~Counts(line) BY <1>1, <1>2, RestUnwatched, Unwatched
  <1>3. CASE Counts(line)
    <2>1. line \in InvoiceType BY <1>3, SellTyped, ToldParts
    <2>2. PICK key \in Keys :
             /\ line.batch # Unbatched => key[2] = line.batch
             /\ req'[r] = [op |-> "sold", todo |-> << Move(key, "sale", line.qty) >>,
                           check |-> req[r].check, batch |-> line.batch, got |-> NotRead]
      BY <1>3, SellTyped, ToldParts
    <2> DEFINE m == Move(key, "sale", line.qty)
               y == req'[r]
               q == line.qty
               b == line.batch
    <2>3. q \in Int /\ q > 0 BY <2>1, SignIs DEF InvoiceType
    <2>4. m \in MoveType BY <2>3 DEF Move, MoveType, AllKinds, Kinds
    <2>5. GainBy(m, Unbatched) = -q /\ (b # Unbatched => GainBy(m, b) = -q)
      BY <2>2, <2>3 DEF GainBy, InPart, Move, Effect, Abs2
    <2>6. y.op = "sold" /\ y.todo = << m >> /\ y.check = x.check /\ y.batch = b BY <2>2
    <2>7. RowsTyped(s) BY ToldParts, TypeParts
    <2> HIDE DEF m, y, q, b, s, x
    <2>8. Gain(<< m >>, Unbatched) = -q /\ (b # Unbatched => Gain(<< m >>, b) = -q) BY <2>4, <2>5, GainOf
    <2>9. Ready(s, Unbatched) \in Int /\ Ready(s, b) \in Int BY <2>7, ReadyInt
    <2>10. Gain(<< >>, Unbatched) = 0 /\ Gain(<< >>, b) = 0 BY GainOf
    <2>11. Covers(s, << m >>, 0, b) = Covers(s, << >>, q, b) BY <2>3, <2>8, <2>9, <2>10 DEF Covers
    <2>12. x.check # "none" => (x.check = "enough") = Covers(s, << >>, q, b) BY <1>1 DEF Foretold, x, s, q, b
    <2>13. Tail(<< m >>) = << >> OBVIOUS
    <2>14. Foretold(stock', invoices', y) BY <1>1, <2>6, <2>11, <2>12, <2>13 DEF Foretold
    <2> QED BY <2>14 DEF y
  <1> QED BY <1>2, <1>3

\* A status that is patched asks no check.
LEMMA PatchStatusForetold ==
    ASSUME NEW r, Told(r), NEW i \in Invoices, NEW st \in Statuses, PatchStatus(r, i, st)
    PROVE  Foretold(stock', invoices', req'[r])
  <1>1. LET old == invoices[i].st
        IN  /\ st = "cancelled" =>
                 req'[r] = [op |-> "unsell", doc |-> i, todo |-> Undone(EntriesOf(i)), got |-> NotRead]
            /\ st # "cancelled" /\ old = "cancelled" =>
                 req'[r] = [op |-> "sell", doc |-> i, check |-> "none", todo |-> << >>, got |-> NotRead]
            /\ st # "cancelled" /\ old # "cancelled" => req'[r] = Idle
    BY PatchStatusTyped, ToldParts, SinglesHold
  <1>2. \/ req'[r].op = "unsell" \/ req'[r] = Idle
        \/ req'[r].op = "sell" /\ req'[r].check = "none" /\ req'[r].todo = << >>
    BY <1>1
  <1> QED BY <1>2 DEF Foretold, Idle

\* Invoices that are deleted, and requests that are refused, foretell nothing.
LEMMA OthersForetold ==
    ASSUME NEW r, Told(r), DeleteInvoice(r) \/ Refuse(r) \/ \E i \in Invoices : LoadDelete(r, i)
    PROVE  Foretold(stock', invoices', req'[r])
  <1>1. CASE DeleteInvoice(r) BY <1>1, DeleteInvoiceTyped, ToldParts, RestUnwatched, Unwatched
  <1>2. CASE Refuse(r) BY <1>2, RefuseTyped, ToldParts, RestUnwatched, Unwatched
  <1>3. CASE \E i \in Invoices : LoadDelete(r, i)
    BY <1>3, LoadDeleteTyped, ToldParts, SinglesHold, Unwatched DEF Watched
  <1> QED BY <1>1, <1>2, <1>3

\* Every step keeps what was foretold.
LEMMA NextForetold ==
    ASSUME NEW r, Requests = {r}, TypeInv, Tale, Foretold(stock, invoices, req[r]), [Next]_vars
    PROVE  Foretold(stock', invoices', req'[r])
  <1> DEFINE Goal == Foretold(stock', invoices', req'[r])
  <1> SUFFICES Goal OBVIOUS
  <1>1. Told(r) BY DEF Told, Tale
  <1>2. CASE UNCHANGED vars BY <1>2 DEF vars
  <1>3. CASE ReadRow(r) BY <1>1, <1>3, ReadRowForetold
  <1>4. CASE SaveRow(r) BY <1>1, <1>4, SaveRowForetold
  <1>5. CASE EntrySteps(r) BY <1>1, <1>5, EntriesForetold, Unwatched, ToldParts
  <1>6. CASE SaleSteps(r)
    <2> HIDE DEF Goal
    <2>1. ASSUME NEW i \in Invoices, NEW st \in Statuses, NEW q \in Quantities, NEW b \in Lots,
                 CreateInvoice(r, i, st, q, b) \/ LoadInvoice(r, i, st, q, b)
          PROVE  Goal
      BY <1>1, <2>1, CreateInvoiceForetold, LoadInvoiceForetold DEF Goal
    <2>2. ASSUME NEW i \in Invoices, NEW st \in Statuses, PatchStatus(r, i, st)
          PROVE  Goal
      BY <1>1, <2>2, PatchStatusForetold DEF Goal
    <2>3. CASE DropEntries(r) BY <1>1, <2>3, DropEntriesForetold DEF Goal
    <2>4. CASE SaveInvoice(r) BY <1>1, <2>4, SaveInvoiceForetold DEF Goal
    <2>5. CASE Sell(r) BY <1>1, <2>5, SellForetold DEF Goal
    <2>6. CASE DeleteInvoice(r) \/ Refuse(r) \/ \E i \in Invoices : LoadDelete(r, i)
      BY <1>1, <2>6, OthersForetold DEF Goal
    <2> QED BY <1>6, <2>1, <2>2, <2>3, <2>4, <2>5, <2>6 DEF SaleSteps
  <1>7. CASE BillSteps(r)
    <2>1. req[r] = Idle /\ req' = req BY <1>7 DEF BillSteps, CreateBill, UpdateBill, DeleteBill, Start
    <2> QED BY <2>1, RestUnwatched, Unwatched
  <1> HIDE DEF Goal
  <1>8. CASE Next BY <1>3, <1>4, <1>5, <1>6, <1>7, <1>8 DEF Next, Goal
  <1> QED BY <1>2, <1>8 DEF Goal

\* The row that ends a sale leaves what was foretold.
LEMMA SaleLeaves ==
    ASSUME NEW r, Told(r), Foretold(stock, invoices, req[r]), TypeInv',
           SaveRow(r), req[r].op = "sold", req[r].check # "none"
    PROVE  LET Left(keys) == Sum(keys, LAMBDA k : stock'[k].available)
           IN  (req[r].check = "enough") =
                  /\ Left(DOMAIN stock') >= 0
                  /\ req[r].batch # Unbatched => Left({k \in DOMAIN stock' : k[2] = req[r].batch}) >= 0
  <1> DEFINE x == req[r]
             m == Head(x.todo)
             b == x.batch
             s == stock
             u == stock'
             all  == SumFunctionOnSet([k \in DOMAIN u |-> u[k].available], DOMAIN u)
             part == SumFunctionOnSet([k \in {j \in DOMAIN u : j[2] = b} |-> u[k].available], {j \in DOMAIN u : j[2] = b})
  <1>1. x.todo # << >> /\ u = Stepped(s, m) BY ToldParts DEF SaveRow, Idle, Knows, Stepped
  <1>2. x \in RequestType /\ x # Idle BY ToldParts DEF Idle
  <1>3. x.todo \in Moves /\ Short(x.todo) /\ RowsTyped(s) /\ Even(s)
    BY <1>2, RequestIs, ToldParts, TypeParts DEF Held
  <1>4. Tail(x.todo) = << >> /\ (x.check = "enough") = Covers(s, x.todo, 0, b) BY DEF Foretold
  <1>5. RowsTyped(u) BY DEF TypeInv, RowsTyped
  <1> HIDE DEF x, s, u, b, all, part
  <1>6. Covers(u, << >>, 0, b) = Covers(s, x.todo, 0, b)
    <2> DEFINE t == x.todo
    <2>1. t \in Moves /\ t # << >> /\ Short(t) /\ 0 \in Int BY <1>1, <1>3
    <2> HIDE DEF t
    <2>2. Covers(Stepped(s, Head(t)), Tail(t), 0, b) = Covers(s, t, 0, b) BY <1>3, <2>1, CoversOn
    <2> QED BY <1>1, <1>4, <2>2 DEF t
  <1>7. all = Ready(u, Unbatched) /\ (b # Unbatched => part = Ready(u, b)) BY <1>5, ReadyIs DEF all, part
  <1>8. Ready(u, Unbatched) \in Int /\ Ready(u, b) \in Int BY <1>5, ReadyInt
  <1>9. Gain(<< >>, Unbatched) = 0 /\ Gain(<< >>, b) = 0 BY GainOf
  <1>10. Covers(u, << >>, 0, b) <=> (all >= 0 /\ (b # Unbatched => part >= 0)) BY <1>7, <1>8, <1>9 DEF Covers
  <1>11. (x.check = "enough") = (all >= 0 /\ (b # Unbatched => part >= 0))
    <2>1. Covers(u, << >>, 0, b) \in BOOLEAN BY DEF Covers
    <2> QED BY <1>4, <1>6, <1>10, <2>1
  <1> QED BY <1>11 DEF Sum, all, part, u, b, x

\* What the check of the sale form answers is what the sale it was asked about
\* leaves: it warns exactly when the sale leaves less than nothing of the product,
\* or of the batch it names, wherever the goods are taken from.
THEOREM CheckIsExactHolds == OneAtATime => (Spec => CheckIsExact)
  <1> SUFFICES ASSUME OneAtATime PROVE Spec => CheckIsExact OBVIOUS
  <1>1. PICK c : Requests = {c} BY DEF OneAtATime
  <1> DEFINE Ahead == Foretold(stock, invoices, req[c])
  <1>2. Init => Ahead
    <2>1. Init => req[c] = Idle BY <1>1 DEF Init
    <2> QED BY <2>1, RestUnwatched, Unwatched
  <1>3. TypeInv /\ Tale /\ Ahead /\ [Next]_vars => Ahead' BY <1>1, NextForetold
  <1>4. TypeInv /\ Tale /\ Ahead /\ TypeInv' =>
          [\A r \in Requests :
             SaveRow(r) /\ req[r].op = "sold" /\ req[r].check # "none" =>
               LET Left(keys) == Sum(keys, LAMBDA k : stock'[k].available)
               IN  (req[r].check = "enough") =
                      /\ Left(DOMAIN stock') >= 0
                      /\ req[r].batch # Unbatched =>
                            Left({k \in DOMAIN stock' : k[2] = req[r].batch}) >= 0]_vars
    BY <1>1, SaleLeaves DEF Told, Tale
  <1>5. Spec => [](TypeInv /\ Tale) BY StoryHolds
  <1> HIDE DEF Ahead
  <1> QED BY <1>2, <1>3, <1>4, <1>5, PTL DEF Spec, CheckIsExact
============================================================================
