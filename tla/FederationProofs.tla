--------------------------- MODULE FederationProofs ---------------------------
(***************************************************************************)
(* Theorems about Federation, for any number of processes, siblings,       *)
(* entries, symbols and failures, and any database of an older binary.     *)
(*                                                                         *)
(* Two invariants: IInv says what an undisturbed run can rely on, and      *)
(* proves the types and RunSettles; FInv says whose entries each name      *)
(* stands for, and proves OneRowPerEntry and OnlyTheMissingForgotten. Both *)
(* rest on Structure, the types and the names a run works under.           *)
(***************************************************************************)
EXTENDS Federation, TLAPS

-----------------------------------------------------------------------------
(* The invariants the proofs need.                                         *)

Migrating == {"strip", "dedupe", "rename", "unlink"}
Storing == {"link", "clear", "save", "import"}
Upserting == Migrating \cup Storing
Pruning == {"prune", "forget", "drop"}
Ending == {"check", "done"}

Session ==
  [pc : {"idle", "look", "pick"} \cup Upserting \cup Pruning \cup Ending,
   kind : {None, "scan", "impact"},
   todo : SUBSET Peers, found : Partial(Peers, Schema), left : SUBSET Peers,
   peer : Peers \cup {None}, old : SUBSET Names, edges : SUBSET Symbols,
   doomed : Partial(Names, Paths), gone : SUBSET Peers, alone : BOOLEAN,
   before : SUBSET (Names \X Symbols),
   report : SUBSET ((Peers \X Symbols) \cup (Peers \X Symbols \X Txs))]

\* A bag of these elements.
BagOf(S, b) == DOMAIN b \subseteq S /\ b \in [DOMAIN b -> Nat \ {0}]

WorldTypes ==
  /\ disk \in [Peers -> Schema \cup {Missing, Torn}]
  /\ exporting \in [Peers -> Schema \cup {None}]
  /\ recent \in [Peers -> SUBSET Txs]
  /\ api \in [Peers -> SUBSET Symbols]
StoreTypes ==
  /\ links \in Partial(Names, Paths)
  /\ BagOf(Names \X Symbols, deps) /\ BagOf(Names \X Txs, rows)
Types ==
  /\ WorldTypes /\ StoreTypes
  /\ run \in [Procs -> Session]
  /\ spent \in [runs : 0..MaxRuns, events : 0..MaxEvents, breaks : 0..MaxBreaks]

\* At most one link bears another name for a path.
OneOldName ==
  \A d \in Peers : \A m, n \in DOMAIN links \ {d} : links[m] = d /\ links[n] = d => m = n

\* What a run is at work on: a sibling it has read, and a single old name.
Working(p) ==
  LET r == run[p]
  IN  /\ r.left \subseteq DOMAIN r.found
      /\ r.pc = "look" => r.left = DOMAIN r.found
      /\ r.pc \in Upserting => r.peer \in DOMAIN r.found \ r.left
      /\ r.pc \in Migrating => \E n \in Names \ {r.peer} : r.old = {n}
      /\ r.pc = "save" => r.edges \subseteq r.found[r.peer].symbols
      /\ r.pc \in {"forget", "drop"} => \E n \in Names : r.old = {n}
      /\ r.pc \in Pruning \cup Ending /\ r.alone => r.left = {}

\* No other name leads to the sibling a run is storing, nor will one again.
Named(p) ==
  LET r == run[p]
  IN  /\ r.pc \in Migrating =>
            \A m \in DOMAIN links : links[m] = r.peer => m = r.peer \/ m \in r.old
      /\ r.pc \in Storing =>
            \A m \in DOMAIN links : links[m] = r.peer => m = r.peer

Structure == Types /\ OneOldName /\ \A p \in Procs : Working(p) /\ Named(p)

-----------------------------------------------------------------------------
(* A run that is alone.                                                    *)

\* The siblings such a run is through with.
Through(p) ==
  DOMAIN run[p].found \ (run[p].left \cup IF run[p].pc \in Upserting THEN {run[p].peer} ELSE {})

\* It has the store to itself, and what it found is still there.
Undisturbed(p) ==
  /\ \A q \in Procs \ {p} : run[q].pc = "idle"
  /\ \A d \in DOMAIN run[p].found : disk[d] # Missing
  /\ \A d \in Through(p) : Settled(p, d)

\* Of the sibling at hand, what is done so far.
Half(p) ==
  LET r == run[p]
  IN  /\ r.pc \in Migrating => \A n \in r.old : n \in DOMAIN links /\ links[n] = r.peer
      /\ r.pc \in Migrating \ {"strip"} => \A n \in r.old : OfName(deps, n) = {}
      /\ r.pc \in Storing \ {"link"} => r.peer \in DOMAIN links /\ links[r.peer] = r.peer
      /\ r.pc \in {"save", "import"} =>
            /\ OfName(deps, r.peer) =
                 {<<r.peer, s>> : s \in r.found[r.peer].symbols
                                        \ IF r.pc = "save" THEN r.edges ELSE {}}
            /\ \A x \in OfName(deps, r.peer) : deps[x] = 1

\* Of the links, which are still to be judged.
Swept(p) ==
  LET r == run[p]
  IN  /\ r.pc \in Pruning =>
            /\ \A n \in DOMAIN r.doomed : n \in DOMAIN links /\ links[n] = r.doomed[n]
            /\ \A n \in DOMAIN links :
                  \/ n \in DOMAIN r.doomed \/ ~Dead(links[n])
                  \/ r.pc # "prune" /\ n \in r.old
      /\ r.pc \in {"forget", "drop"} => \A n \in r.old :
            /\ n \notin DOMAIN r.doomed /\ OfName(deps, n) = {}
            /\ n \in DOMAIN links => Dead(links[n])
      /\ r.pc \in Ending => \A n \in DOMAIN links : ~Dead(links[n])

Alone(p) == run[p].alone => Undisturbed(p) /\ Half(p) /\ Swept(p)

IInv == Structure /\ \A p \in Procs : Alone(p)

-----------------------------------------------------------------------------
(* Whose entries are stored, if no older binary linked a path under the    *)
(* name of another sibling.                                                *)

OwnNames ==
  \A db \in OldDatabases :
    /\ \A n \in DOMAIN db.links \cap Peers : db.links[n] = n
    /\ \A x \in db.rows :
         /\ x[1] \in Peers => Owner[x[2]] = x[1]
         /\ x[1] \in DOMAIN db.links => Owner[x[2]] = db.links[x[1]]

\* A file of a sibling lists its own entries.
OfOwner(d, s) == s \in Schema => \A t \in s.entries : Owner[t] = d
FilesOwned ==
  /\ \A d \in Peers : /\ OfOwner(d, disk[d]) /\ OfOwner(d, exporting[d])
                      /\ \A t \in recent[d] : Owner[t] = d
  /\ \A p \in Procs : \A d \in DOMAIN run[p].found : OfOwner(d, run[p].found[d])

\* A name stands for the sibling that the entries under it belong to.
RowsOwned ==
  /\ \A n \in DOMAIN links \cap Peers : links[n] = n
  /\ \A x \in DOMAIN rows :
       /\ x[1] \in Peers => Owner[x[2]] = x[1]
       /\ x[1] \in DOMAIN links => Owner[x[2]] = links[x[1]]

\* The old name has no entries left, or still leads to the path.
Held(n, path) == OfName(rows, n) = {} \/ (n \in DOMAIN links /\ links[n] = path)

\* What a run believes of an old name stays true until its entries are gone.
Moving(p) ==
  LET r == run[p]
  IN  /\ r.pc \in Migrating => r.old \subseteq OldNames
      /\ r.pc \in Migrating => \A n \in r.old : Held(n, r.peer)
      /\ r.pc = "rename" => \A n \in r.old : \A t \in Txs :
            ~(<<n, t>> \in DOMAIN rows /\ <<r.peer, t>> \in DOMAIN rows)
      /\ r.pc = "unlink" => \A n \in r.old : OfName(rows, n) = {}
      /\ r.pc = "drop" => \A n \in r.old \cap OldNames : OfName(rows, n) = {}

\* What is about to be forgotten belongs to a sibling that had no file.
Forgetting(p) ==
  LET r == run[p]
  IN  /\ r.pc # "idle" => \A d \in Peers : disk[d] = Missing => d \in r.gone
      /\ \A n \in DOMAIN r.doomed :
            IF n \in Peers THEN r.doomed[n] = n ELSE Held(n, r.doomed[n])
      /\ r.pc = "forget" => \A n \in r.old :
            IF n \in Peers THEN n \in r.gone
                           ELSE \A x \in OfName(rows, n) : Owner[x[2]] \in r.gone

Attributed ==
  Structure /\ FilesOwned /\ RowsOwned /\ \A p \in Procs : Moving(p) /\ Forgetting(p)

FInv == Attributed /\ OneRowPerEntry

-----------------------------------------------------------------------------
(* The operators of the model.                                             *)

LEMMA PartialIs ==
  ASSUME NEW S, NEW T, NEW f
  PROVE  f \in Partial(S, T) <=> DOMAIN f \subseteq S /\ f \in [DOMAIN f -> T]
  BY DEF Partial

LEMMA PairIs ==
  ASSUME NEW S, NEW T, NEW x \in S \X T
  PROVE  x[1] \in S /\ x[2] \in T /\ x = <<x[1], x[2]>>
  OBVIOUS

LEMMA PutIs ==
  ASSUME NEW f, NEW x, NEW y
  PROVE  /\ DOMAIN Put(f, x, y) = DOMAIN f \cup {x}
         /\ \A z \in DOMAIN f \cup {x} : Put(f, x, y)[z] = IF z = x THEN y ELSE f[z]
  BY DEF Put

LEMMA PutPartial ==
  ASSUME NEW S, NEW T, NEW f \in Partial(S, T), NEW x \in S, NEW y \in T
  PROVE  Put(f, x, y) \in Partial(S, T)
  BY PartialIs DEF Put

LEMMA RestrictIs ==
  ASSUME NEW f, NEW D
  PROVE  /\ DOMAIN Restrict(f, D) = D
         /\ \A z \in D : Restrict(f, D)[z] = f[z]
  BY DEF Restrict

LEMMA RestrictPartial ==
  ASSUME NEW S, NEW T, NEW f \in Partial(S, T), NEW D, D \subseteq DOMAIN f
  PROVE  Restrict(f, D) \in Partial(S, T)
  BY PartialIs DEF Restrict

LEMMA RestrictBag ==
  ASSUME NEW S, NEW b, BagOf(S, b), NEW D, D \subseteq DOMAIN b
  PROVE  BagOf(S, Restrict(b, D))
  BY DEF Restrict, BagOf

LEMMA WithoutIs ==
  ASSUME NEW b, NEW n
  PROVE  /\ DOMAIN Without(b, n) = {x \in DOMAIN b : x[1] # n}
         /\ \A x \in DOMAIN Without(b, n) : Without(b, n)[x] = b[x]
<1>1. DOMAIN b \ OfName(b, n) = {x \in DOMAIN b : x[1] # n}
  BY DEF OfName
<1>. QED
  BY <1>1, RestrictIs DEF Without

LEMMA WithoutBag ==
  ASSUME NEW S, NEW b, BagOf(S, b), NEW n
  PROVE  BagOf(S, Without(b, n))
  BY RestrictBag DEF Without

LEMMA BagAddIs ==
  ASSUME NEW b, NEW x
  PROVE  /\ DOMAIN BagAdd(b, x) = DOMAIN b \cup {x}
         /\ \A y \in DOMAIN b \ {x} : BagAdd(b, x)[y] = b[y]
         /\ x \notin DOMAIN b => BagAdd(b, x)[x] = 1
  BY DEF BagAdd

LEMMA BagAddBag ==
  ASSUME NEW S, NEW b, BagOf(S, b), NEW x \in S
  PROVE  BagOf(S, BagAdd(b, x))
  BY DEF BagAdd, BagOf

LEMMA SetBagIs ==
  ASSUME NEW D
  PROVE  DOMAIN SetToBag(D) = D /\ \A x \in D : SetToBag(D)[x] = 1
  BY DEF SetToBag

LEMMA SetBagBag ==
  ASSUME NEW S, NEW D, D \subseteq S
  PROVE  BagOf(S, SetToBag(D))
  BY DEF SetToBag, BagOf

\* Adding rows that are not there adds each of them once.
LEMMA AddedIs ==
  ASSUME BagOf(Names \X Txs, rows), NEW D, D \subseteq Names \X Txs, D \cap DOMAIN rows = {}
  PROVE  /\ BagOf(Names \X Txs, rows (+) SetToBag(D))
         /\ DOMAIN (rows (+) SetToBag(D)) = DOMAIN rows \cup D
         /\ \A x \in DOMAIN rows : (rows (+) SetToBag(D))[x] = rows[x]
         /\ \A x \in D : (rows (+) SetToBag(D))[x] = 1
  BY DEF (+), SetToBag, BagOf

\* A rename moves every row of the old name and counts together what meets.
LEMMA RenamedIs ==
  ASSUME BagOf(Names \X Txs, rows), NEW n \in Names, NEW d \in Names, n # d
  PROVE  /\ BagOf(Names \X Txs, Renamed(n, d))
         /\ DOMAIN Renamed(n, d) =
              {x \in DOMAIN rows : x[1] # n} \cup {<<d, y[2]>> : y \in OfName(rows, n)}
         /\ \A x \in DOMAIN Renamed(n, d) :
              IF x[1] # d THEN x \in DOMAIN rows /\ Renamed(n, d)[x] = rows[x]
              ELSE IF <<n, x[2]>> \notin DOMAIN rows
                THEN x \in DOMAIN rows /\ Renamed(n, d)[x] = rows[x]
              ELSE x \notin DOMAIN rows => Renamed(n, d)[x] = rows[<<n, x[2]>>]
<1>. DEFINE D == {<<d, y[2]>> : y \in OfName(rows, n)}
            moved == [x \in D |-> rows[<<n, x[2]>>]]
            rest == Without(rows, n)
<1>1. /\ BagOf(Names \X Txs, rest) /\ DOMAIN rest = {x \in DOMAIN rows : x[1] # n}
      /\ \A x \in DOMAIN rest : rest[x] = rows[x]
  BY WithoutIs, WithoutBag
<1>2. /\ DOMAIN moved = D /\ BagOf(Names \X Txs, moved)
      /\ \A x \in D : x[1] = d /\ <<n, x[2]>> \in DOMAIN rows /\ moved[x] = rows[<<n, x[2]>>]
  <2>1. \A y \in OfName(rows, n) : y = <<n, y[2]>> /\ y \in DOMAIN rows /\ y[2] \in Txs
    BY PairIs DEF OfName, BagOf
  <2>2. D \subseteq Names \X Txs
    BY <2>1
  <2>3. \A x \in D : x[1] = d /\ <<n, x[2]>> \in DOMAIN rows
    BY <2>1
  <2>. QED
    BY <2>2, <2>3 DEF BagOf
<1>3. Renamed(n, d) = rest (+) moved
  BY DEF Renamed
<1>. HIDE DEF D, moved, rest
<1>4. /\ DOMAIN (rest (+) moved) = DOMAIN rest \cup D
      /\ BagOf(Names \X Txs, rest (+) moved)
      /\ \A x \in DOMAIN rest \ D : (rest (+) moved)[x] = rest[x]
      /\ \A x \in D \ DOMAIN rest : (rest (+) moved)[x] = moved[x]
  BY <1>1, <1>2 DEF (+), BagOf
<1>5. ASSUME NEW x \in DOMAIN rest \cup D
      PROVE  IF x[1] # d THEN x \in DOMAIN rows /\ (rest (+) moved)[x] = rows[x]
              ELSE IF <<n, x[2]>> \notin DOMAIN rows
                THEN x \in DOMAIN rows /\ (rest (+) moved)[x] = rows[x]
              ELSE x \notin DOMAIN rows => (rest (+) moved)[x] = rows[<<n, x[2]>>]
  <2>1. CASE x \notin D
    <3>1. x \in DOMAIN rows /\ (rest (+) moved)[x] = rows[x]
      BY <2>1, <1>1, <1>4
    <3>2. x[1] = d => <<n, x[2]>> \notin DOMAIN rows
      <4>1. SUFFICES ASSUME x[1] = d, <<n, x[2]>> \in DOMAIN rows PROVE x \in D
        BY <2>1
      <4>2. x = <<d, x[2]>>
        BY <3>1, <4>1 DEF BagOf
      <4>. QED
        BY <4>1, <4>2 DEF D, OfName
    <3>. QED
      BY <3>1, <3>2
  <2>2. CASE x \in D
    <3>1. x \notin DOMAIN rows => x \notin DOMAIN rest
      BY <1>1
    <3>. QED
      BY <2>2, <3>1, <1>2, <1>4
  <2>. QED
    BY <2>1, <2>2
<1>. QED
  BY <1>1, <1>3, <1>4, <1>5 DEF D

-----------------------------------------------------------------------------
(* What each step does to the run that takes it.                           *)

Unmoved(p) == \A q \in Procs \ {p} : run'[q] = run[q]
Own(p) == UNCHANGED <<run[p].kind, run[p].gone, run[p].alone>>
Step(p) == run' \in [Procs -> Session] /\ Unmoved(p) /\ Own(p)

LEMMA BecomesIs ==
  ASSUME Types, NEW p \in Procs, NEW r \in Session, Becomes(p, r)
  PROVE  run' \in [Procs -> Session] /\ run'[p] = r /\ Unmoved(p)
  BY DEF Types, Becomes, Unmoved

LEMMA GoesDoes ==
  ASSUME Types, NEW p \in Procs, NEW c \in Upserting \cup Pruning \cup Ending \cup {"pick"},
         Goes(p, c)
  PROVE  /\ Step(p) /\ run'[p].pc = c
         /\ UNCHANGED <<run[p].found, run[p].left, run[p].peer, run[p].old, run[p].edges,
                        run[p].doomed>>
<1>. DEFINE r == run[p]  q == [r EXCEPT !.pc = c]
<1>1. r \in Session
  BY DEF Types
<1>. HIDE DEF r
<1>2. /\ q \in Session /\ q.pc = c /\ q.kind = r.kind /\ q.gone = r.gone /\ q.alone = r.alone
      /\ q.found = r.found /\ q.left = r.left /\ q.peer = r.peer /\ q.old = r.old
      /\ q.edges = r.edges /\ q.doomed = r.doomed
  BY <1>1 DEF Session
<1>3. Becomes(p, q)
  BY DEF Goes, r
<1>. HIDE DEF q
<1>. QED
  BY <1>2, <1>3, BecomesIs DEF Step, Own, r

LEMMA LookedDoes ==
  ASSUME Types, WorldTypes', NEW p \in Procs, NEW d \in Peers, Looked(p, d)
  PROVE  /\ Step(p) /\ run'[p].pc \in {"look", "pick"}
         /\ run'[p].left = DOMAIN run'[p].found
         /\ UNCHANGED <<run[p].peer, run[p].old, run[p].edges, run[p].doomed>>
         /\ \/ run'[p].found = run[p].found
            \/ /\ disk'[d] \in Schema
               /\ run'[p].found = Put(run[p].found, d, disk'[d])
<1>. DEFINE r == run[p]
            f == IF disk'[d] \in Schema THEN Put(r.found, d, disk'[d]) ELSE r.found
            todo == r.todo \ {d}
            c == IF todo = {} THEN "pick" ELSE "look"
            q == [r EXCEPT !.todo = todo, !.found = f, !.left = DOMAIN f, !.pc = c]
<1>1. r \in Session
  BY DEF Types
<1>2. Becomes(p, q)
  BY DEF Looked
<1>3. f \in Partial(Peers, Schema) /\ DOMAIN f \subseteq Peers
  <2>1. r.found \in Partial(Peers, Schema)
    BY <1>1 DEF Session
  <2>. HIDE DEF r
  <2>2. f \in Partial(Peers, Schema)
    BY <2>1, PutPartial
  <2>. QED
    BY <2>2, PartialIs
<1>4. f = r.found \/ (disk'[d] \in Schema /\ f = Put(r.found, d, disk'[d]))
  OBVIOUS
<1>5. todo \in SUBSET Peers /\ c \in {"look", "pick"}
  BY <1>1 DEF Session
<1>. HIDE DEF r, f, todo, c
<1>6. /\ q \in Session /\ q.pc = c /\ q.kind = r.kind /\ q.gone = r.gone /\ q.alone = r.alone
      /\ q.found = f /\ q.left = DOMAIN f /\ q.peer = r.peer /\ q.old = r.old
      /\ q.edges = r.edges /\ q.doomed = r.doomed
  BY <1>1, <1>3, <1>5 DEF Session
<1>. HIDE DEF q
<1>7. run' \in [Procs -> Session] /\ run'[p] = q /\ Unmoved(p)
  BY <1>2, <1>6, BecomesIs
<1>. QED
  BY <1>4, <1>5, <1>6, <1>7 DEF Step, Own, r

LEMMA PickDoes ==
  ASSUME Types, NEW p \in Procs, Pick(p)
  PROVE  /\ At(p, "pick") /\ Step(p) /\ UNCHANGED <<world, store, spent>>
         /\ UNCHANGED <<run[p].found, run[p].edges, run[p].doomed>>
         /\ run'[p].peer \in run[p].left /\ run'[p].left = run[p].left \ {run'[p].peer}
         /\ run'[p].old = {n \in DOMAIN links : n # run'[p].peer /\ links[n] = run'[p].peer}
         /\ run'[p].pc = IF run'[p].old = {} THEN "link" ELSE "strip"
<1>. DEFINE r == run[p]
<1>1. r \in Session
  BY DEF Types
<1>2. PICK d \in r.left :
        LET o == {n \in DOMAIN links : n # d /\ links[n] = d}
        IN  Becomes(p, [r EXCEPT !.peer = d, !.left = @ \ {d}, !.old = o,
                                 !.pc = IF o = {} THEN "link" ELSE "strip"])
  BY DEF Pick
<1>. DEFINE o == {n \in DOMAIN links : n # d /\ links[n] = d}
            c == IF o = {} THEN "link" ELSE "strip"
            q == [r EXCEPT !.peer = d, !.left = @ \ {d}, !.old = o, !.pc = c]
<1>3. Becomes(p, q)
  BY <1>2
<1>4. o \in SUBSET Names /\ c \in Upserting /\ d \in Peers
  BY <1>1, PartialIs DEF Session, Types, StoreTypes, Upserting, Migrating, Storing
<1>5. o = {n \in DOMAIN links : n # d /\ links[n] = d} /\ c = IF o = {} THEN "link" ELSE "strip"
  OBVIOUS
<1>. HIDE DEF r, o, c
<1>6. /\ q \in Session /\ q.pc = c /\ q.kind = r.kind /\ q.gone = r.gone /\ q.alone = r.alone
      /\ q.found = r.found /\ q.left = r.left \ {d} /\ q.peer = d /\ q.old = o
      /\ q.edges = r.edges /\ q.doomed = r.doomed
  BY <1>1, <1>4 DEF Session
<1>. HIDE DEF q
<1>7. run' \in [Procs -> Session] /\ run'[p] = q /\ Unmoved(p)
  BY <1>3, <1>6, BecomesIs
<1>. QED
  BY <1>2, <1>5, <1>6, <1>7 DEF Step, Own, r, Pick, At

LEMMA EmptiedDoes ==
  ASSUME Types, NEW p \in Procs, NEW c \in Upserting \cup Pruning \cup Ending,
         Becomes(p, [run[p] EXCEPT !.old = {}, !.pc = c])
  PROVE  /\ Step(p) /\ run'[p].pc = c /\ run'[p].old = {}
         /\ UNCHANGED <<run[p].found, run[p].left, run[p].peer, run[p].edges, run[p].doomed>>
<1>. DEFINE r == run[p]  q == [r EXCEPT !.old = {}, !.pc = c]
<1>1. r \in Session
  BY DEF Types
<1>2. Becomes(p, q)
  OBVIOUS
<1>. HIDE DEF r
<1>3. /\ q \in Session /\ q.pc = c /\ q.kind = r.kind /\ q.gone = r.gone /\ q.alone = r.alone
      /\ q.found = r.found /\ q.left = r.left /\ q.peer = r.peer /\ q.old = {}
      /\ q.edges = r.edges /\ q.doomed = r.doomed
  BY <1>1 DEF Session
<1>. HIDE DEF q
<1>. QED
  BY <1>2, <1>3, BecomesIs DEF Step, Own, r

\* The contents a run works with are those it found, with the edges it chose.
LEMMA DiscoveredDoes ==
  ASSUME Types, NEW p \in Procs, run[p].peer \in DOMAIN run[p].found,
         NEW edges \in SUBSET run[p].found[run[p].peer].symbols, Discovered(p, edges)
  PROVE  /\ Step(p) /\ run'[p].edges = edges
         /\ run'[p].pc = IF edges = {} THEN AfterSave(p) ELSE "save"
         /\ UNCHANGED <<run[p].left, run[p].peer, run[p].old, run[p].doomed>>
         /\ DOMAIN run'[p].found = DOMAIN run[p].found
         /\ \A d \in DOMAIN run[p].found :
              /\ run'[p].found[d].entries = run[p].found[d].entries
              /\ run'[p].found[d].symbols =
                   IF d = run[p].peer THEN edges ELSE run[p].found[d].symbols
<1>. DEFINE r == run[p]
            f == [r.found EXCEPT ![r.peer] = [entries |-> @.entries, symbols |-> edges]]
            c == IF edges = {} THEN AfterSave(p) ELSE "save"
            q == [r EXCEPT !.edges = edges, !.found = f, !.pc = c]
<1>1. r \in Session /\ r.peer \in DOMAIN r.found /\ edges \subseteq r.found[r.peer].symbols
  BY DEF Types
<1>2. Becomes(p, q)
  BY DEF Discovered
<1>3. c \in {"import", "pick", "save"}
  BY DEF AfterSave
<1>. HIDE DEF r, c
<1>4. r.found \in Partial(Peers, Schema)
  BY <1>1 DEF Session
<1>5. r.found \in [DOMAIN r.found -> Schema] /\ DOMAIN r.found \subseteq Peers
  BY <1>4, PartialIs
<1>6. r.found[r.peer] \in Schema
  BY <1>1, <1>5
<1>7. edges \subseteq Symbols /\ [entries |-> r.found[r.peer].entries, symbols |-> edges] \in Schema
  BY <1>1, <1>6 DEF Schema
<1>8. /\ f \in [DOMAIN r.found -> Schema]
      /\ \A d \in DOMAIN r.found : f[d] = IF d = r.peer
           THEN [entries |-> r.found[r.peer].entries, symbols |-> edges] ELSE r.found[d]
  BY <1>1, <1>5, <1>7
<1>9. /\ DOMAIN f = DOMAIN r.found
      /\ \A d \in DOMAIN r.found :
              /\ f[d].entries = r.found[d].entries
              /\ f[d].symbols = IF d = r.peer THEN edges ELSE r.found[d].symbols
  BY <1>8
<1>10. f \in Partial(Peers, Schema)
  BY <1>5, <1>8, PartialIs
<1>. HIDE DEF f
<1>11. /\ q \in Session /\ q.pc = c /\ q.kind = r.kind /\ q.gone = r.gone /\ q.alone = r.alone
      /\ q.found = f /\ q.left = r.left /\ q.peer = r.peer /\ q.old = r.old
      /\ q.edges = edges /\ q.doomed = r.doomed
  BY <1>1, <1>3, <1>7, <1>10 DEF Session, Upserting, Storing
<1>. HIDE DEF q
<1>12. run' \in [Procs -> Session] /\ run'[p] = q /\ Unmoved(p)
  BY <1>2, <1>11, BecomesIs
<1>. QED
  BY <1>9, <1>11, <1>12 DEF Step, Own, r, c

LEMMA SaveDoes ==
  ASSUME Types, NEW p \in Procs, Save(p)
  PROVE  /\ At(p, "save") /\ KeyHolds(p) /\ Step(p) /\ UNCHANGED <<world, links, rows, spent>>
         /\ UNCHANGED <<run[p].found, run[p].left, run[p].peer, run[p].old, run[p].doomed>>
         /\ \E s \in run[p].edges :
              /\ run'[p].edges = run[p].edges \ {s} /\ deps' = BagAdd(deps, <<run[p].peer, s>>)
              /\ run'[p].pc = IF run'[p].edges = {} THEN AfterSave(p) ELSE "save"
<1>. DEFINE r == run[p]
<1>1. r \in Session
  BY DEF Types
<1>2. PICK s \in r.edges :
        LET rest == r.edges \ {s}
        IN  /\ deps' = BagAdd(deps, <<run[p].peer, s>>)
            /\ Becomes(p, [r EXCEPT !.edges = rest,
                                    !.pc = IF rest = {} THEN AfterSave(p) ELSE "save"])
  BY DEF Save
<1>. DEFINE rest == r.edges \ {s}
            c == IF rest = {} THEN AfterSave(p) ELSE "save"
            q == [r EXCEPT !.edges = rest, !.pc = c]
<1>3. Becomes(p, q)
  BY <1>2
<1>4. rest \in SUBSET Symbols /\ c \in {"import", "pick", "save"}
  BY <1>1 DEF Session, AfterSave
<1>5. c = (IF rest = {} THEN AfterSave(p) ELSE "save") /\ rest = r.edges \ {s}
  OBVIOUS
<1>. HIDE DEF r, rest, c
<1>6. /\ q \in Session /\ q.pc = c /\ q.kind = r.kind /\ q.gone = r.gone /\ q.alone = r.alone
      /\ q.found = r.found /\ q.left = r.left /\ q.peer = r.peer /\ q.old = r.old
      /\ q.edges = rest /\ q.doomed = r.doomed
  BY <1>1, <1>4 DEF Session, Upserting, Storing
<1>. HIDE DEF q
<1>7. run' \in [Procs -> Session] /\ run'[p] = q /\ Unmoved(p)
  BY <1>3, <1>6, BecomesIs
<1>. QED
  BY <1>2, <1>5, <1>6, <1>7 DEF Step, Own, r, Save

LEMMA OutOfTimeDoes ==
  ASSUME Types, NEW p \in Procs, OutOfTime(p)
  PROVE  /\ At(p, "pick") /\ Step(p) /\ run'[p].pc = "pick" /\ UNCHANGED <<world, store, spent>>
         /\ UNCHANGED <<run[p].peer, run[p].old, run[p].edges, run[p].doomed>>
         /\ run'[p].left = {} /\ DOMAIN run'[p].found = DOMAIN run[p].found \ run[p].left
         /\ \A d \in DOMAIN run'[p].found : run'[p].found[d] = run[p].found[d]
<1>. DEFINE r == run[p]
            f == Restrict(r.found, DOMAIN r.found \ r.left)
            q == [r EXCEPT !.found = f, !.left = {}]
<1>1. r \in Session /\ r.pc = "pick"
  BY DEF Types, OutOfTime, At
<1>2. Becomes(p, q)
  BY DEF OutOfTime
<1>. HIDE DEF r
<1>3. f \in Partial(Peers, Schema)
  BY <1>1, RestrictPartial DEF Session
<1>4. DOMAIN f = DOMAIN r.found \ r.left /\ \A d \in DOMAIN f : f[d] = r.found[d]
  BY RestrictIs
<1>. HIDE DEF f
<1>5. /\ q \in Session /\ q.pc = r.pc /\ q.kind = r.kind /\ q.gone = r.gone /\ q.alone = r.alone
      /\ q.found = f /\ q.left = {} /\ q.peer = r.peer /\ q.old = r.old
      /\ q.edges = r.edges /\ q.doomed = r.doomed
  BY <1>1, <1>3 DEF Session
<1>. HIDE DEF q
<1>6. run' \in [Procs -> Session] /\ run'[p] = q /\ Unmoved(p)
  BY <1>2, <1>5, BecomesIs
<1>. QED
  BY <1>1, <1>4, <1>5, <1>6 DEF Step, Own, r, OutOfTime

LEMMA ReadLinksDoes ==
  ASSUME Types, NEW p \in Procs, ReadLinks(p)
  PROVE  /\ At(p, "pick") /\ run[p].left = {} /\ Step(p) /\ UNCHANGED <<world, store, spent>>
         /\ run'[p].doomed = links
         /\ run'[p].pc = IF DOMAIN links = {} THEN AfterPrune(p) ELSE "prune"
         /\ UNCHANGED <<run[p].found, run[p].left, run[p].peer, run[p].old, run[p].edges>>
<1>. DEFINE r == run[p]
            c == IF DOMAIN links = {} THEN AfterPrune(p) ELSE "prune"
            q == [r EXCEPT !.doomed = links, !.pc = c]
<1>1. r \in Session /\ c \in {"done", "check", "prune"} /\ links \in Partial(Names, Paths)
  BY DEF Types, StoreTypes, AfterPrune
<1>2. Becomes(p, q)
  BY DEF ReadLinks
<1>. HIDE DEF r, c
<1>3. /\ q \in Session /\ q.pc = c /\ q.kind = r.kind /\ q.gone = r.gone /\ q.alone = r.alone
      /\ q.found = r.found /\ q.left = r.left /\ q.peer = r.peer /\ q.old = r.old
      /\ q.edges = r.edges /\ q.doomed = links
  BY <1>1 DEF Session, Pruning, Ending
<1>. HIDE DEF q
<1>4. run' \in [Procs -> Session] /\ run'[p] = q /\ Unmoved(p)
  BY <1>2, <1>3, BecomesIs
<1>. QED
  BY <1>3, <1>4 DEF Step, Own, r, c, ReadLinks

LEMMA JudgedDoes ==
  ASSUME Types, NEW p \in Procs, NEW n \in DOMAIN run[p].doomed, NEW pc \in {"prune", "forget"},
         Judged(p, n, pc)
  PROVE  /\ Step(p)
         /\ DOMAIN run'[p].doomed = DOMAIN run[p].doomed \ {n}
         /\ \A m \in DOMAIN run'[p].doomed : run'[p].doomed[m] = run[p].doomed[m]
         /\ run'[p].old = IF pc = "forget" THEN {n} ELSE {}
         /\ run'[p].pc = IF pc = "prune" /\ DOMAIN run'[p].doomed = {} THEN AfterPrune(p) ELSE pc
         /\ UNCHANGED <<run[p].found, run[p].left, run[p].peer, run[p].edges>>
         /\ n \in Names
<1>. DEFINE r == run[p]
            rest == Restrict(r.doomed, DOMAIN r.doomed \ {n})
            o == IF pc = "forget" THEN {n} ELSE {}
            c == IF pc # "prune" THEN pc ELSE IF DOMAIN rest = {} THEN AfterPrune(p) ELSE "prune"
            q == [r EXCEPT !.doomed = rest, !.old = o, !.pc = c]
<1>1. r \in Session
  BY DEF Types
<1>2. Becomes(p, q)
  BY DEF Judged
<1>3. c \in Pruning \cup Ending
  BY DEF AfterPrune, Pruning, Ending
<1>4. n \in Names
  BY <1>1, PartialIs DEF Session
<1>5. o \in SUBSET Names /\ o = IF pc = "forget" THEN {n} ELSE {}
  BY <1>4
<1>6. c = IF pc = "prune" /\ DOMAIN rest = {} THEN AfterPrune(p) ELSE pc
  OBVIOUS
<1>. HIDE DEF c, o
<1>7. /\ DOMAIN rest = DOMAIN r.doomed \ {n} /\ \A m \in DOMAIN rest : rest[m] = r.doomed[m]
  BY RestrictIs
<1>. HIDE DEF r
<1>8. rest \in Partial(Names, Paths)
  BY <1>1, RestrictPartial DEF Session
<1>. HIDE DEF rest
<1>9. /\ q \in Session /\ q.pc = c /\ q.kind = r.kind /\ q.gone = r.gone /\ q.alone = r.alone
      /\ q.found = r.found /\ q.left = r.left /\ q.peer = r.peer /\ q.old = o
      /\ q.edges = r.edges /\ q.doomed = rest
  BY <1>1, <1>3, <1>5, <1>8 DEF Session
<1>. HIDE DEF q
<1>10. run' \in [Procs -> Session] /\ run'[p] = q /\ Unmoved(p)
  BY <1>2, <1>9, BecomesIs
<1>. QED
  BY <1>4, <1>5, <1>6, <1>7, <1>9, <1>10 DEF Step, Own, r

LEMMA ReportTypes ==
  ASSUME Types
  PROVE  Report \in SUBSET ((Peers \X Symbols) \cup (Peers \X Symbols \X Txs))
<1>. DEFINE live == {d \in {links[n] : n \in DOMAIN links} \ {Root} : Readable(d)}
            used(d) == {x[2] : x \in OfName(deps, d)}
            removed == UNION {{<<d, s>> : s \in used(d) \ disk[d].symbols} : d \in live}
            changed == {x \in live \X Symbols \X Txs :
                    LET d == x[1]  s == x[2]  t == x[3]
                    IN  /\ s \in used(d) \cap disk[d].symbols
                        /\ <<d, t>> \in DOMAIN rows /\ t \in recent[Owner[t]]
                        /\ Lower[EntryFile[t]] = File[s]}
<1>1. live \subseteq Peers
  BY PartialIs DEF Types, StoreTypes, Paths
<1>2. \A d : used(d) \subseteq Symbols
  <2>1. \A x \in DOMAIN deps : x[2] \in Symbols
    BY PairIs DEF Types, StoreTypes, BagOf
  <2>. QED
    BY <2>1 DEF OfName
<1>3. Report = removed \cup changed
  BY DEF Report
<1>. HIDE DEF live, used
<1>4. removed \subseteq Peers \X Symbols
  BY <1>1, <1>2
<1>5. changed \subseteq Peers \X Symbols \X Txs
  <2>. SUFFICES ASSUME NEW x \in live \X Symbols \X Txs PROVE x \in Peers \X Symbols \X Txs
    OBVIOUS
  <2>. QED
    BY <1>1
<1>. QED
  BY <1>3, <1>4, <1>5

LEMMA CheckDoes ==
  ASSUME Types, NEW p \in Procs, Check(p)
  PROVE  /\ At(p, "check") /\ Step(p) /\ run'[p].pc = "done" /\ UNCHANGED <<world, store, spent>>
         /\ UNCHANGED <<run[p].found, run[p].left, run[p].peer, run[p].old, run[p].edges,
                        run[p].doomed>>
<1>. DEFINE r == run[p]  q == [r EXCEPT !.report = Report, !.pc = "done"]
<1>1. r \in Session
  BY DEF Types
<1>2. Becomes(p, q)
  BY DEF Check
<1>. HIDE DEF r
<1>3. /\ q \in Session /\ q.pc = "done" /\ q.kind = r.kind /\ q.gone = r.gone
      /\ q.alone = r.alone
      /\ q.found = r.found /\ q.left = r.left /\ q.peer = r.peer /\ q.old = r.old
      /\ q.edges = r.edges /\ q.doomed = r.doomed
  BY <1>1, ReportTypes DEF Session, Ending
<1>. HIDE DEF q
<1>. QED
  BY <1>2, <1>3, BecomesIs DEF Step, Own, r, Check

LEMMA EmptyPartial ==
  ASSUME NEW S, NEW T
  PROVE  <<>> \in Partial(S, T) /\ DOMAIN <<>> = {}
<1>1. DOMAIN <<>> = {}
  OBVIOUS
<1>2. <<>> \in [{} -> T]
  OBVIOUS
<1>. QED
  BY <1>1, <1>2, PartialIs

LEMMA IdleIs ==
  /\ Idle \in Session /\ Idle.pc = "idle" /\ ~Idle.alone
  /\ Idle.found = <<>> /\ Idle.left = {} /\ Idle.doomed = <<>> /\ Idle.old = {}
  /\ Idle.peer = None /\ Idle.gone = {}
  BY EmptyPartial DEF Idle, Session

\* A run that ends, breaks off or gives up leaves the store as it is.
LEMMA EndDoes ==
  ASSUME Types, NEW p \in Procs, End(p) \/ Fails(p) \/ Dies(p)
  PROVE  /\ p \in Running /\ UNCHANGED <<world, store>>
         /\ run' \in [Procs -> Session] /\ Unmoved(p) /\ ~run'[p].alone
         /\ spent' \in [runs : 0..MaxRuns, events : 0..MaxEvents, breaks : 0..MaxBreaks]
         /\ \/ run'[p] = Idle
            \/ /\ run'[p].pc = "check" /\ run'[p].gone = run[p].gone
               /\ run'[p].doomed = run[p].doomed
               /\ run'[p].found = run[p].found /\ run'[p].left = run[p].left
<1>. DEFINE q == [run[p] EXCEPT !.pc = "check", !.alone = FALSE]
<1>1. p \in Running /\ UNCHANGED <<world, store>>
  BY DEF End, Fails, Dies, Running, At
<1>2. Becomes(p, Idle) \/ Becomes(p, q)
  BY DEF End, Fails, Dies
<1>3. spent' \in [runs : 0..MaxRuns, events : 0..MaxEvents, breaks : 0..MaxBreaks]
  <2>1. CASE UNCHANGED spent
    BY <2>1 DEF Types
  <2>2. CASE Spend("breaks", MaxBreaks)
    BY <2>2, BoundsAssumption DEF Spend, Types
  <2>. QED
    BY <2>1, <2>2 DEF End, Fails, Dies
<1>4. CASE Becomes(p, Idle)
  BY <1>1, <1>3, <1>4, IdleIs, BecomesIs
<1>5. CASE Becomes(p, q)
  <2>. DEFINE r == run[p]
  <2>1. r \in Session
    BY DEF Types
  <2>2. q = [r EXCEPT !.pc = "check", !.alone = FALSE]
    OBVIOUS
  <2>. HIDE DEF r, q
  <2>3. /\ q \in Session /\ q.pc = "check" /\ q.gone = r.gone /\ q.alone = FALSE
        /\ q.doomed = r.doomed /\ q.found = r.found /\ q.left = r.left
    BY <2>1, <2>2 DEF Session, Ending
  <2>. QED
    BY <1>1, <1>3, <1>5, <2>3, BecomesIs DEF r
<1>. QED
  BY <1>2, <1>4, <1>5

LEMMA BeginDoes ==
  ASSUME Types, NEW p \in Procs, Begin(p)
  PROVE  /\ At(p, "idle") /\ UNCHANGED <<world, store>>
         /\ run' \in [Procs -> Session]
         /\ spent' \in [runs : 0..MaxRuns, events : 0..MaxEvents, breaks : 0..MaxBreaks]
         /\ run'[p].pc = "look" /\ run'[p].found = <<>> /\ run'[p].left = {}
         /\ run'[p].doomed = <<>> /\ run'[p].old = {} /\ run'[p].peer = None
         /\ run'[p].gone = {d \in Peers : disk[d] = Missing}
         /\ run'[p].alone => Running = {}
         /\ \A q \in Procs \ {p} :
              /\ ~run'[q].alone
              /\ UNCHANGED <<run[q].pc, run[q].kind, run[q].gone, run[q].found, run[q].left,
                             run[q].peer, run[q].old, run[q].edges, run[q].doomed>>
<1>1. At(p, "idle") /\ UNCHANGED <<world, store>>
  BY DEF Begin
<1>2. spent' \in [runs : 0..MaxRuns, events : 0..MaxEvents, breaks : 0..MaxBreaks]
  <2>1. Spend("runs", MaxRuns)
    BY DEF Begin
  <2>. QED
    BY <2>1, BoundsAssumption DEF Spend, Types
<1>3. PICK kind \in {"scan", "impact"} :
       run' = [q \in Procs |->
                 IF q = p
                   THEN [Idle EXCEPT !.pc = "look", !.kind = kind, !.todo = Peers,
                                     !.gone = {d \in Peers : disk[d] = Missing},
                                     !.alone = Running = {},
                                     !.before = IF kind = "impact"
                                                  THEN DOMAIN deps ELSE {}]
                   ELSE [run[q] EXCEPT !.alone = FALSE]]
  BY DEF Begin
<1>. DEFINE gone == {d \in Peers : disk[d] = Missing}
            before == IF kind = "impact" THEN DOMAIN deps ELSE {}
            lone == Running = {}
            new == [Idle EXCEPT !.pc = "look", !.kind = kind, !.todo = Peers, !.gone = gone,
                                !.alone = lone, !.before = before]
<1>4. /\ new \in Session
      /\ new.pc = "look" /\ new.found = <<>> /\ new.left = {} /\ new.doomed = <<>>
      /\ new.old = {} /\ new.peer = None /\ new.gone = gone
      /\ new.alone => Running = {}
  <2>1. before \in SUBSET (Names \X Symbols) /\ gone \in SUBSET Peers
    BY DEF Types, StoreTypes, BagOf
  <2>2. lone \in BOOLEAN /\ (lone => Running = {})
    OBVIOUS
  <2>. HIDE DEF before, gone, lone
  <2>. QED
    BY <2>1, <2>2, IdleIs DEF Session
<1>5. ASSUME NEW q \in Procs \ {p}
      PROVE  /\ run'[q] \in Session /\ ~run'[q].alone
             /\ UNCHANGED <<run[q].pc, run[q].kind, run[q].gone, run[q].found, run[q].left,
                            run[q].peer, run[q].old, run[q].edges, run[q].doomed>>
  <2>. DEFINE r == run[q]
  <2>1. r \in Session /\ run'[q] = [r EXCEPT !.alone = FALSE]
    BY <1>3 DEF Types
  <2>. HIDE DEF r
  <2>2. LET s == [r EXCEPT !.alone = FALSE]
        IN  /\ s \in Session /\ ~s.alone /\ s.pc = r.pc /\ s.kind = r.kind /\ s.gone = r.gone
            /\ s.found = r.found /\ s.left = r.left /\ s.peer = r.peer /\ s.old = r.old
            /\ s.edges = r.edges /\ s.doomed = r.doomed
    BY <2>1 DEF Session
  <2>. QED
    BY <2>1, <2>2 DEF r
<1>6. run'[p] = new /\ run' \in [Procs -> Session]
  <2>1. run'[p] = new
    BY <1>3
  <2>2. \A q \in Procs : run'[q] \in Session
    BY <2>1, <1>4, <1>5
  <2>. QED
    BY <1>3, <2>1, <2>2
<1>. HIDE DEF new
<1>. QED
  BY <1>1, <1>2, <1>4, <1>5, <1>6

\* What the siblings do to the runs.
LEMMA EventsDo ==
  ASSUME Types, Events
  PROVE  /\ WorldTypes' /\ UNCHANGED store /\ run' \in [Procs -> Session]
         /\ spent' \in [runs : 0..MaxRuns, events : 0..MaxEvents, breaks : 0..MaxBreaks]
         /\ \A p \in Procs :
              /\ UNCHANGED <<run[p].pc, run[p].kind, run[p].found, run[p].left,
                             run[p].peer, run[p].old, run[p].edges, run[p].doomed>>
              /\ run[p].gone \subseteq run'[p].gone
              /\ run'[p].alone => run[p].alone /\ UNCHANGED disk
              /\ run[p].pc # "idle" =>
                   \A d \in Peers : disk'[d] = Missing => disk[d] = Missing \/ d \in run'[p].gone
         /\ \A d \in Peers : disk'[d] = disk[d] \/ disk'[d] \in {Missing, Torn, exporting[d]}
         /\ \A d \in Peers : exporting'[d] \in {exporting[d], None, Current(d)}
         /\ \A d \in Peers : \A t \in recent'[d] : t \in recent[d] \/ Owner[t] = d
<1>. DEFINE Runs ==
       /\ run' \in [Procs -> Session]
       /\ \A p \in Procs :
              /\ UNCHANGED <<run[p].pc, run[p].kind, run[p].found, run[p].left,
                             run[p].peer, run[p].old, run[p].edges, run[p].doomed>>
              /\ run[p].gone \subseteq run'[p].gone
              /\ run'[p].alone => run[p].alone /\ UNCHANGED disk
              /\ run[p].pc # "idle" =>
                   \A d \in Peers : disk'[d] = Missing => disk[d] = Missing \/ d \in run'[p].gone
<1>1. spent' \in [runs : 0..MaxRuns, events : 0..MaxEvents, breaks : 0..MaxBreaks]
  <2>1. Spend("events", MaxEvents)
    BY DEF Events
  <2>. QED
    BY <2>1, BoundsAssumption DEF Spend, Types
<1>2. ASSUME UNCHANGED <<disk, run>> PROVE Runs
  BY <1>2 DEF Types
<1>3. ASSUME NEW d \in Peers, Disturb(d), \A e \in Peers \ {d} : disk'[e] = disk[e]
      PROVE  Runs
  <2>1. ASSUME NEW p \in Procs
        PROVE  /\ run'[p] \in Session
               /\ UNCHANGED <<run[p].pc, run[p].kind, run[p].found, run[p].left,
                             run[p].peer, run[p].old, run[p].edges, run[p].doomed>>
               /\ run[p].gone \subseteq run'[p].gone /\ ~run'[p].alone
               /\ run[p].pc # "idle" => (disk'[d] = Missing => d \in run'[p].gone)
    <3>. DEFINE r == run[p]
                more == IF disk'[d] = Missing /\ p \in Running THEN {d} ELSE {}
    <3>1. r \in Session /\ run'[p] = [r EXCEPT !.alone = FALSE, !.gone = @ \cup more]
      BY <1>3 DEF Types, Disturb
    <3>2. more \subseteq Peers /\ (disk'[d] = Missing /\ run[p].pc # "idle" => d \in more)
      BY DEF Running
    <3>. HIDE DEF r, more
    <3>3. LET q == [r EXCEPT !.alone = FALSE, !.gone = @ \cup more]
          IN  /\ q \in Session /\ q.pc = r.pc /\ q.kind = r.kind /\ q.gone = r.gone \cup more
              /\ q.alone = FALSE
              /\ q.found = r.found /\ q.left = r.left /\ q.peer = r.peer /\ q.old = r.old
              /\ q.edges = r.edges /\ q.doomed = r.doomed
      BY <3>1, <3>2 DEF Session
    <3>. QED
      BY <3>1, <3>2, <3>3 DEF r
  <2>2. run' \in [Procs -> Session]
    BY <1>3, <2>1 DEF Disturb
  <2>. QED
    BY <1>3, <2>1, <2>2
<1>. HIDE DEF Runs
<1>. DEFINE World ==
       /\ WorldTypes' /\ UNCHANGED store
       /\ \A d \in Peers : disk'[d] = disk[d] \/ disk'[d] \in {Missing, Torn, exporting[d]}
       /\ \A d \in Peers : exporting'[d] \in {exporting[d], None, Current(d)}
       /\ \A d \in Peers : \A t \in recent'[d] : t \in recent[d] \/ Owner[t] = d
<1>4. PICK d \in Peers : \/ Commits(d) \/ Ages(d) \/ ChangesApi(d)
                         \/ ExportOpens(d) \/ ExportWrites(d) \/ ExportDies(d)
                         \/ Leaves(d)
  BY DEF Events, Siblings
<1>5. Current(d) \in Schema
  BY DEF Current, Schema, Types, WorldTypes
<1>6. CASE Commits(d)
  <2>1. PICK t \in Txs : Owner[t] = d /\ recent' = [recent EXCEPT ![d] = @ \cup {t}]
    BY <1>6 DEF Commits
  <2>2. UNCHANGED <<disk, exporting, api, store, run>>
    BY <1>6 DEF Commits
  <2>. QED
    BY <1>1, <1>2, <2>1, <2>2 DEF Runs, Types, WorldTypes
<1>7. CASE Ages(d)
  <2>1. PICK t \in recent[d] : recent' = [recent EXCEPT ![d] = @ \ {t}]
    BY <1>7 DEF Ages
  <2>2. UNCHANGED <<disk, exporting, api, store, run>>
    BY <1>7 DEF Ages
  <2>. QED
    BY <1>1, <1>2, <2>1, <2>2 DEF Runs, Types, WorldTypes
<1>8. CASE ChangesApi(d)
  <2>1. PICK s \in Symbols :
          api' = [api EXCEPT ![d] = IF s \in @ THEN @ \ {s} ELSE @ \cup {s}]
    BY <1>8 DEF ChangesApi
  <2>2. UNCHANGED <<disk, exporting, recent, store, run>>
    BY <1>8 DEF ChangesApi
  <2>. QED
    BY <1>1, <1>2, <2>1, <2>2 DEF Runs, Types, WorldTypes
<1>9. CASE ExportOpens(d)
  <2>1. /\ exporting' = [exporting EXCEPT ![d] = Current(d)] /\ disk' = [disk EXCEPT ![d] = Torn]
        /\ UNCHANGED <<recent, api, store>> /\ Disturb(d)
    BY <1>9 DEF ExportOpens
  <2>2. World
    BY <1>5, <2>1 DEF Types, WorldTypes
  <2>3. \A e \in Peers \ {d} : disk'[e] = disk[e]
    BY <2>1 DEF Types, WorldTypes
  <2>4. Runs
    BY <1>3, <2>1, <2>3
  <2>. QED
    BY <1>1, <2>2, <2>4 DEF Runs
<1>10. CASE ExportWrites(d)
  <2>1. /\ exporting[d] # None
        /\ disk' = [disk EXCEPT ![d] = IF @ = Missing THEN Missing ELSE exporting[d]]
        /\ exporting' = [exporting EXCEPT ![d] = None]
        /\ UNCHANGED <<recent, api, store>> /\ Disturb(d)
    BY <1>10 DEF ExportWrites
  <2>2. World
    BY <2>1 DEF Types, WorldTypes
  <2>3. \A e \in Peers \ {d} : disk'[e] = disk[e]
    BY <2>1 DEF Types, WorldTypes
  <2>4. Runs
    BY <1>3, <2>1, <2>3
  <2>. QED
    BY <1>1, <2>2, <2>4 DEF Runs
<1>11. CASE ExportDies(d)
  <2>1. exporting' = [exporting EXCEPT ![d] = None] /\ UNCHANGED <<disk, recent, api, store, run>>
    BY <1>11 DEF ExportDies
  <2>2. World
    BY <2>1 DEF Types, WorldTypes
  <2>. QED
    BY <1>1, <1>2, <2>1, <2>2 DEF Runs
<1>12. CASE Leaves(d)
  <2>1. /\ disk' = [disk EXCEPT ![d] = Missing]
        /\ UNCHANGED <<exporting, recent, api, store>> /\ Disturb(d)
    BY <1>12 DEF Leaves
  <2>2. World
    BY <2>1 DEF Types, WorldTypes
  <2>3. \A e \in Peers \ {d} : disk'[e] = disk[e]
    BY <2>1 DEF Types, WorldTypes
  <2>4. Runs
    BY <1>3, <2>1, <2>3
  <2>. QED
    BY <1>1, <2>2, <2>4 DEF Runs
<1>. QED
  BY <1>4, <1>6, <1>7, <1>8, <1>9, <1>10, <1>11, <1>12

-----------------------------------------------------------------------------
(* Types, and the names a run works under.                                 *)

SpentType == [runs : 0..MaxRuns, events : 0..MaxEvents, breaks : 0..MaxBreaks]

\* A link that is not under the basename is an old one.
NoNewName == \A m \in DOMAIN links' : links'[m] # m => m \in DOMAIN links /\ links'[m] = links[m]

LEMMA SameWorld ==
  ASSUME Types, UNCHANGED world
  PROVE  WorldTypes'
  BY DEF Types, WorldTypes, world

LEMMA SameStore ==
  ASSUME Types, UNCHANGED store
  PROVE  StoreTypes' /\ NoNewName
  BY DEF Types, StoreTypes, store, NoNewName

LEMMA SameLinks ==
  ASSUME UNCHANGED links
  PROVE  NoNewName
  BY DEF NoNewName

LEMMA StructureInit == Init => Structure
<1>. SUFFICES ASSUME Init PROVE Structure
  OBVIOUS
<1>1. PICK db \in OldDatabases : links = db.links /\ rows = SetToBag(db.rows)
  BY DEF Init
<1>2. db.links \in Partial(Names, Paths) /\ db.rows \subseteq Names \X Txs /\ OneOldName
  BY <1>1, OldAssumption DEF OneOldName
<1>3. BagOf(Names \X Txs, rows)
  BY <1>1, <1>2, SetBagBag
<1>4. BagOf(Names \X Symbols, deps)
  BY SetBagBag DEF Init, EmptyBag
<1>5. StoreTypes
  BY <1>1, <1>2, <1>3, <1>4 DEF StoreTypes
<1>6. WorldTypes
  BY DEF Init, WorldTypes, Schema
<1>7. run \in [Procs -> Session] /\ \A p \in Procs : run[p] = Idle
  BY IdleIs DEF Init
<1>8. spent \in SpentType
  BY BoundsAssumption DEF Init, SpentType
<1>9. ASSUME NEW p \in Procs PROVE Working(p) /\ Named(p)
  BY <1>7, IdleIs DEF Working, Named, Upserting, Migrating, Storing, Pruning, Ending
<1>. QED
  BY <1>2, <1>5, <1>6, <1>7, <1>8, <1>9 DEF Structure, Types, SpentType

LEMMA StructureStep ==
  ASSUME Structure, NEW p \in Procs, run' \in [Procs -> Session], Unmoved(p),
         WorldTypes', StoreTypes', spent' \in SpentType, NoNewName, Working(p)', Named(p)'
  PROVE  Structure'
<1>1. OneOldName'
  BY DEF Structure, OneOldName, NoNewName
<1>2. ASSUME NEW q \in Procs \ {p} PROVE Working(q)' /\ Named(q)'
  <2>1. run'[q] = run[q] /\ Working(q) /\ Named(q)
    BY DEF Unmoved, Structure
  <2>. QED
    BY <2>1 DEF Working, Named, NoNewName
<1>. QED
  BY <1>1, <1>2 DEF Structure, Types, SpentType

LEMMA SpentStays ==
  ASSUME Types, UNCHANGED spent
  PROVE  spent' \in SpentType
  BY DEF Types, SpentType

LEMMA FoundIs ==
  ASSUME Types, NEW p \in Procs
  PROVE  /\ run[p] \in Session /\ DOMAIN run[p].found \subseteq Peers
         /\ \A d \in DOMAIN run[p].found : run[p].found[d] \in Schema
         /\ DOMAIN run[p].doomed \subseteq Names /\ run[p].left \subseteq Peers
         /\ \A n \in DOMAIN run[p].doomed : run[p].doomed[n] \in Paths
  BY PartialIs DEF Types, Session

LEMMA LinksAre ==
  ASSUME Types
  PROVE  DOMAIN links \subseteq Names /\ \A n \in DOMAIN links : links[n] \in Paths
  BY PartialIs DEF Types, StoreTypes

LEMMA EventsStructure ==
  ASSUME Structure, Events
  PROVE  Structure'
<1>. USE DEF Structure
<1>1. /\ WorldTypes' /\ UNCHANGED store /\ run' \in [Procs -> Session] /\ spent' \in SpentType
      /\ \A p \in Procs :
              /\ UNCHANGED <<run[p].pc, run[p].found, run[p].left,
                             run[p].peer, run[p].old, run[p].edges>>
              /\ run'[p].alone => run[p].alone
  BY EventsDo DEF SpentType
<1>2. Types'
  BY <1>1, SameStore DEF Types, SpentType
<1>3. OneOldName'
  BY <1>1 DEF OneOldName, store
<1>4. ASSUME NEW p \in Procs PROVE Working(p)' /\ Named(p)'
  BY <1>1, <1>4 DEF Working, Named, store
<1>. QED
  BY <1>2, <1>3, <1>4

LEMMA BeginStructure ==
  ASSUME Structure, NEW p \in Procs, Begin(p)
  PROVE  Structure'
<1>. USE DEF Structure
<1>1. /\ UNCHANGED <<world, store>> /\ run' \in [Procs -> Session] /\ spent' \in SpentType
      /\ run'[p].pc = "look" /\ run'[p].found = <<>> /\ run'[p].left = {}
      /\ \A q \in Procs \ {p} :
              /\ UNCHANGED <<run[q].pc, run[q].found, run[q].left,
                             run[q].peer, run[q].old, run[q].edges>>
              /\ ~run'[q].alone
  BY BeginDoes DEF SpentType
<1>2. Types'
  BY <1>1, SameWorld, SameStore DEF Types, SpentType
<1>3. OneOldName'
  BY <1>1 DEF OneOldName, store
<1>4. ASSUME NEW q \in Procs \ {p} PROVE Working(q)' /\ Named(q)'
  BY <1>1, <1>4 DEF Working, Named, store
<1>5. Working(p)' /\ Named(p)'
  BY <1>1 DEF Working, Named, Upserting, Migrating, Storing, Pruning, Ending
<1>. QED
  BY <1>2, <1>3, <1>4, <1>5

LEMMA LookWorld ==
  ASSUME Types, NEW p \in Procs, Look(p) \/ SyncAndLook(p)
  PROVE  /\ At(p, "look") /\ UNCHANGED <<exporting, recent, api, store, spent>> /\ WorldTypes'
         /\ \E d \in Peers : /\ d \in run[p].todo /\ Looked(p, d)
                             /\ \A e \in Peers \ {d} : disk'[e] = disk[e]
                             /\ disk'[d] = disk[d] \/ disk'[d] \in {Current(d), Torn}
<1>1. At(p, "look") /\ UNCHANGED <<exporting, recent, api, store, spent>>
  BY DEF Look, SyncAndLook
<1>2. run[p].todo \subseteq Peers
  BY DEF Types, Session
<1>3. CASE Look(p)
  <2>1. PICK d \in run[p].todo : disk' = disk /\ Looked(p, d)
    BY <1>3 DEF Look
  <2>. QED
    BY <1>1, <1>2, <2>1 DEF Types, WorldTypes
<1>4. CASE SyncAndLook(p)
  <2>1. PICK d \in run[p].todo :
          (\E s \in {Current(d), Torn} : disk' = [disk EXCEPT ![d] = s]) /\ Looked(p, d)
    BY <1>4 DEF SyncAndLook
  <2>2. PICK s \in {Current(d), Torn} : disk' = [disk EXCEPT ![d] = s]
    BY <2>1
  <2>3. d \in Peers /\ Current(d) \in Schema
    BY <1>2 DEF Types, WorldTypes, Current, Schema
  <2>. QED
    BY <1>1, <2>1, <2>2, <2>3 DEF Types, WorldTypes
<1>. QED
  BY <1>3, <1>4

LEMMA LookStructure ==
  ASSUME Structure, NEW p \in Procs, Look(p) \/ SyncAndLook(p)
  PROVE  Structure'
<1>. USE DEF Structure
<1>1. PICK d \in Peers : Looked(p, d)
  BY LookWorld
<1>2. UNCHANGED <<store, spent>> /\ WorldTypes'
  BY LookWorld
<1>3. Step(p) /\ run'[p].pc \in {"look", "pick"} /\ run'[p].left = DOMAIN run'[p].found
  BY <1>1, <1>2, LookedDoes
<1>4. Working(p)' /\ Named(p)'
  BY <1>3 DEF Working, Named, Upserting, Migrating, Storing, Pruning, Ending
<1>. QED
  BY <1>2, <1>3, <1>4, SameStore, SpentStays, StructureStep DEF Step

LEMMA PickStructure ==
  ASSUME Structure, NEW p \in Procs, Pick(p)
  PROVE  Structure'
<1>. USE DEF Structure
<1>. DEFINE d == run'[p].peer  old == run'[p].old
<1>1. /\ At(p, "pick") /\ Step(p) /\ UNCHANGED <<world, store, spent>>
      /\ UNCHANGED run[p].found /\ d \in run[p].left /\ run'[p].left = run[p].left \ {d}
      /\ old = {n \in DOMAIN links : n # d /\ links[n] = d}
      /\ run'[p].pc = IF old = {} THEN "link" ELSE "strip"
  BY PickDoes
<1>2. run[p].left \subseteq DOMAIN run[p].found /\ d \in Peers
  BY <1>1, FoundIs DEF Working
<1>3. old # {} => \E n \in Names \ {d} : old = {n}
  <2>1. SUFFICES ASSUME NEW n \in old PROVE n \in Names \ {d} /\ old = {n}
    OBVIOUS
  <2>. QED
    BY <1>1, <1>2, LinksAre DEF OneOldName
<1>4. Working(p)'
  BY <1>1, <1>2, <1>3 DEF Working, Upserting, Migrating, Storing, Pruning, Ending
<1>5. Named(p)'
  BY <1>1 DEF Named, Migrating, Storing, store
<1>. QED
  BY <1>1, <1>4, <1>5, SameWorld, SameStore, SpentStays, StructureStep DEF Step

\* A step of the migration: the names stay, and the work goes on.
LEMMA MigratingStructure ==
  ASSUME Structure, NEW p \in Procs, run[p].pc \in Migrating,
         NEW c \in Migrating, Goes(p, c), UNCHANGED <<world, links, spent>>, StoreTypes'
  PROVE  Structure'
<1>. USE DEF Structure
<1>1. /\ Step(p) /\ run'[p].pc = c
      /\ UNCHANGED <<run[p].found, run[p].left, run[p].peer, run[p].old, run[p].edges>>
  BY GoesDoes DEF Upserting
<1>2. Working(p)'
  BY <1>1 DEF Working, Upserting, Migrating, Storing, Pruning, Ending
<1>3. Named(p)'
  BY <1>1 DEF Named, Migrating, Storing
<1>. QED
  BY <1>1, <1>2, <1>3, SameWorld, SameLinks, SpentStays, StructureStep DEF Step

LEMMA OldName ==
  ASSUME Structure, NEW p \in Procs, run[p].pc \in Migrating
  PROVE  /\ run[p].peer \in DOMAIN run[p].found /\ run[p].peer \notin run[p].left
         /\ run[p].peer \in Peers /\ \E n \in Names \ {run[p].peer} : run[p].old = {n}
  BY FoundIs DEF Structure, Working, Upserting

LEMMA StripStructure ==
  ASSUME Structure, NEW p \in Procs, Strip(p)
  PROVE  Structure'
<1>1. /\ run[p].pc = "strip" /\ Goes(p, "dedupe") /\ UNCHANGED <<world, links, rows, spent>>
      /\ \E n : deps' = Without(deps, n)
  BY DEF Strip, At
<1>2. StoreTypes'
  BY <1>1, WithoutBag DEF Structure, Types, StoreTypes
<1>. QED
  BY <1>1, <1>2, MigratingStructure DEF Migrating

LEMMA DedupedIs ==
  ASSUME Structure, NEW p \in Procs, Dedupe(p)
  PROVE  /\ run[p].pc = "dedupe" /\ Goes(p, "rename") /\ UNCHANGED <<world, links, deps, spent>>
         /\ BagOf(Names \X Txs, rows')
         /\ \E n \in run[p].old :
              DOMAIN rows' = {x \in DOMAIN rows :
                                ~(x[1] = n /\ <<run[p].peer, x[2]>> \in DOMAIN rows)}
         /\ \A x \in DOMAIN rows' : rows'[x] = rows[x]
<1>1. PICK n \in run[p].old :
        rows' = Restrict(rows, {x \in DOMAIN rows :
                                  ~(x[1] = n /\ <<run[p].peer, x[2]>> \in DOMAIN rows)})
  BY DEF Dedupe
<1>. DEFINE D == {x \in DOMAIN rows : ~(x[1] = n /\ <<run[p].peer, x[2]>> \in DOMAIN rows)}
<1>2. D \subseteq DOMAIN rows
  OBVIOUS
<1>3. BagOf(Names \X Txs, rows') /\ DOMAIN rows' = D /\ \A x \in D : rows'[x] = rows[x]
  <2>. HIDE DEF D
  <2>1. rows' = Restrict(rows, D)
    BY <1>1 DEF D
  <2>2. BagOf(Names \X Txs, rows)
    BY DEF Structure, Types, StoreTypes
  <2>. QED
    BY <1>2, <2>1, <2>2, RestrictIs, RestrictBag
<1>. QED
  BY <1>1, <1>3 DEF Dedupe, At

LEMMA DedupeStructure ==
  ASSUME Structure, NEW p \in Procs, Dedupe(p)
  PROVE  Structure'
<1>1. StoreTypes'
  BY DedupedIs DEF Structure, Types, StoreTypes
<1>. QED
  BY <1>1, DedupedIs, MigratingStructure DEF Migrating

LEMMA RenameIs ==
  ASSUME Structure, NEW p \in Procs, Rename(p)
  PROVE  /\ run[p].pc = "rename" /\ Goes(p, "unlink") /\ UNCHANGED <<world, links, deps, spent>>
         /\ \E n \in Names \ {run[p].peer} :
              run[p].old = {n} /\ rows' = Renamed(n, run[p].peer)
         /\ run[p].peer \in Names /\ BagOf(Names \X Txs, rows')
<1>1. /\ run[p].pc = "rename" /\ Goes(p, "unlink") /\ UNCHANGED <<world, links, deps, spent>>
      /\ \E n \in run[p].old : rows' = Renamed(n, run[p].peer)
  BY DEF Rename, At
<1>2. run[p].peer \in Names /\ \E n \in Names \ {run[p].peer} : run[p].old = {n}
  BY <1>1, OldName DEF Migrating, Names
<1>3. PICK n \in Names \ {run[p].peer} : run[p].old = {n} /\ rows' = Renamed(n, run[p].peer)
  BY <1>1, <1>2
<1>4. BagOf(Names \X Txs, rows')
  BY <1>2, <1>3, RenamedIs DEF Structure, Types, StoreTypes
<1>. QED
  BY <1>1, <1>2, <1>3, <1>4

LEMMA RenameStructure ==
  ASSUME Structure, NEW p \in Procs, Rename(p)
  PROVE  Structure'
<1>1. StoreTypes'
  BY RenameIs DEF Structure, Types, StoreTypes
<1>. QED
  BY <1>1, RenameIs, MigratingStructure DEF Migrating

LEMMA LinksWithout ==
  ASSUME Types, NEW D, links' = Restrict(links, DOMAIN links \ D)
  PROVE  /\ DOMAIN links' = DOMAIN links \ D /\ \A n \in DOMAIN links' : links'[n] = links[n]
         /\ links' \in Partial(Names, Paths) /\ NoNewName
<1>1. DOMAIN links' = DOMAIN links \ D /\ \A n \in DOMAIN links' : links'[n] = links[n]
  BY RestrictIs
<1>2. links' \in Partial(Names, Paths)
  BY RestrictPartial DEF Types, StoreTypes
<1>. QED
  BY <1>1, <1>2 DEF NoNewName

LEMMA UnlinkDoes ==
  ASSUME Structure, NEW p \in Procs, Unlink(p)
  PROVE  /\ At(p, "unlink") /\ KeyHolds(p) /\ UNCHANGED <<world, deps, rows, spent>>
         /\ Step(p) /\ run'[p].pc = "link" /\ run'[p].old = {}
         /\ UNCHANGED <<run[p].found, run[p].left, run[p].peer, run[p].edges, run[p].doomed>>
         /\ DOMAIN links' = DOMAIN links \ run[p].old
         /\ \A n \in DOMAIN links' : links'[n] = links[n]
         /\ links' \in Partial(Names, Paths) /\ NoNewName
<1>1. /\ At(p, "unlink") /\ KeyHolds(p) /\ UNCHANGED <<world, deps, rows, spent>>
      /\ links' = Restrict(links, DOMAIN links \ run[p].old)
      /\ Becomes(p, [run[p] EXCEPT !.old = {}, !.pc = "link"])
  BY DEF Unlink
<1>2. "link" \in Upserting
  BY DEF Upserting, Storing
<1>3. /\ Step(p) /\ run'[p].pc = "link" /\ run'[p].old = {}
      /\ UNCHANGED <<run[p].found, run[p].left, run[p].peer, run[p].edges, run[p].doomed>>
  BY <1>1, <1>2, EmptiedDoes DEF Structure
<1>. QED
  BY <1>1, <1>3, LinksWithout DEF Structure

LEMMA UnlinkStructure ==
  ASSUME Structure, NEW p \in Procs, Unlink(p)
  PROVE  Structure'
<1>. USE DEF Structure
<1>1. /\ run[p].pc = "unlink" /\ run'[p].pc = "link" /\ Step(p)
      /\ UNCHANGED <<run[p].found, run[p].left, run[p].peer>>
      /\ DOMAIN links' = DOMAIN links \ run[p].old
      /\ \A n \in DOMAIN links' : links'[n] = links[n]
      /\ links' \in Partial(Names, Paths) /\ NoNewName
      /\ UNCHANGED <<world, deps, rows, spent>>
  BY UnlinkDoes DEF At
<1>2. Working(p)'
  BY <1>1 DEF Working, Upserting, Migrating, Storing, Pruning, Ending
<1>3. Named(p)'
  BY <1>1 DEF Named, Migrating, Storing
<1>4. StoreTypes'
  BY <1>1 DEF StoreTypes, Types
<1>. QED
  BY <1>1, <1>2, <1>3, <1>4, SameWorld, SpentStays, StructureStep DEF Step

LEMMA Storer ==
  ASSUME Structure, NEW p \in Procs, run[p].pc \in Upserting
  PROVE  run[p].peer \in DOMAIN run[p].found \ run[p].left /\ run[p].peer \in Peers
  BY FoundIs DEF Structure, Working

LEMMA LinkDoes ==
  ASSUME Structure, NEW p \in Procs, Link(p)
  PROVE  /\ run[p].pc = "link" /\ Goes(p, "clear") /\ UNCHANGED <<world, deps, rows, spent>>
         /\ run[p].peer \in Peers
         /\ DOMAIN links' = DOMAIN links \cup {run[p].peer}
         /\ \A n \in DOMAIN links' : links'[n] = IF n = run[p].peer THEN n ELSE links[n]
         /\ links' \in Partial(Names, Paths)
<1>1. /\ run[p].pc = "link" /\ Goes(p, "clear") /\ UNCHANGED <<world, deps, rows, spent>>
      /\ links' = Put(links, run[p].peer, run[p].peer)
  BY DEF Link, At
<1>2. run[p].peer \in Peers
  BY <1>1, Storer DEF Upserting, Storing
<1>3. /\ DOMAIN links' = DOMAIN links \cup {run[p].peer}
      /\ \A n \in DOMAIN links' : links'[n] = IF n = run[p].peer THEN n ELSE links[n]
  <2>. DEFINE d == run[p].peer
  <2>1. links' = Put(links, d, d)
    BY <1>1
  <2>. HIDE DEF d
  <2>2. DOMAIN links' = DOMAIN links \cup {d}
    BY <2>1, PutIs
  <2>3. \A n \in DOMAIN links' : links'[n] = IF n = d THEN d ELSE links[n]
    BY <2>1, <2>2 DEF Put
  <2>. QED
    BY <2>2, <2>3 DEF d
<1>4. links' \in Partial(Names, Paths)
  BY <1>1, <1>2, PutPartial DEF Structure, Types, StoreTypes, Names, Paths
<1>. QED
  BY <1>1, <1>2, <1>3, <1>4

LEMMA LinkStructure ==
  ASSUME Structure, NEW p \in Procs, Link(p)
  PROVE  Structure'
<1>. USE DEF Structure
<1>1. /\ run[p].pc = "link" /\ Goes(p, "clear") /\ UNCHANGED <<world, deps, rows, spent>>
      /\ DOMAIN links' = DOMAIN links \cup {run[p].peer}
      /\ \A n \in DOMAIN links' : links'[n] = IF n = run[p].peer THEN n ELSE links[n]
      /\ links' \in Partial(Names, Paths)
  BY LinkDoes
<1>2. /\ Step(p) /\ run'[p].pc = "clear"
      /\ UNCHANGED <<run[p].found, run[p].left, run[p].peer>>
  BY <1>1, GoesDoes DEF Upserting, Storing
<1>3. NoNewName
  BY <1>1 DEF NoNewName
<1>4. StoreTypes'
  BY <1>1 DEF StoreTypes, Types
<1>5. Working(p)'
  BY <1>1, <1>2 DEF Working, Upserting, Migrating, Storing, Pruning, Ending
<1>6. Named(p)'
  BY <1>1, <1>2 DEF Named, Migrating, Storing
<1>. QED
  BY <1>1, <1>2, <1>3, <1>4, <1>5, <1>6, SameWorld, SpentStays, StructureStep DEF Step

LEMMA ClearDoes ==
  ASSUME Structure, NEW p \in Procs, Clear(p)
  PROVE  /\ run[p].pc = "clear" /\ UNCHANGED <<world, links, rows, spent>>
         /\ deps' = Without(deps, run[p].peer)
         /\ Step(p) /\ UNCHANGED <<run[p].left, run[p].peer, run[p].old, run[p].doomed>>
         /\ run'[p].pc = IF run'[p].edges = {} THEN AfterSave(p) ELSE "save"
         /\ DOMAIN run'[p].found = DOMAIN run[p].found
         /\ \A d \in DOMAIN run[p].found :
              /\ run'[p].found[d].entries = run[p].found[d].entries
              /\ run'[p].found[d].symbols =
                   IF d = run[p].peer THEN run'[p].edges ELSE run[p].found[d].symbols
<1>1. /\ run[p].pc = "clear" /\ UNCHANGED <<world, links, rows, spent>>
      /\ deps' = Without(deps, run[p].peer)
      /\ \E edges \in SUBSET run[p].found[run[p].peer].symbols : Discovered(p, edges)
  BY DEF Clear, At
<1>2. run[p].peer \in DOMAIN run[p].found
  BY <1>1, Storer DEF Upserting, Storing
<1>. QED
  BY <1>1, <1>2, DiscoveredDoes DEF Structure

LEMMA ClearStructure ==
  ASSUME Structure, NEW p \in Procs, Clear(p)
  PROVE  Structure'
<1>. USE DEF Structure
<1>1. /\ run[p].pc = "clear" /\ UNCHANGED <<world, links, rows, spent>>
      /\ deps' = Without(deps, run[p].peer)
      /\ Step(p) /\ UNCHANGED <<run[p].left, run[p].peer, run[p].old>>
      /\ run'[p].pc \in {"import", "pick", "save"}
      /\ DOMAIN run'[p].found = DOMAIN run[p].found
      /\ \A d \in DOMAIN run[p].found :
           d = run[p].peer => run'[p].found[d].symbols = run'[p].edges
  BY ClearDoes DEF AfterSave
<1>2. run[p].peer \in DOMAIN run[p].found \ run[p].left
  BY <1>1, Storer DEF Upserting, Storing
<1>3. StoreTypes'
  BY <1>1, WithoutBag DEF StoreTypes, Types
<1>4. Working(p)'
  BY <1>1, <1>2 DEF Working, Upserting, Migrating, Storing, Pruning, Ending
<1>5. Named(p)'
  BY <1>1 DEF Named, Migrating, Storing
<1>. QED
  BY <1>1, <1>3, <1>4, <1>5, SameWorld, SameLinks, SpentStays, StructureStep DEF Step

LEMMA SaveStructure ==
  ASSUME Structure, NEW p \in Procs, Save(p)
  PROVE  Structure'
<1>. USE DEF Structure
<1>1. /\ run[p].pc = "save" /\ UNCHANGED <<world, links, rows, spent>> /\ Step(p)
      /\ UNCHANGED <<run[p].found, run[p].left, run[p].peer, run[p].old>>
      /\ run'[p].pc \in {"import", "pick", "save"}
      /\ run'[p].edges \subseteq run[p].edges
      /\ \E s \in run[p].edges : deps' = BagAdd(deps, <<run[p].peer, s>>)
  BY SaveDoes DEF AfterSave, At
<1>2. run[p].peer \in DOMAIN run[p].found \ run[p].left /\ run[p].peer \in Names
  BY <1>1, Storer DEF Upserting, Storing, Names
<1>3. run[p].edges \subseteq Symbols
  BY DEF Types, Session
<1>4. StoreTypes'
  BY <1>1, <1>2, <1>3, BagAddBag DEF StoreTypes, Types
<1>5. Working(p)'
  BY <1>1, <1>2 DEF Working, Upserting, Migrating, Storing, Pruning, Ending
<1>6. Named(p)'
  BY <1>1 DEF Named, Migrating, Storing
<1>. QED
  BY <1>1, <1>4, <1>5, <1>6, SameWorld, SameLinks, SpentStays, StructureStep DEF Step

LEMMA ImportDoes ==
  ASSUME Structure, NEW p \in Procs, Import(p)
  PROVE  /\ run[p].pc = "import" /\ Goes(p, "pick") /\ UNCHANGED <<world, links, deps, spent>>
         /\ run[p].peer \in DOMAIN run[p].found \ run[p].left /\ run[p].peer \in Peers
         /\ BagOf(Names \X Txs, rows')
         /\ DOMAIN rows' = DOMAIN rows \cup {<<run[p].peer, t>> :
                                               t \in run[p].found[run[p].peer].entries}
         /\ \A x \in DOMAIN rows : rows'[x] = rows[x]
         /\ \A x \in DOMAIN rows' : x \notin DOMAIN rows => rows'[x] = 1
<1>. DEFINE d == run[p].peer  es == run[p].found[d].entries
            new == {<<d, t>> : t \in es} \ DOMAIN rows
<1>1. /\ run[p].pc = "import" /\ Goes(p, "pick") /\ UNCHANGED <<world, links, deps, spent>>
      /\ rows' = rows (+) SetToBag(new)
  BY DEF Import, At
<1>2. d \in DOMAIN run[p].found \ run[p].left /\ d \in Peers /\ d \in Names
  BY <1>1, Storer DEF Upserting, Storing, Names
<1>3. es \subseteq Txs
  BY <1>2, FoundIs DEF Schema, Structure
<1>. HIDE DEF d, es
<1>4. new \subseteq Names \X Txs /\ new \cap DOMAIN rows = {}
  BY <1>2, <1>3
<1>5. DOMAIN rows \cup new = DOMAIN rows \cup {<<d, t>> : t \in es}
  OBVIOUS
<1>. HIDE DEF new
<1>6. /\ BagOf(Names \X Txs, rows') /\ DOMAIN rows' = DOMAIN rows \cup new
      /\ \A x \in DOMAIN rows : rows'[x] = rows[x]
      /\ \A x \in new : rows'[x] = 1
  BY <1>1, <1>4, AddedIs DEF Structure, Types, StoreTypes
<1>. QED
  BY <1>1, <1>2, <1>5, <1>6 DEF d, es

LEMMA ImportStructure ==
  ASSUME Structure, NEW p \in Procs, Import(p)
  PROVE  Structure'
<1>. USE DEF Structure
<1>1. /\ run[p].pc = "import" /\ Goes(p, "pick") /\ UNCHANGED <<world, links, deps, spent>>
      /\ BagOf(Names \X Txs, rows')
  BY ImportDoes
<1>2. Step(p) /\ run'[p].pc = "pick" /\ UNCHANGED <<run[p].found, run[p].left>>
  BY <1>1, GoesDoes
<1>3. StoreTypes'
  BY <1>1 DEF StoreTypes, Types
<1>4. Working(p)' /\ Named(p)'
  BY <1>1, <1>2 DEF Working, Named, Upserting, Migrating, Storing, Pruning, Ending
<1>. QED
  BY <1>1, <1>2, <1>3, <1>4, SameWorld, SameLinks, SpentStays, StructureStep DEF Step

LEMMA OutOfTimeStructure ==
  ASSUME Structure, NEW p \in Procs, OutOfTime(p)
  PROVE  Structure'
<1>. USE DEF Structure
<1>1. /\ Step(p) /\ run'[p].pc = "pick" /\ UNCHANGED <<world, store, spent>>
      /\ run'[p].left = {}
  BY OutOfTimeDoes
<1>2. Working(p)' /\ Named(p)'
  BY <1>1 DEF Working, Named, Upserting, Migrating, Storing, Pruning, Ending
<1>. QED
  BY <1>1, <1>2, SameWorld, SameStore, SpentStays, StructureStep DEF Step

LEMMA ReadLinksStructure ==
  ASSUME Structure, NEW p \in Procs, ReadLinks(p)
  PROVE  Structure'
<1>. USE DEF Structure
<1>1. /\ Step(p) /\ run'[p].pc \in {"done", "check", "prune"} /\ UNCHANGED <<world, store, spent>>
      /\ run[p].left = {} /\ UNCHANGED <<run[p].found, run[p].left>>
  BY ReadLinksDoes DEF AfterPrune
<1>2. Working(p)' /\ Named(p)'
  BY <1>1 DEF Working, Named, Upserting, Migrating, Storing, Pruning, Ending
<1>. QED
  BY <1>1, <1>2, SameWorld, SameStore, SpentStays, StructureStep DEF Step

LEMMA KeepDoes ==
  ASSUME Types, NEW p \in Procs, Keep(p)
  PROVE  /\ run[p].pc = "prune" /\ Step(p) /\ UNCHANGED <<world, store, spent>>
         /\ \E n \in DOMAIN run[p].doomed :
              /\ ~Dead(run[p].doomed[n])
              /\ DOMAIN run'[p].doomed = DOMAIN run[p].doomed \ {n}
         /\ \A m \in DOMAIN run'[p].doomed : run'[p].doomed[m] = run[p].doomed[m]
         /\ run'[p].old = {}
         /\ run'[p].pc = IF DOMAIN run'[p].doomed = {} THEN AfterPrune(p) ELSE "prune"
         /\ UNCHANGED <<run[p].found, run[p].left, run[p].peer, run[p].edges>>
<1>1. /\ run[p].pc = "prune" /\ UNCHANGED <<world, store, spent>>
      /\ \E n \in DOMAIN run[p].doomed : ~Dead(run[p].doomed[n]) /\ Judged(p, n, "prune")
  BY DEF Keep, At, Doomed
<1>2. PICK n \in DOMAIN run[p].doomed : ~Dead(run[p].doomed[n]) /\ Judged(p, n, "prune")
  BY <1>1
<1>. QED
  BY <1>1, <1>2, JudgedDoes

LEMMA ForgetDepsDoes ==
  ASSUME Types, NEW p \in Procs, ForgetDeps(p)
  PROVE  /\ run[p].pc = "prune" /\ Step(p) /\ UNCHANGED <<world, links, rows, spent>>
         /\ \E n \in DOMAIN run[p].doomed :
              /\ Dead(run[p].doomed[n]) /\ deps' = Without(deps, n) /\ n \in Names
              /\ DOMAIN run'[p].doomed = DOMAIN run[p].doomed \ {n} /\ run'[p].old = {n}
         /\ \A m \in DOMAIN run'[p].doomed : run'[p].doomed[m] = run[p].doomed[m]
         /\ run'[p].pc = "forget"
         /\ UNCHANGED <<run[p].found, run[p].left, run[p].peer, run[p].edges>>
<1>1. run[p].pc = "prune" /\ UNCHANGED <<world, links, rows, spent>>
  BY DEF ForgetDeps, At
<1>2. PICK n \in DOMAIN run[p].doomed :
        Dead(run[p].doomed[n]) /\ deps' = Without(deps, n) /\ Judged(p, n, "forget")
  BY DEF ForgetDeps, Doomed
<1>. QED
  BY <1>1, <1>2, JudgedDoes

LEMMA KeepStructure ==
  ASSUME Structure, NEW p \in Procs, Keep(p)
  PROVE  Structure'
<1>. USE DEF Structure
<1>1. /\ run[p].pc = "prune" /\ Step(p) /\ UNCHANGED <<world, store, spent>>
      /\ run'[p].pc \in {"done", "check", "prune"} /\ UNCHANGED <<run[p].found, run[p].left>>
  BY KeepDoes DEF AfterPrune
<1>2. Working(p)' /\ Named(p)'
  BY <1>1 DEF Working, Named, Upserting, Migrating, Storing, Pruning, Ending, Step, Own
<1>. QED
  BY <1>1, <1>2, SameWorld, SameStore, SpentStays, StructureStep DEF Step

LEMMA ForgetDepsStructure ==
  ASSUME Structure, NEW p \in Procs, ForgetDeps(p)
  PROVE  Structure'
<1>. USE DEF Structure
<1>1. /\ run[p].pc = "prune" /\ Step(p) /\ UNCHANGED <<world, links, rows, spent>>
      /\ run'[p].pc = "forget" /\ UNCHANGED <<run[p].found, run[p].left>>
      /\ \E n \in Names : run'[p].old = {n} /\ deps' = Without(deps, n)
  BY ForgetDepsDoes
<1>2. Working(p)' /\ Named(p)'
  BY <1>1 DEF Working, Named, Upserting, Migrating, Storing, Pruning, Ending, Step, Own
<1>3. StoreTypes'
  BY <1>1, WithoutBag DEF StoreTypes, Types
<1>. QED
  BY <1>1, <1>2, <1>3, SameWorld, SameLinks, SpentStays, StructureStep DEF Step

LEMMA ForgetRowsDoes ==
  ASSUME Structure, NEW p \in Procs, ForgetRows(p)
  PROVE  /\ run[p].pc = "forget" /\ Goes(p, "drop") /\ UNCHANGED <<world, links, deps, spent>>
         /\ \E n \in Names : run[p].old = {n} /\ rows' = Without(rows, n)
<1>1. /\ run[p].pc = "forget" /\ Goes(p, "drop") /\ UNCHANGED <<world, links, deps, spent>>
      /\ \E n \in run[p].old : rows' = Without(rows, n)
  BY DEF ForgetRows, At
<1>2. \E n \in Names : run[p].old = {n}
  BY <1>1 DEF Structure, Working
<1>. QED
  BY <1>1, <1>2

LEMMA ForgetRowsStructure ==
  ASSUME Structure, NEW p \in Procs, ForgetRows(p)
  PROVE  Structure'
<1>. USE DEF Structure
<1>1. /\ run[p].pc = "forget" /\ Goes(p, "drop") /\ UNCHANGED <<world, links, deps, spent>>
      /\ \E n \in Names : run[p].old = {n} /\ rows' = Without(rows, n)
  BY ForgetRowsDoes
<1>2. Step(p) /\ run'[p].pc = "drop" /\ UNCHANGED <<run[p].found, run[p].left, run[p].old>>
  BY <1>1, GoesDoes DEF Pruning
<1>3. Working(p)' /\ Named(p)'
  BY <1>1, <1>2 DEF Working, Named, Upserting, Migrating, Storing, Pruning, Ending, Step, Own
<1>4. StoreTypes'
  BY <1>1, WithoutBag DEF StoreTypes, Types
<1>. QED
  BY <1>1, <1>2, <1>3, <1>4, SameWorld, SameLinks, SpentStays, StructureStep DEF Step

LEMMA DropDoes ==
  ASSUME Structure, NEW p \in Procs, Drop(p)
  PROVE  /\ run[p].pc = "drop" /\ KeyHolds(p) /\ UNCHANGED <<world, deps, rows, spent>>
         /\ Step(p) /\ run'[p].old = {}
         /\ run'[p].pc = IF DOMAIN run[p].doomed = {} THEN AfterPrune(p) ELSE "prune"
         /\ UNCHANGED <<run[p].found, run[p].left, run[p].peer, run[p].edges, run[p].doomed>>
         /\ DOMAIN links' = DOMAIN links \ run[p].old
         /\ \A n \in DOMAIN links' : links'[n] = links[n]
         /\ links' \in Partial(Names, Paths) /\ NoNewName
<1>. DEFINE c == IF DOMAIN run[p].doomed = {} THEN AfterPrune(p) ELSE "prune"
<1>1. /\ run[p].pc = "drop" /\ KeyHolds(p) /\ UNCHANGED <<world, deps, rows, spent>>
      /\ links' = Restrict(links, DOMAIN links \ run[p].old)
      /\ Becomes(p, [run[p] EXCEPT !.old = {}, !.pc = c])
  BY DEF Drop, At
<1>2. c \in Upserting \cup Pruning \cup Ending
  BY DEF AfterPrune, Pruning, Ending
<1>3. c = IF DOMAIN run[p].doomed = {} THEN AfterPrune(p) ELSE "prune"
  OBVIOUS
<1>. HIDE DEF c
<1>4. /\ Step(p) /\ run'[p].pc = c /\ run'[p].old = {}
      /\ UNCHANGED <<run[p].found, run[p].left, run[p].peer, run[p].edges, run[p].doomed>>
  BY <1>1, <1>2, EmptiedDoes DEF Structure
<1>. QED
  BY <1>1, <1>3, <1>4, LinksWithout DEF Structure

LEMMA DropStructure ==
  ASSUME Structure, NEW p \in Procs, Drop(p)
  PROVE  Structure'
<1>. USE DEF Structure
<1>1. /\ run[p].pc = "drop" /\ run'[p].pc \in {"done", "check", "prune"} /\ Step(p)
      /\ UNCHANGED <<run[p].found, run[p].left>>
      /\ links' \in Partial(Names, Paths) /\ NoNewName
      /\ UNCHANGED <<world, deps, rows, spent>>
  BY DropDoes DEF AfterPrune
<1>2. Working(p)' /\ Named(p)'
  BY <1>1 DEF Working, Named, Upserting, Migrating, Storing, Pruning, Ending, Step, Own
<1>3. StoreTypes'
  BY <1>1 DEF StoreTypes, Types
<1>. QED
  BY <1>1, <1>2, <1>3, SameWorld, SpentStays, StructureStep DEF Step

LEMMA CheckStructure ==
  ASSUME Structure, NEW p \in Procs, Check(p)
  PROVE  Structure'
<1>. USE DEF Structure
<1>1. /\ run[p].pc = "check" /\ run'[p].pc = "done" /\ Step(p) /\ UNCHANGED <<world, store, spent>>
      /\ UNCHANGED <<run[p].found, run[p].left>>
  BY CheckDoes DEF At
<1>2. Working(p)' /\ Named(p)'
  BY <1>1 DEF Working, Named, Upserting, Migrating, Storing, Pruning, Ending, Step, Own
<1>. QED
  BY <1>1, <1>2, SameWorld, SameStore, SpentStays, StructureStep DEF Step

LEMMA EndStructure ==
  ASSUME Structure, NEW p \in Procs, End(p) \/ Fails(p) \/ Dies(p)
  PROVE  Structure'
<1>. USE DEF Structure
<1>1. /\ UNCHANGED <<world, store>> /\ run' \in [Procs -> Session] /\ Unmoved(p)
      /\ ~run'[p].alone /\ spent' \in SpentType
      /\ \/ run'[p] = Idle
         \/ run'[p].pc = "check" /\ UNCHANGED <<run[p].found, run[p].left>>
  BY EndDoes DEF SpentType
<1>2. CASE run'[p] = Idle
  <2>1. run'[p].pc = "idle" /\ run'[p].left = {}
    BY <1>2, IdleIs
  <2>2. Working(p)' /\ Named(p)'
    BY <2>1 DEF Working, Named, Upserting, Migrating, Storing, Pruning, Ending
  <2>. QED
    BY <1>1, <2>2, SameWorld, SameStore, StructureStep
<1>3. CASE run'[p].pc = "check" /\ UNCHANGED <<run[p].found, run[p].left>>
  <2>1. Working(p)' /\ Named(p)'
    BY <1>1, <1>3 DEF Working, Named, Upserting, Migrating, Storing, Pruning, Ending
  <2>. QED
    BY <1>1, <2>1, SameWorld, SameStore, StructureStep
<1>. QED
  BY <1>1, <1>2, <1>3

\* The cases of a step of a run.
Acts(p) == Discovery(p) \/ Upsert(p) \/ Content(p) \/ Prune(p) \/ Outcome(p)

LEMMA ActsAre ==
  ASSUME NEW p \in Procs, Acts(p)
  PROVE  \/ Begin(p) \/ (Look(p) \/ SyncAndLook(p)) \/ Pick(p) \/ Strip(p) \/ Dedupe(p)
         \/ Rename(p) \/ Unlink(p) \/ Link(p) \/ Clear(p) \/ Save(p) \/ Import(p)
         \/ OutOfTime(p) \/ ReadLinks(p) \/ Keep(p) \/ ForgetDeps(p) \/ ForgetRows(p)
         \/ Drop(p) \/ Check(p) \/ (End(p) \/ Fails(p) \/ Dies(p))
  BY DEF Acts, Discovery, Upsert, Content, Prune, Outcome

LEMMA NextIs ==
  ASSUME Next
  PROVE  Events \/ \E p \in Procs : Acts(p)
  BY DEF Next, Acts

LEMMA StructureActs ==
  ASSUME Structure, NEW p \in Procs, Acts(p)
  PROVE  Structure'
  BY ActsAre, BeginStructure, LookStructure, PickStructure, StripStructure, DedupeStructure,
     RenameStructure, UnlinkStructure, LinkStructure, ClearStructure, SaveStructure,
     ImportStructure, OutOfTimeStructure, ReadLinksStructure, KeepStructure,
     ForgetDepsStructure, ForgetRowsStructure, DropStructure, CheckStructure, EndStructure

LEMMA StructureStays ==
  ASSUME Structure, [Next]_vars
  PROVE  Structure'
<1>1. CASE UNCHANGED vars
  BY <1>1 DEF vars, world, store, Structure, Types, WorldTypes, StoreTypes, OneOldName, Working,
              Named
<1>2. CASE Events
  BY <1>2, EventsStructure
<1>3. ASSUME NEW p \in Procs, Acts(p) PROVE Structure'
  BY <1>3, StructureActs
<1>. QED
  BY <1>1, <1>2, <1>3, NextIs

\* What holds in every state of federation: the tables and the files have their
\* types, and each run knows a sibling it has read by at most one old name.
THEOREM FederationTypeCorrect == Spec => []TypeOK
<1>1. Structure => TypeOK
  <2>. SUFFICES ASSUME Structure PROVE TypeOK
    OBVIOUS
  <2>1. /\ WorldTypes /\ StoreTypes /\ run \in [Procs -> Session]
        /\ spent \in [runs : 0..MaxRuns, events : 0..MaxEvents, breaks : 0..MaxBreaks]
    BY DEF Structure, Types
  <2>2. DOMAIN links \subseteq Names /\ \A n \in DOMAIN links : links[n] \in Paths
    BY LinksAre DEF Structure
  <2>3. /\ IsABag(deps) /\ DOMAIN deps \subseteq Names \X Symbols
        /\ IsABag(rows) /\ DOMAIN rows \subseteq Names \X Txs
    BY <2>1 DEF StoreTypes, BagOf, IsABag
  <2>4. ASSUME NEW p \in Procs
        PROVE  /\ run[p].kind \in {None, "scan", "impact"}
               /\ DOMAIN run[p].found \subseteq Peers
               /\ run[p].left \subseteq Peers /\ run[p].edges \subseteq Symbols
               /\ run[p].peer \in Peers \cup {None}
    BY <2>1, FoundIs DEF Session, Structure
  <2>. QED
    BY <2>1, <2>2, <2>3, <2>4 DEF TypeOK, WorldTypes
<1>. QED
  BY <1>1, StructureInit, StructureStays, PTL DEF Spec

-----------------------------------------------------------------------------
(* A run that is alone settles one sibling after the other.                *)

\* What the store knows of the sibling d under its basename is kept.
KeptOf(d) ==
  /\ {n \in DOMAIN links' : links'[n] = d} = {n \in DOMAIN links : links[n] = d}
  /\ OfName(deps', d) = OfName(deps, d)
  /\ \A x \in OfName(deps, d) : deps'[x] = deps[x]
  /\ \A t : <<d, t>> \in DOMAIN rows => <<d, t>> \in DOMAIN rows'

SameFound(p, d) ==
  /\ run'[p].found[d].entries = run[p].found[d].entries
  /\ run'[p].found[d].symbols = run[p].found[d].symbols

LEMMA SettledStays ==
  ASSUME NEW p \in Procs, NEW d, Settled(p, d), KeptOf(d), SameFound(p, d), UNCHANGED run[p].kind
  PROVE  Settled(p, d)'
  BY DEF Settled, KeptOf, SameFound

LEMMA SameKeeps ==
  ASSUME NEW d, UNCHANGED store
  PROVE  KeptOf(d)
  BY DEF KeptOf, store

LEMMA DepsKeep ==
  ASSUME NEW d, NEW n, n # d, deps' = Without(deps, n), UNCHANGED <<links, rows>>
  PROVE  KeptOf(d)
<1>1. /\ DOMAIN Without(deps, n) = {x \in DOMAIN deps : x[1] # n}
      /\ \A x \in DOMAIN Without(deps, n) : Without(deps, n)[x] = deps[x]
  BY WithoutIs
<1>2. /\ DOMAIN deps' = {x \in DOMAIN deps : x[1] # n}
      /\ \A x \in DOMAIN deps' : deps'[x] = deps[x]
  BY <1>1
<1>. QED
  BY <1>2 DEF KeptOf, OfName

LEMMA RowsKeep ==
  ASSUME NEW d, UNCHANGED <<links, deps>>,
         \A t : <<d, t>> \in DOMAIN rows => <<d, t>> \in DOMAIN rows'
  PROVE  KeptOf(d)
  BY DEF KeptOf

LEMMA LinksKeep ==
  ASSUME NEW d, UNCHANGED <<deps, rows>>, DOMAIN links' \subseteq DOMAIN links,
         \A n \in DOMAIN links' : links'[n] = links[n],
         \A n \in DOMAIN links \ DOMAIN links' : links[n] # d
  PROVE  KeptOf(d)
  BY DEF KeptOf

StaysAlone(p) ==
  /\ \A d \in DOMAIN run'[p].found : disk'[d] # Missing
  /\ \A d \in Through(p)' : Settled(p, d)'
  /\ Half(p)' /\ Swept(p)'

\* Two runs are never alone.
LEMMA AloneStep ==
  ASSUME IInv, NEW p \in Procs, run[p].pc # "idle", Unmoved(p),
         run'[p].alone => run[p].alone /\ StaysAlone(p)
  PROVE  \A q \in Procs : Alone(q)'
<1>1. ASSUME NEW q \in Procs \ {p} PROVE Alone(q)'
  <2>1. run'[q] = run[q] /\ ~run[q].alone
    BY DEF Unmoved, IInv, Alone, Undisturbed
  <2>. QED
    BY <2>1 DEF Alone
<1>2. ASSUME run'[p].alone PROVE Undisturbed(p)' /\ Half(p)' /\ Swept(p)'
  <2>1. \A q \in Procs \ {p} : run'[q].pc = "idle"
    BY <1>2 DEF Unmoved, IInv, Alone, Undisturbed
  <2>. QED
    BY <1>2, <2>1 DEF StaysAlone, Undisturbed
<1>. QED
  BY <1>1, <1>2 DEF Alone

\* A step after which the sibling at hand, or none, is left to be settled.
LEMMA StaysThrough ==
  ASSUME IInv, NEW p \in Procs, run[p].alone, UNCHANGED <<disk, run[p].kind>>,
         DOMAIN run'[p].found \subseteq DOMAIN run[p].found,
         \A d \in Through(p)' : \/ d \in Through(p) /\ KeptOf(d) /\ SameFound(p, d)
                                \/ Settled(p, d)',
         Half(p)', Swept(p)'
  PROVE  StaysAlone(p)
<1>1. Undisturbed(p)
  BY DEF IInv, Alone
<1>2. \A d \in DOMAIN run'[p].found : disk'[d] # Missing
  BY <1>1 DEF Undisturbed
<1>3. ASSUME NEW d \in Through(p)' PROVE Settled(p, d)'
  <2>1. ASSUME d \in Through(p), KeptOf(d), SameFound(p, d) PROVE Settled(p, d)'
    BY <1>1, <2>1, SettledStays DEF Undisturbed
  <2>. QED
    BY <2>1
<1>. QED
  BY <1>2, <1>3 DEF StaysAlone

LEMMA SameFoundAll ==
  ASSUME NEW p \in Procs, UNCHANGED run[p].found
  PROVE  \A d : SameFound(p, d)
  BY DEF SameFound

LEMMA ThroughLinks ==
  ASSUME IInv, NEW p \in Procs, run[p].alone, NEW d \in Through(p)
  PROVE  d \in DOMAIN links /\ links[d] = d /\ (\A n \in DOMAIN links : links[n] = d => n = d)
         /\ disk[d] # Missing /\ d \in Peers
<1>1. Settled(p, d) /\ disk[d] # Missing
  BY DEF IInv, Alone, Undisturbed, Through
<1>2. d \in Peers
  BY FoundIs DEF Through, IInv, Structure
<1>. QED
  BY <1>1, <1>2 DEF Settled

LEMMA LookAlone ==
  ASSUME IInv, NEW p \in Procs, Look(p) \/ SyncAndLook(p)
  PROVE  \A q \in Procs : Alone(q)'
<1>. USE DEF Structure
<1>1. PICK d \in Peers : /\ At(p, "look") /\ Looked(p, d) /\ WorldTypes'
                         /\ \A e \in Peers \ {d} : disk'[e] = disk[e]
                         /\ disk'[d] = disk[d] \/ disk'[d] \in {Current(d), Torn}
  BY LookWorld DEF IInv
<1>2. /\ Step(p) /\ run'[p].pc \in {"look", "pick"}
      /\ run'[p].left = DOMAIN run'[p].found
      /\ \/ run'[p].found = run[p].found
         \/ disk'[d] \in Schema /\ run'[p].found = Put(run[p].found, d, disk'[d])
  BY <1>1, LookedDoes DEF IInv
<1>3. ASSUME run[p].alone PROVE StaysAlone(p)
  <2>1. ASSUME NEW e \in DOMAIN run'[p].found PROVE disk'[e] # Missing
    <3>1. (e = d /\ disk'[d] \in Schema) \/ e \in DOMAIN run[p].found
      BY <1>2 DEF Put
    <3>2. Current(d) \in Schema
      BY DEF Current, Schema, IInv, Types, WorldTypes
    <3>3. e \in DOMAIN run[p].found => e \in Peers /\ disk[e] # Missing
      BY <1>3, FoundIs DEF IInv, Alone, Undisturbed
    <3>. QED
      BY <1>1, <3>1, <3>2, <3>3, AbsentAssumption
  <2>2. Through(p)' = {}
    BY <1>2 DEF Through
  <2>3. Half(p)' /\ Swept(p)'
    BY <1>2 DEF Half, Swept, Migrating, Storing, Pruning, Ending
  <2>. QED
    BY <2>1, <2>2, <2>3 DEF StaysAlone
<1>. QED
  BY <1>1, <1>2, <1>3, AloneStep DEF Step, Own, At

LEMMA PickAlone ==
  ASSUME IInv, NEW p \in Procs, Pick(p)
  PROVE  \A q \in Procs : Alone(q)'
<1>. DEFINE d == run'[p].peer
<1>1. /\ At(p, "pick") /\ Step(p) /\ UNCHANGED <<world, store, spent>>
      /\ UNCHANGED run[p].found /\ d \in run[p].left /\ run'[p].left = run[p].left \ {d}
      /\ run'[p].old = {n \in DOMAIN links : n # d /\ links[n] = d}
      /\ run'[p].pc \in {"link", "strip"}
  BY PickDoes DEF IInv, Structure
<1>2. ASSUME run[p].alone PROVE StaysAlone(p)
  <2>1. Through(p)' \subseteq Through(p)
    BY <1>1 DEF Through, At, Upserting, Migrating, Storing
  <2>2. Half(p)'
    BY <1>1 DEF Half, Migrating, Storing, store
  <2>3. Swept(p)'
    BY <1>1 DEF Swept, Pruning, Ending
  <2>4. UNCHANGED <<disk, run[p].kind>>
    BY <1>1 DEF Step, Own, world
  <2>5. UNCHANGED store
    BY <1>1
  <2>. QED
    BY <1>1, <1>2, <2>1, <2>2, <2>3, <2>4, <2>5, StaysThrough, SameKeeps, SameFoundAll
<1>. QED
  BY <1>1, <1>2, AloneStep DEF Step, Own, At

\* The old name of the sibling at hand is not the name of another one.
LEMMA OldNotThrough ==
  ASSUME IInv, NEW p \in Procs, run[p].alone, run[p].pc \in Migrating, NEW d \in Through(p),
         NEW n \in run[p].old
  PROVE  n # d /\ d # run[p].peer /\ n \in DOMAIN links /\ links[n] = run[p].peer
<1>1. n \in DOMAIN links /\ links[n] = run[p].peer
  BY DEF IInv, Alone, Half
<1>2. d # run[p].peer
  BY DEF Through, Upserting
<1>. QED
  BY <1>1, <1>2, ThroughLinks

LEMMA MigratingAlone ==
  ASSUME IInv, NEW p \in Procs, run[p].pc \in Migrating,
         NEW c \in Migrating \ {"strip"}, Goes(p, c), UNCHANGED <<world, links>>,
         run[p].alone => \A d \in Through(p) : KeptOf(d),
         run[p].alone => \A n \in run[p].old : OfName(deps', n) = {}
  PROVE  \A q \in Procs : Alone(q)'
<1>1. /\ Step(p) /\ run'[p].pc = c
      /\ UNCHANGED <<run[p].found, run[p].left, run[p].peer, run[p].old>>
  BY GoesDoes DEF Upserting, IInv, Structure
<1>2. ASSUME run[p].alone PROVE StaysAlone(p)
  <2>1. Through(p)' = Through(p)
    BY <1>1 DEF Through, Upserting
  <2>2. Half(p)'
    <3>1. \A n \in run[p].old : n \in DOMAIN links /\ links[n] = run[p].peer
      BY <1>2 DEF IInv, Alone, Half
    <3>2. run'[p].pc \notin Storing
      BY <1>1 DEF Migrating, Storing
    <3>. QED
      BY <1>1, <1>2, <3>1, <3>2 DEF Half, Storing
  <2>3. Swept(p)'
    BY <1>1 DEF Swept, Pruning, Ending, Migrating
  <2>4. UNCHANGED <<disk, run[p].kind>>
    BY <1>1 DEF Step, Own, world
  <2>. QED
    BY <1>1, <1>2, <2>1, <2>2, <2>3, <2>4, StaysThrough, SameFoundAll
<1>. QED
  BY <1>1, <1>2, AloneStep DEF Step, Own, Migrating

LEMMA StripAlone ==
  ASSUME IInv, NEW p \in Procs, Strip(p)
  PROVE  \A q \in Procs : Alone(q)'
<1>1. PICK n \in run[p].old : deps' = Without(deps, n)
  BY DEF Strip
<1>2. run[p].pc = "strip" /\ Goes(p, "dedupe") /\ UNCHANGED <<world, links, rows>>
  BY DEF Strip, At
<1>3. run[p].old = {n}
  BY <1>1, <1>2, OldName DEF Migrating, IInv
<1>4. OfName(deps', n) = {}
  <2>1. DOMAIN deps' = {x \in DOMAIN deps : x[1] # n}
    BY <1>1, WithoutIs
  <2>. QED
    BY <2>1 DEF OfName
<1>5. ASSUME run[p].alone, NEW d \in Through(p) PROVE KeptOf(d)
  BY <1>1, <1>2, <1>5, OldNotThrough, DepsKeep DEF Migrating
<1>. QED
  BY <1>2, <1>3, <1>4, <1>5, MigratingAlone DEF Migrating

LEMMA DedupeAlone ==
  ASSUME IInv, NEW p \in Procs, Dedupe(p)
  PROVE  \A q \in Procs : Alone(q)'
<1>1. /\ run[p].pc = "dedupe" /\ Goes(p, "rename") /\ UNCHANGED <<world, links, deps, spent>>
      /\ \E n \in run[p].old :
              DOMAIN rows' = {x \in DOMAIN rows :
                                ~(x[1] = n /\ <<run[p].peer, x[2]>> \in DOMAIN rows)}
  BY DedupedIs DEF IInv
<1>2. ASSUME run[p].alone, NEW d \in Through(p) PROVE KeptOf(d)
  <2>1. PICK n \in run[p].old :
              DOMAIN rows' = {x \in DOMAIN rows :
                                ~(x[1] = n /\ <<run[p].peer, x[2]>> \in DOMAIN rows)}
    BY <1>1
  <2>2. n # d
    BY <1>1, <1>2, OldNotThrough DEF Migrating
  <2>3. \A t : <<d, t>> \in DOMAIN rows => <<d, t>> \in DOMAIN rows'
    BY <2>1, <2>2
  <2>. QED
    BY <1>1, <2>3, RowsKeep
<1>3. ASSUME run[p].alone PROVE \A n \in run[p].old : OfName(deps', n) = {}
  BY <1>1, <1>3 DEF IInv, Alone, Half, Migrating, OfName
<1>. QED
  BY <1>1, <1>2, <1>3, MigratingAlone DEF Migrating

LEMMA RenameAlone ==
  ASSUME IInv, NEW p \in Procs, Rename(p)
  PROVE  \A q \in Procs : Alone(q)'
<1>1. /\ run[p].pc = "rename" /\ Goes(p, "unlink") /\ UNCHANGED <<world, links, deps, spent>>
      /\ \E n \in Names \ {run[p].peer} :
              run[p].old = {n} /\ rows' = Renamed(n, run[p].peer)
      /\ run[p].peer \in Names
  BY RenameIs DEF IInv
<1>2. ASSUME run[p].alone, NEW d \in Through(p) PROVE KeptOf(d)
  <2>1. PICK n \in Names \ {run[p].peer} : run[p].old = {n} /\ rows' = Renamed(n, run[p].peer)
    BY <1>1
  <2>2. n # d
    BY <1>1, <1>2, <2>1, OldNotThrough DEF Migrating
  <2>3. {x \in DOMAIN rows : x[1] # n} \subseteq DOMAIN Renamed(n, run[p].peer)
    <3>1. BagOf(Names \X Txs, rows)
      BY DEF IInv, Structure, Types, StoreTypes
    <3>2. DOMAIN Renamed(n, run[p].peer) = {x \in DOMAIN rows : x[1] # n}
                                  \cup {<<run[p].peer, y[2]>> : y \in OfName(rows, n)}
      BY <1>1, <2>1, <3>1, RenamedIs
    <3>. QED
      BY <3>2
  <2>4. \A t : <<d, t>> \in DOMAIN rows => <<d, t>> \in DOMAIN rows'
    BY <2>1, <2>2, <2>3
  <2>. QED
    BY <1>1, <2>4, RowsKeep
<1>3. ASSUME run[p].alone PROVE \A n \in run[p].old : OfName(deps', n) = {}
  BY <1>1, <1>3 DEF IInv, Alone, Half, Migrating, OfName
<1>. QED
  BY <1>1, <1>2, <1>3, MigratingAlone DEF Migrating

LEMMA UnlinkAlone ==
  ASSUME IInv, NEW p \in Procs, Unlink(p)
  PROVE  \A q \in Procs : Alone(q)'
<1>1. /\ run[p].pc = "unlink" /\ run'[p].pc = "link" /\ Step(p)
      /\ UNCHANGED <<run[p].found, run[p].left, run[p].peer>>
      /\ DOMAIN links' = DOMAIN links \ run[p].old
      /\ \A n \in DOMAIN links' : links'[n] = links[n]
      /\ UNCHANGED <<world, deps, rows, spent>>
  BY UnlinkDoes DEF At, IInv
<1>2. ASSUME run[p].alone PROVE StaysAlone(p)
  <2>1. Through(p)' = Through(p)
    BY <1>1 DEF Through, Upserting, Migrating, Storing
  <2>2. ASSUME NEW d \in Through(p) PROVE KeptOf(d)
    <3>1. \A n \in run[p].old : links[n] # d
      BY <1>1, <1>2, OldNotThrough DEF Migrating
    <3>. QED
      BY <1>1, <3>1, LinksKeep
  <2>3. Half(p)' /\ Swept(p)'
    BY <1>1 DEF Half, Swept, Pruning, Ending, Migrating, Storing
  <2>4. UNCHANGED <<disk, run[p].kind>>
    BY <1>1 DEF Step, Own, world
  <2>. QED
    BY <1>1, <1>2, <2>1, <2>2, <2>3, <2>4, StaysThrough, SameFoundAll
<1>. QED
  BY <1>1, <1>2, AloneStep DEF Step, Own

LEMMA LinkAlone ==
  ASSUME IInv, NEW p \in Procs, Link(p)
  PROVE  \A q \in Procs : Alone(q)'
<1>1. /\ run[p].pc = "link" /\ Goes(p, "clear") /\ UNCHANGED <<world, deps, rows, spent>>
      /\ DOMAIN links' = DOMAIN links \cup {run[p].peer}
      /\ \A n \in DOMAIN links' : links'[n] = IF n = run[p].peer THEN n ELSE links[n]
  BY LinkDoes DEF IInv
<1>2. /\ Step(p) /\ run'[p].pc = "clear"
      /\ UNCHANGED <<run[p].found, run[p].left, run[p].peer>>
  BY <1>1, GoesDoes DEF Upserting, Storing, IInv, Structure
<1>3. ASSUME run[p].alone PROVE StaysAlone(p)
  <2>1. Through(p)' = Through(p)
    BY <1>1, <1>2 DEF Through, Upserting, Migrating, Storing
  <2>2. ASSUME NEW d \in Through(p) PROVE KeptOf(d)
    <3>1. d # run[p].peer
      BY <1>1 DEF Through, Upserting, Storing
    <3>2. /\ d \in DOMAIN links /\ links[d] = d
          /\ \A n \in DOMAIN links : links[n] = d => n = d
      BY <1>3, ThroughLinks
    <3>. QED
      BY <1>1, <3>1, <3>2 DEF KeptOf
  <2>3. Half(p)' /\ Swept(p)'
    BY <1>1, <1>2 DEF Half, Swept, Pruning, Ending, Migrating, Storing
  <2>4. UNCHANGED <<disk, run[p].kind>>
    BY <1>1, <1>2 DEF Step, Own, world
  <2>. QED
    BY <1>2, <1>3, <2>1, <2>2, <2>3, <2>4, StaysThrough, SameFoundAll
<1>. QED
  BY <1>1, <1>2, <1>3, AloneStep DEF Step, Own

LEMMA ClearAlone ==
  ASSUME IInv, NEW p \in Procs, Clear(p)
  PROVE  \A q \in Procs : Alone(q)'
<1>. DEFINE d == run[p].peer  edges == run'[p].edges
<1>1. /\ run[p].pc = "clear" /\ UNCHANGED <<world, links, rows, spent>>
      /\ deps' = Without(deps, d)
      /\ Step(p) /\ UNCHANGED <<run[p].left, run[p].peer, run[p].old, run[p].doomed>>
      /\ run'[p].pc = IF edges = {} THEN AfterSave(p) ELSE "save"
      /\ DOMAIN run'[p].found = DOMAIN run[p].found
      /\ \A e \in DOMAIN run[p].found :
           /\ run'[p].found[e].entries = run[p].found[e].entries
           /\ run'[p].found[e].symbols = IF e = d THEN edges ELSE run[p].found[e].symbols
  BY ClearDoes DEF IInv
<1>2. d \in DOMAIN run[p].found \ run[p].left /\ d \in Peers
  BY <1>1, Storer DEF Upserting, Storing, IInv
<1>3. OfName(deps', d) = {}
  <2>1. DOMAIN Without(deps, d) = {x \in DOMAIN deps : x[1] # d}
    BY WithoutIs
  <2>. QED
    BY <1>1, <2>1 DEF OfName
<1>4. run'[p].pc \in {"save", "import", "pick"} /\ (run'[p].pc # "save" => edges = {})
      /\ (run'[p].pc = "pick" => run[p].kind # "scan") /\ run'[p].kind = run[p].kind
  BY <1>1 DEF AfterSave, Step, Own
<1>5. ASSUME run[p].alone PROVE StaysAlone(p)
  <2>1. d \in DOMAIN links /\ links[d] = d /\ \A m \in DOMAIN links : links[m] = d => m = d
    BY <1>1, <1>5 DEF IInv, Structure, Named, Alone, Half, Storing
  <2>2. ASSUME NEW e \in Through(p)', e # d
        PROVE  e \in Through(p) /\ KeptOf(e) /\ SameFound(p, e)
    <3>1. e \in Through(p)
      BY <1>1, <2>2 DEF Through
    <3>2. KeptOf(e)
      BY <1>1, <2>2, DepsKeep
    <3>3. e \in DOMAIN run[p].found
      BY <3>1 DEF Through
    <3>. QED
      BY <1>1, <2>2, <3>1, <3>2, <3>3 DEF SameFound
  <2>3. ASSUME d \in Through(p)' PROVE Settled(p, d)'
    <3>1. run'[p].pc = "pick"
      BY <1>1, <1>4, <2>3 DEF Through, Upserting, Storing
    <3>2. run'[p].found[d].symbols = {} /\ run'[p].kind # "scan"
      BY <1>1, <1>2, <1>4, <3>1
    <3>3. {n \in DOMAIN links' : links'[n] = d} = {d}
      BY <1>1, <2>1
    <3>4. OfName(deps', d) = {<<d, s>> : s \in run'[p].found[d].symbols}
      BY <1>3, <3>2
    <3>. QED
      BY <1>1, <1>3, <3>2, <3>3, <3>4 DEF Settled
  <2>4. Half(p)'
    <3>1. OfName(deps', d) = {<<d, s>> : s \in run'[p].found[d].symbols
                                        \ IF run'[p].pc = "save" THEN edges ELSE {}}
      <4>1. run'[p].found[d].symbols = edges
        BY <1>1, <1>2
      <4>. QED
        BY <1>3, <1>4, <4>1
    <3>. QED
      BY <1>1, <1>3, <1>4, <2>1, <3>1 DEF Half, Migrating, Storing
  <2>5. Swept(p)'
    BY <1>4 DEF Swept, Pruning, Ending
  <2>6. UNCHANGED <<disk, run[p].kind>>
    BY <1>1, <1>4 DEF world
  <2>. QED
    BY <1>1, <1>5, <2>2, <2>3, <2>4, <2>5, <2>6, StaysThrough
<1>. QED
  BY <1>1, <1>5, AloneStep DEF Step, Own

LEMMA SaveAlone ==
  ASSUME IInv, NEW p \in Procs, Save(p)
  PROVE  \A q \in Procs : Alone(q)'
<1>. DEFINE d == run[p].peer  symbols == run[p].found[d].symbols
<1>1. /\ run[p].pc = "save" /\ UNCHANGED <<world, links, rows, spent>> /\ Step(p)
      /\ UNCHANGED <<run[p].found, run[p].left, run[p].peer, run[p].old>>
  BY SaveDoes DEF At, IInv, Structure
<1>2. PICK s \in run[p].edges :
              /\ run'[p].edges = run[p].edges \ {s} /\ deps' = BagAdd(deps, <<d, s>>)
              /\ run'[p].pc = IF run'[p].edges = {} THEN AfterSave(p) ELSE "save"
  BY SaveDoes DEF IInv, Structure
<1>3. d \in DOMAIN run[p].found \ run[p].left /\ d \in Peers /\ run[p].edges \subseteq symbols
  BY <1>1, Storer DEF Upserting, Storing, IInv, Structure, Working
<1>4. /\ run'[p].pc \in {"save", "import", "pick"} /\ (run'[p].pc # "save" => run'[p].edges = {})
      /\ (run'[p].pc = "pick" => run[p].kind # "scan") /\ run'[p].kind = run[p].kind
  BY <1>1, <1>2 DEF AfterSave, Step, Own
<1>5. ASSUME run[p].alone PROVE StaysAlone(p)
  <2>1. d \in DOMAIN links /\ links[d] = d /\ \A m \in DOMAIN links : links[m] = d => m = d
    BY <1>1, <1>5 DEF IInv, Structure, Named, Alone, Half, Storing
  <2>2. /\ OfName(deps, d) = {<<d, z>> : z \in symbols \ run[p].edges}
        /\ \A x \in OfName(deps, d) : deps[x] = 1
    BY <1>1, <1>5 DEF IInv, Alone, Half
  <2>3. /\ DOMAIN deps' = DOMAIN deps \cup {<<d, s>>}
        /\ \A y \in DOMAIN deps \ {<<d, s>>} : deps'[y] = deps[y]
        /\ <<d, s>> \notin DOMAIN deps => deps'[<<d, s>>] = 1
    <3>. DEFINE x == <<d, s>>
    <3>1. /\ DOMAIN BagAdd(deps, x) = DOMAIN deps \cup {x}
          /\ \A y \in DOMAIN deps \ {x} : BagAdd(deps, x)[y] = deps[y]
          /\ x \notin DOMAIN deps => BagAdd(deps, x)[x] = 1
      BY BagAddIs
    <3>2. deps' = BagAdd(deps, x)
      BY <1>2
    <3>. HIDE DEF x
    <3>3. /\ DOMAIN deps' = DOMAIN deps \cup {x}
          /\ \A y \in DOMAIN deps \ {x} : deps'[y] = deps[y]
          /\ x \notin DOMAIN deps => deps'[x] = 1
      BY <3>1, <3>2
    <3>. QED
      BY <3>3 DEF x
  <2>4. /\ OfName(deps', d) = {<<d, z>> : z \in symbols \ run'[p].edges}
        /\ \A x \in OfName(deps', d) : deps'[x] = 1
    <3>1. OfName(deps', d) = OfName(deps, d) \cup {<<d, s>>}
      BY <2>3 DEF OfName
    <3>2. <<d, s>> \notin DOMAIN deps
      <4>1. <<d, s>> \notin OfName(deps, d)
        BY <2>2
      <4>. QED
        BY <4>1 DEF OfName
    <3>3. symbols \ run'[p].edges = (symbols \ run[p].edges) \cup {s}
      BY <1>2, <1>3
    <3>4. \A x \in OfName(deps, d) : x \in DOMAIN deps /\ deps'[x] = 1
      BY <2>2, <2>3, <3>2 DEF OfName
    <3>. QED
      BY <2>2, <2>3, <3>1, <3>2, <3>3, <3>4
  <2>5. ASSUME NEW e \in Through(p)', e # d PROVE e \in Through(p) /\ KeptOf(e)
    <3>1. e \in Through(p)
      BY <1>1, <2>5 DEF Through
    <3>2. OfName(deps', e) = OfName(deps, e)
      BY <2>3, <2>5 DEF OfName
    <3>3. \A x \in OfName(deps, e) : deps'[x] = deps[x]
      BY <2>3, <2>5 DEF OfName
    <3>. QED
      BY <1>1, <3>1, <3>2, <3>3 DEF KeptOf
  <2>6. ASSUME d \in Through(p)' PROVE Settled(p, d)'
    <3>1. run'[p].pc = "pick"
      BY <1>1, <1>4, <2>6 DEF Through, Upserting, Storing
    <3>2. symbols \ run'[p].edges = run'[p].found[d].symbols /\ run'[p].kind # "scan"
      BY <1>1, <1>4, <3>1
    <3>3. {n \in DOMAIN links' : links'[n] = d} = {d}
      BY <1>1, <2>1
    <3>. QED
      BY <1>1, <2>4, <3>2, <3>3 DEF Settled
  <2>7. Half(p)'
    <3>1. symbols \ run'[p].edges =
            run'[p].found[d].symbols \ IF run'[p].pc = "save" THEN run'[p].edges ELSE {}
      BY <1>1, <1>4
    <3>. QED
      BY <1>1, <1>4, <2>1, <2>4, <3>1 DEF Half, Migrating, Storing
  <2>8. Swept(p)'
    BY <1>4 DEF Swept, Pruning, Ending
  <2>9. UNCHANGED <<disk, run[p].kind>>
    BY <1>1, <1>4 DEF world
  <2>. QED
    BY <1>1, <1>5, <2>5, <2>6, <2>7, <2>8, <2>9, StaysThrough, SameFoundAll
<1>. QED
  BY <1>1, <1>5, AloneStep DEF Step, Own

LEMMA ImportAlone ==
  ASSUME IInv, NEW p \in Procs, Import(p)
  PROVE  \A q \in Procs : Alone(q)'
<1>. DEFINE d == run[p].peer
<1>1. /\ run[p].pc = "import" /\ Goes(p, "pick") /\ UNCHANGED <<world, links, deps, spent>>
      /\ d \in DOMAIN run[p].found \ run[p].left /\ d \in Peers
      /\ DOMAIN rows' = DOMAIN rows \cup {<<d, t>> : t \in run[p].found[d].entries}
  BY ImportDoes DEF IInv
<1>2. /\ Step(p) /\ run'[p].pc = "pick" /\ UNCHANGED <<run[p].found, run[p].left, run[p].peer>>
  BY <1>1, GoesDoes DEF IInv, Structure
<1>3. ASSUME run[p].alone PROVE StaysAlone(p)
  <2>1. d \in DOMAIN links /\ links[d] = d /\ \A m \in DOMAIN links : links[m] = d => m = d
    BY <1>1, <1>3 DEF IInv, Structure, Named, Alone, Half, Storing
  <2>2. /\ OfName(deps, d) = {<<d, z>> : z \in run[p].found[d].symbols}
        /\ \A x \in OfName(deps, d) : deps[x] = 1
    BY <1>1, <1>3 DEF IInv, Alone, Half
  <2>3. ASSUME NEW e \in Through(p)', e # d PROVE e \in Through(p) /\ KeptOf(e)
    <3>1. e \in Through(p)
      BY <1>1, <1>2, <2>3 DEF Through
    <3>2. \A t : <<e, t>> \in DOMAIN rows => <<e, t>> \in DOMAIN rows'
      BY <1>1
    <3>. QED
      BY <1>1, <3>1, <3>2, RowsKeep
  <2>4. Settled(p, d)'
    <3>1. {n \in DOMAIN links' : links'[n] = d} = {d}
      BY <1>1, <2>1
    <3>2. \A t \in run'[p].found[d].entries : <<d, t>> \in DOMAIN rows'
      BY <1>1, <1>2
    <3>. QED
      BY <1>1, <1>2, <2>2, <3>1, <3>2 DEF Settled
  <2>5. Half(p)' /\ Swept(p)'
    BY <1>2 DEF Half, Swept, Migrating, Storing, Pruning, Ending
  <2>6. UNCHANGED <<disk, run[p].kind>>
    BY <1>1, <1>2 DEF world, Step, Own
  <2>. QED
    BY <1>2, <1>3, <2>3, <2>4, <2>5, <2>6, StaysThrough, SameFoundAll
<1>. QED
  BY <1>1, <1>2, <1>3, AloneStep DEF Step, Own

LEMMA OutOfTimeAlone ==
  ASSUME IInv, NEW p \in Procs, OutOfTime(p)
  PROVE  \A q \in Procs : Alone(q)'
<1>1. /\ At(p, "pick") /\ Step(p) /\ run'[p].pc = "pick" /\ UNCHANGED <<world, store, spent>>
      /\ run'[p].left = {} /\ DOMAIN run'[p].found = DOMAIN run[p].found \ run[p].left
      /\ \A d \in DOMAIN run'[p].found : run'[p].found[d] = run[p].found[d]
  BY OutOfTimeDoes DEF IInv, Structure
<1>2. ASSUME run[p].alone PROVE StaysAlone(p)
  <2>1. \A d \in Through(p)' : d \in Through(p) /\ KeptOf(d) /\ SameFound(p, d)
    BY <1>1, SameKeeps DEF Through, SameFound, At, Upserting, Migrating, Storing
  <2>2. Half(p)' /\ Swept(p)'
    BY <1>1 DEF Half, Swept, Migrating, Storing, Pruning, Ending
  <2>3. UNCHANGED <<disk, run[p].kind>>
    BY <1>1 DEF world, Step, Own
  <2>. QED
    BY <1>1, <1>2, <2>1, <2>2, <2>3, StaysThrough
<1>. QED
  BY <1>1, <1>2, AloneStep DEF Step, Own, At

LEMMA ReadLinksAlone ==
  ASSUME IInv, NEW p \in Procs, ReadLinks(p)
  PROVE  \A q \in Procs : Alone(q)'
<1>1. /\ At(p, "pick") /\ run[p].left = {} /\ Step(p) /\ UNCHANGED <<world, store, spent>>
      /\ run'[p].doomed = links /\ run'[p].pc \in {"done", "check", "prune"}
      /\ run'[p].pc # "prune" => DOMAIN links = {}
      /\ UNCHANGED <<run[p].found, run[p].left>>
  BY ReadLinksDoes DEF IInv, Structure, AfterPrune
<1>2. ASSUME run[p].alone PROVE StaysAlone(p)
  <2>1. \A d \in Through(p)' : d \in Through(p)
    BY <1>1 DEF Through, At, Upserting, Migrating, Storing
  <2>2. Half(p)' /\ Swept(p)'
    BY <1>1 DEF Half, Swept, Migrating, Storing, Pruning, Ending, store
  <2>3. UNCHANGED <<disk, run[p].kind>> /\ UNCHANGED store
    BY <1>1 DEF world, Step, Own
  <2>. QED
    BY <1>1, <1>2, <2>1, <2>2, <2>3, StaysThrough, SameKeeps, SameFoundAll
<1>. QED
  BY <1>1, <1>2, AloneStep DEF Step, Own, At

LEMMA KeepAlone ==
  ASSUME IInv, NEW p \in Procs, Keep(p)
  PROVE  \A q \in Procs : Alone(q)'
<1>1. /\ run[p].pc = "prune" /\ Step(p) /\ UNCHANGED <<world, store, spent>>
      /\ \A m \in DOMAIN run'[p].doomed : run'[p].doomed[m] = run[p].doomed[m]
      /\ run'[p].pc \in {"done", "check", "prune"}
      /\ run'[p].pc # "prune" => DOMAIN run'[p].doomed = {}
      /\ UNCHANGED <<run[p].found, run[p].left>>
  BY KeepDoes DEF IInv, Structure, AfterPrune
<1>2. PICK n \in DOMAIN run[p].doomed :
        ~Dead(run[p].doomed[n]) /\ DOMAIN run'[p].doomed = DOMAIN run[p].doomed \ {n}
  BY KeepDoes DEF IInv, Structure
<1>3. ASSUME run[p].alone PROVE StaysAlone(p)
  <2>1. \A d \in Through(p)' : d \in Through(p)
    BY <1>1 DEF Through, Upserting, Migrating, Storing
  <2>2. /\ \A m \in DOMAIN run[p].doomed : m \in DOMAIN links /\ links[m] = run[p].doomed[m]
        /\ \A m \in DOMAIN links : m \in DOMAIN run[p].doomed \/ ~Dead(links[m])
    BY <1>1, <1>3 DEF IInv, Alone, Swept, Pruning
  <2>3. \A m \in DOMAIN links' : m \in DOMAIN run'[p].doomed \/ ~Dead(links[m])
    BY <1>1, <1>2, <2>2 DEF store
  <2>4. UNCHANGED <<disk, links, run[p].kind>>
    BY <1>1 DEF world, store, Step, Own
  <2>5. \A path : Dead(path)' <=> Dead(path)
    BY <2>4 DEF Dead
  <2>6. Half(p)' /\ Swept(p)'
    BY <1>1, <1>2, <2>2, <2>3, <2>4, <2>5
       DEF Half, Swept, Migrating, Storing, Pruning, Ending
  <2>. QED
    BY <1>1, <1>3, <2>1, <2>4, <2>6, StaysThrough, SameKeeps, SameFoundAll
<1>. QED
  BY <1>1, <1>3, AloneStep DEF Step, Own

\* A link that leads nowhere is not the link of a sibling that was found.
LEMMA DeadNotThrough ==
  ASSUME IInv, NEW p \in Procs, run[p].alone, NEW d \in Through(p), NEW n,
         n \in DOMAIN links => Dead(links[n])
  PROVE  n # d
  BY ThroughLinks DEF Dead

LEMMA ForgetDepsAlone ==
  ASSUME IInv, NEW p \in Procs, ForgetDeps(p)
  PROVE  \A q \in Procs : Alone(q)'
<1>1. /\ run[p].pc = "prune" /\ Step(p) /\ UNCHANGED <<world, links, rows, spent>>
      /\ \A m \in DOMAIN run'[p].doomed : run'[p].doomed[m] = run[p].doomed[m]
      /\ run'[p].pc = "forget" /\ UNCHANGED <<run[p].found, run[p].left>>
  BY ForgetDepsDoes DEF IInv, Structure
<1>2. PICK n \in DOMAIN run[p].doomed :
              /\ Dead(run[p].doomed[n]) /\ deps' = Without(deps, n)
              /\ DOMAIN run'[p].doomed = DOMAIN run[p].doomed \ {n} /\ run'[p].old = {n}
  BY ForgetDepsDoes DEF IInv, Structure
<1>3. ASSUME run[p].alone PROVE StaysAlone(p)
  <2>1. \A d \in Through(p)' : d \in Through(p)
    BY <1>1 DEF Through, Upserting, Migrating, Storing
  <2>2. /\ \A m \in DOMAIN run[p].doomed : m \in DOMAIN links /\ links[m] = run[p].doomed[m]
        /\ \A m \in DOMAIN links : m \in DOMAIN run[p].doomed \/ ~Dead(links[m])
    BY <1>1, <1>3 DEF IInv, Alone, Swept, Pruning
  <2>3. UNCHANGED <<disk, links, run[p].kind>>
    BY <1>1 DEF world, Step, Own
  <2>4. \A path : Dead(path)' <=> Dead(path)
    BY <2>3 DEF Dead
  <2>5. ASSUME NEW d \in Through(p) PROVE KeptOf(d)
    <3>1. n # d
      BY <1>2, <1>3, <2>2, DeadNotThrough
    <3>. QED
      BY <1>1, <1>2, <3>1, DepsKeep
  <2>6. OfName(deps', n) = {}
    <3>1. DOMAIN Without(deps, n) = {x \in DOMAIN deps : x[1] # n}
      BY WithoutIs
    <3>. QED
      BY <1>2, <3>1 DEF OfName
  <2>7. Half(p)'
    BY <1>1 DEF Half, Migrating, Storing
  <2>8. Swept(p)'
    BY <1>1, <1>2, <2>2, <2>3, <2>4, <2>6 DEF Swept, Pruning, Ending
  <2>. QED
    BY <1>1, <1>3, <2>1, <2>3, <2>5, <2>7, <2>8, StaysThrough, SameFoundAll
<1>. QED
  BY <1>1, <1>3, AloneStep DEF Step, Own

LEMMA ForgetRowsAlone ==
  ASSUME IInv, NEW p \in Procs, ForgetRows(p)
  PROVE  \A q \in Procs : Alone(q)'
<1>1. run[p].pc = "forget" /\ Goes(p, "drop") /\ UNCHANGED <<world, links, deps, spent>>
  BY ForgetRowsDoes DEF IInv
<1>2. PICK n \in Names : run[p].old = {n} /\ rows' = Without(rows, n)
  BY ForgetRowsDoes DEF IInv
<1>3. /\ Step(p) /\ run'[p].pc = "drop"
      /\ UNCHANGED <<run[p].found, run[p].left, run[p].old, run[p].doomed>>
  BY <1>1, GoesDoes DEF Pruning, IInv, Structure
<1>4. ASSUME run[p].alone PROVE StaysAlone(p)
  <2>1. \A d \in Through(p)' : d \in Through(p)
    BY <1>1, <1>3 DEF Through, Upserting, Migrating, Storing
  <2>2. Swept(p)
    BY <1>4 DEF IInv, Alone
  <2>3. UNCHANGED <<disk, links, deps, run[p].kind>>
    BY <1>1, <1>3 DEF world, Step, Own
  <2>4. \A path : Dead(path)' <=> Dead(path)
    BY <2>3 DEF Dead
  <2>5. ASSUME NEW d \in Through(p) PROVE KeptOf(d)
    <3>1. n # d
      BY <1>1, <1>2, <1>4, <2>2, DeadNotThrough DEF Swept
    <3>2. DOMAIN Without(rows, n) = {x \in DOMAIN rows : x[1] # n}
      BY WithoutIs
    <3>3. \A t : <<d, t>> \in DOMAIN rows => <<d, t>> \in DOMAIN rows'
      BY <1>2, <3>1, <3>2
    <3>. QED
      BY <1>1, <3>3, RowsKeep
  <2>6. Half(p)'
    BY <1>3 DEF Half, Migrating, Storing
  <2>7. Swept(p)'
    BY <1>1, <1>3, <2>2, <2>3, <2>4 DEF Swept, Pruning, Ending
  <2>. QED
    BY <1>3, <1>4, <2>1, <2>3, <2>5, <2>6, <2>7, StaysThrough, SameFoundAll
<1>. QED
  BY <1>1, <1>3, <1>4, AloneStep DEF Step, Own

LEMMA DropAlone ==
  ASSUME IInv, NEW p \in Procs, Drop(p)
  PROVE  \A q \in Procs : Alone(q)'
<1>1. /\ run[p].pc = "drop" /\ UNCHANGED <<world, deps, rows, spent>> /\ Step(p)
      /\ run'[p].pc \in {"done", "check", "prune"}
      /\ run'[p].pc # "prune" => DOMAIN run[p].doomed = {}
      /\ UNCHANGED <<run[p].found, run[p].left, run[p].doomed>>
      /\ DOMAIN links' = DOMAIN links \ run[p].old
      /\ \A n \in DOMAIN links' : links'[n] = links[n]
  BY DropDoes DEF IInv, AfterPrune
<1>2. ASSUME run[p].alone PROVE StaysAlone(p)
  <2>1. \A d \in Through(p)' : d \in Through(p)
    BY <1>1 DEF Through, Upserting, Migrating, Storing
  <2>2. Swept(p)
    BY <1>2 DEF IInv, Alone
  <2>3. UNCHANGED <<disk, run[p].kind>>
    BY <1>1 DEF world, Step, Own
  <2>4. \A path : Dead(path)' <=> Dead(path)
    BY <2>3 DEF Dead
  <2>5. ASSUME NEW d \in Through(p) PROVE KeptOf(d)
    <3>1. \A n \in DOMAIN links \ DOMAIN links' : links[n] # d
      BY <1>1, <1>2, <2>2, ThroughLinks DEF Swept, Dead
    <3>. QED
      BY <1>1, <3>1, LinksKeep
  <2>6. Half(p)'
    BY <1>1 DEF Half, Migrating, Storing
  <2>7. Swept(p)'
    BY <1>1, <2>2, <2>4 DEF Swept, Pruning, Ending
  <2>. QED
    BY <1>1, <1>2, <2>1, <2>3, <2>5, <2>6, <2>7, StaysThrough, SameFoundAll
<1>. QED
  BY <1>1, <1>2, AloneStep DEF Step, Own

LEMMA CheckAlone ==
  ASSUME IInv, NEW p \in Procs, Check(p)
  PROVE  \A q \in Procs : Alone(q)'
<1>1. /\ run[p].pc = "check" /\ run'[p].pc = "done" /\ Step(p) /\ UNCHANGED <<world, store, spent>>
      /\ UNCHANGED <<run[p].found, run[p].left>>
  BY CheckDoes DEF At, IInv, Structure
<1>2. ASSUME run[p].alone PROVE StaysAlone(p)
  <2>1. \A d \in Through(p)' : d \in Through(p)
    BY <1>1 DEF Through, Upserting, Migrating, Storing
  <2>2. UNCHANGED <<disk, links, run[p].kind>>
    BY <1>1 DEF world, store, Step, Own
  <2>3. \A n \in DOMAIN links' : ~Dead(links[n])' 
    BY <1>1, <1>2, <2>2 DEF IInv, Alone, Swept, Ending, Dead
  <2>4. Half(p)' /\ Swept(p)'
    BY <1>1, <2>3 DEF Half, Swept, Migrating, Storing, Pruning, Ending
  <2>. QED
    BY <1>1, <1>2, <2>1, <2>2, <2>4, StaysThrough, SameKeeps, SameFoundAll
<1>. QED
  BY <1>1, <1>2, AloneStep DEF Step, Own

LEMMA EndAlone ==
  ASSUME IInv, NEW p \in Procs, End(p) \/ Fails(p) \/ Dies(p)
  PROVE  \A q \in Procs : Alone(q)'
<1>1. p \in Running /\ Unmoved(p) /\ ~run'[p].alone
  BY EndDoes DEF IInv, Structure
<1>. QED
  BY <1>1, AloneStep DEF Running

LEMMA BeginAlone ==
  ASSUME IInv, NEW p \in Procs, Begin(p)
  PROVE  \A q \in Procs : Alone(q)'
<1>1. /\ UNCHANGED <<world, store>>
      /\ run'[p].pc = "look" /\ run'[p].found = <<>>
      /\ run'[p].alone => Running = {}
      /\ \A q \in Procs \ {p} : ~run'[q].alone /\ run'[q].pc = run[q].pc
  BY BeginDoes DEF IInv, Structure
<1>2. ASSUME run'[p].alone PROVE Undisturbed(p)' /\ Half(p)' /\ Swept(p)'
  <2>1. \A q \in Procs \ {p} : run'[q].pc = "idle"
    BY <1>1, <1>2 DEF Running
  <2>2. DOMAIN run'[p].found = {}
    BY <1>1, EmptyPartial
  <2>. QED
    BY <1>1, <2>1, <2>2 DEF Undisturbed, Through, Half, Swept, Upserting, Migrating, Storing,
                            Pruning, Ending
<1>. QED
  BY <1>1, <1>2 DEF Alone

LEMMA EventsAlone ==
  ASSUME IInv, Events
  PROVE  \A q \in Procs : Alone(q)'
<1>1. /\ UNCHANGED store
      /\ \A p \in Procs :
              /\ UNCHANGED <<run[p].pc, run[p].kind, run[p].found, run[p].left,
                             run[p].peer, run[p].old, run[p].edges, run[p].doomed>>
              /\ run'[p].alone => run[p].alone /\ UNCHANGED disk
  BY EventsDo DEF IInv, Structure
<1>2. ASSUME NEW p \in Procs, run'[p].alone PROVE Undisturbed(p)' /\ Half(p)' /\ Swept(p)'
  <2>1. run[p].alone /\ UNCHANGED <<disk, links, deps, rows>>
    BY <1>1, <1>2 DEF store
  <2>2. Undisturbed(p) /\ Half(p) /\ Swept(p)
    BY <2>1 DEF IInv, Alone
  <2>3. Through(p)' = Through(p)
    BY <1>1 DEF Through
  <2>4. \A d : Settled(p, d) => Settled(p, d)'
    BY <1>1, <2>1 DEF Settled
  <2>5. Undisturbed(p)'
    BY <1>1, <2>1, <2>2, <2>3, <2>4 DEF Undisturbed
  <2>6. Half(p)'
    BY <1>1, <2>1, <2>2 DEF Half
  <2>7. Swept(p)'
    BY <1>1, <2>1, <2>2 DEF Swept, Dead
  <2>. QED
    BY <2>5, <2>6, <2>7
<1>. QED
  BY <1>2 DEF Alone

LEMMA AloneActs ==
  ASSUME IInv, NEW p \in Procs, Acts(p)
  PROVE  \A q \in Procs : Alone(q)'
  BY ActsAre, BeginAlone, LookAlone, PickAlone, StripAlone, DedupeAlone, RenameAlone,
     UnlinkAlone, LinkAlone, ClearAlone, SaveAlone, ImportAlone, OutOfTimeAlone,
     ReadLinksAlone, KeepAlone, ForgetDepsAlone, ForgetRowsAlone, DropAlone, CheckAlone, EndAlone

LEMMA InvInit == Init => IInv
<1>. SUFFICES ASSUME Init PROVE \A p \in Procs : ~run[p].alone
  BY StructureInit DEF IInv, Alone
<1>. QED
  BY IdleIs DEF Init

LEMMA InvStays ==
  ASSUME IInv, [Next]_vars
  PROVE  IInv'
<1>1. Structure'
  BY StructureStays DEF IInv
<1>2. CASE UNCHANGED vars
  <2>1. UNCHANGED <<disk, links, deps, rows, run>>
    BY <1>2 DEF vars, world, store
  <2>. QED
    BY <1>1, <2>1 DEF IInv, Alone, Undisturbed, Through, Settled, Half, Swept, Dead
<1>3. CASE Events
  BY <1>1, <1>3, EventsAlone DEF IInv
<1>4. ASSUME NEW p \in Procs, Acts(p) PROVE IInv'
  BY <1>1, <1>4, AloneActs DEF IInv
<1>. QED
  BY <1>2, <1>3, <1>4, NextIs

\* A run that nobody disturbs repairs whatever earlier runs and earlier binaries
\* left: it never trips over its own foreign key, and when it is done every sibling
\* it could read is settled and no link leads to a missing path.
THEOREM UndisturbedRunSettles == Spec => []RunSettles
<1>1. IInv => RunSettles
  <2>. SUFFICES ASSUME IInv, NEW p \in Procs, run[p].alone
                PROVE  /\ KeyHolds(p)
                       /\ At(p, "done") =>
                            /\ \A d \in DOMAIN run[p].found : Settled(p, d)
                            /\ \A n \in DOMAIN links : ~Dead(links[n])
    BY DEF RunSettles
  <2>1. Undisturbed(p) /\ Half(p) /\ Swept(p) /\ Working(p)
    BY DEF IInv, Alone, Structure
  <2>2. KeyHolds(p)
    BY <2>1 DEF KeyHolds, Half, Swept, At, Migrating, Storing
  <2>3. ASSUME At(p, "done") PROVE \A d \in DOMAIN run[p].found : Settled(p, d)
    <3>1. Through(p) = DOMAIN run[p].found
      BY <2>1, <2>3 DEF Through, Working, At, Upserting, Migrating, Storing, Ending
    <3>. QED
      BY <2>1, <3>1 DEF Undisturbed
  <2>4. ASSUME At(p, "done") PROVE \A n \in DOMAIN links : ~Dead(links[n])
    BY <2>1, <2>4 DEF Swept, At, Ending
  <2>. QED
    BY <2>2, <2>3, <2>4
<1>. QED
  BY <1>1, InvInit, InvStays, PTL DEF Spec

-----------------------------------------------------------------------------
(* Whose entries a name stands for.                                        *)

\* An old name loses its entries, and then its link; it gains neither.
Fade ==
  /\ \A x \in DOMAIN rows' : x[1] \in OldNames => x \in DOMAIN rows
  /\ \A n \in DOMAIN links \cap OldNames :
       (n \in DOMAIN links' /\ links'[n] = links[n]) \/ OfName(rows', n) = {}

\* No entry comes to be stored under a basename while an old name has it.
Apart ==
  \A n \in OldNames : \A d \in Peers : \A t \in Txs :
    Held(n, d) /\ <<n, t>> \in DOMAIN rows' /\ <<d, t>> \in DOMAIN rows' => <<d, t>> \in DOMAIN rows

LEMMA HeldStays ==
  ASSUME Fade, NEW n \in OldNames, NEW path, Held(n, path)
  PROVE  Held(n, path)'
<1>1. CASE OfName(rows, n) = {}
  BY <1>1 DEF Held, Fade, OfName
<1>2. CASE n \in DOMAIN links /\ links[n] = path
  BY <1>2 DEF Held, Fade
<1>. QED
  BY <1>1, <1>2 DEF Held

LEMMA SameFade ==
  ASSUME Types, UNCHANGED links, DOMAIN rows' \subseteq DOMAIN rows
  PROVE  Fade /\ Apart
  BY DEF Fade, Apart

SameRun(q) == UNCHANGED <<run[q].pc, run[q].peer, run[q].old, run[q].doomed, run[q].gone>>

\* What a run knows of the names stays true whatever the others do.
LEMMA MovingStays ==
  ASSUME Attributed, Fade, Apart, NEW q \in Procs, SameRun(q)
  PROVE  Moving(q)'
<1>. DEFINE r == run[q]  pc == r.pc  old == r.old
<1>1. Moving(q)
  BY DEF Attributed
<1>2. pc \in Migrating => old \subseteq OldNames /\ r.peer \in Peers
  BY <1>1, OldName DEF Moving, Attributed
<1>3. pc \in Migrating => \A n \in old : Held(n, r.peer)'
  <2>. SUFFICES ASSUME pc \in Migrating, NEW n \in old PROVE Held(n, r.peer)'
    OBVIOUS
  <2>1. Held(n, r.peer) /\ n \in OldNames
    BY <1>1, <1>2 DEF Moving
  <2>2. run'[q].peer = r.peer
    BY DEF SameRun
  <2>. QED
    BY <2>1, <2>2, HeldStays
<1>4. pc = "rename" => \A n \in old : \A t \in Txs :
            ~(<<n, t>> \in DOMAIN rows' /\ <<r.peer, t>> \in DOMAIN rows')
  <2>. SUFFICES ASSUME pc = "rename", NEW n \in old, NEW t \in Txs,
                       <<n, t>> \in DOMAIN rows', <<r.peer, t>> \in DOMAIN rows'
                PROVE  FALSE
    OBVIOUS
  <2>1. pc \in Migrating
    BY DEF Migrating
  <2>2. n \in OldNames /\ r.peer \in Peers /\ Held(n, r.peer)
    BY <1>1, <1>2, <2>1 DEF Moving
  <2>3. <<n, t>> \in DOMAIN rows
    BY <2>2 DEF Fade
  <2>4. <<r.peer, t>> \in DOMAIN rows
    BY <2>2 DEF Apart
  <2>. QED
    BY <1>1, <2>3, <2>4 DEF Moving
<1>5. pc = "unlink" => \A n \in old : OfName(rows', n) = {}
  <2>. SUFFICES ASSUME pc = "unlink", NEW n \in old, NEW x \in OfName(rows', n) PROVE FALSE
    OBVIOUS
  <2>1. n \in OldNames /\ OfName(rows, n) = {}
    BY <1>1, <1>2 DEF Moving, Migrating
  <2>. QED
    BY <2>1 DEF OfName, Fade
<1>6. pc = "drop" => \A n \in old \cap OldNames : OfName(rows', n) = {}
  <2>. SUFFICES ASSUME pc = "drop", NEW n \in old \cap OldNames, NEW x \in OfName(rows', n)
                PROVE  FALSE
    OBVIOUS
  <2>1. OfName(rows, n) = {}
    BY <1>1 DEF Moving
  <2>. QED
    BY <2>1 DEF OfName, Fade
<1>7. run'[q].pc = pc /\ run'[q].peer = r.peer /\ run'[q].old = old
  BY DEF SameRun
<1>. QED
  BY <1>1, <1>2, <1>3, <1>4, <1>5, <1>6, <1>7 DEF Moving

\* What is doomed stays doomed, though siblings may turn up or vanish.
LEMMA ForgettingStays ==
  ASSUME Attributed, Fade, NEW q \in Procs, run'[q].pc = run[q].pc, run'[q].old = run[q].old,
         run'[q].doomed = run[q].doomed, run[q].gone \subseteq run'[q].gone,
         run[q].pc # "idle" =>
           \A d \in Peers : disk'[d] = Missing => disk[d] = Missing \/ d \in run'[q].gone
  PROVE  Forgetting(q)'
<1>. DEFINE r == run[q]  pc == r.pc  old == r.old
<1>1. Forgetting(q)
  BY DEF Attributed
<1>2. run'[q].pc # "idle" => \A d \in Peers : disk'[d] = Missing => d \in run'[q].gone
  BY <1>1 DEF Forgetting
<1>3. \A n \in DOMAIN r.doomed : IF n \in Peers THEN r.doomed[n] = n ELSE Held(n, r.doomed[n])'
  <2>. SUFFICES ASSUME NEW n \in DOMAIN r.doomed, n \notin Peers PROVE Held(n, r.doomed[n])'
    BY <1>1 DEF Forgetting
  <2>1. n \in OldNames
    BY FoundIs DEF Names, Attributed, Structure
  <2>2. Held(n, r.doomed[n])
    BY <1>1 DEF Forgetting
  <2>. QED
    BY <2>1, <2>2, HeldStays
<1>4. pc = "forget" => \A n \in old :
            IF n \in Peers THEN n \in run'[q].gone
                           ELSE \A x \in OfName(rows', n) : Owner[x[2]] \in run'[q].gone
  <2>. SUFFICES ASSUME pc = "forget", NEW n \in old
                PROVE  IF n \in Peers THEN n \in run'[q].gone
                           ELSE \A x \in OfName(rows', n) : Owner[x[2]] \in run'[q].gone
    OBVIOUS
  <2>1. IF n \in Peers THEN n \in r.gone
                       ELSE \A x \in OfName(rows, n) : Owner[x[2]] \in r.gone
    BY <1>1 DEF Forgetting
  <2>2. ASSUME n \notin Peers, NEW x \in OfName(rows', n) PROVE x \in OfName(rows, n)
    <3>1. n \in OldNames
      BY <2>2 DEF Attributed, Structure, Types, Session, Names
    <3>. QED
      BY <2>2, <3>1 DEF OfName, Fade
  <2>. QED
    BY <2>1, <2>2
<1>. QED
  BY <1>2, <1>3, <1>4 DEF Forgetting

\* A step leaves every name to the sibling whose entries are under it.
OwnLinks == \A n \in DOMAIN links' : \/ n \in Peers /\ links'[n] = n
                                     \/ n \in DOMAIN links /\ links'[n] = links[n]
OwnRows == \A x \in DOMAIN rows' : x \in DOMAIN rows \/ (x[1] \in Peers /\ Owner[x[2]] = x[1])
OwnFound(p) == \A d \in DOMAIN run'[p].found :
  d \in DOMAIN run[p].found /\ run'[p].found[d].entries = run[p].found[d].entries

LEMMA RowsOwnedStay ==
  ASSUME Attributed, OwnLinks, OwnRows
  PROVE  RowsOwned'
<1>1. RowsOwned
  BY DEF Attributed
<1>2. \A n \in DOMAIN links' \cap Peers : links'[n] = n
  BY <1>1 DEF RowsOwned, OwnLinks
<1>3. ASSUME NEW x \in DOMAIN rows'
      PROVE  /\ x[1] \in Peers => Owner[x[2]] = x[1]
             /\ x[1] \in DOMAIN links' => Owner[x[2]] = links'[x[1]]
  <2>1. x[1] \in Peers => Owner[x[2]] = x[1]
    BY <1>1 DEF RowsOwned, OwnRows
  <2>2. ASSUME x[1] \in DOMAIN links', x[1] \notin Peers PROVE Owner[x[2]] = links'[x[1]]
    BY <1>1, <2>2 DEF RowsOwned, OwnRows, OwnLinks
  <2>. QED
    BY <1>2, <2>1, <2>2
<1>. QED
  BY <1>2, <1>3 DEF RowsOwned

LEMMA SameOwn ==
  ASSUME UNCHANGED links, DOMAIN rows' \subseteq DOMAIN rows
  PROVE  OwnLinks /\ OwnRows
  BY DEF OwnLinks, OwnRows

LEMMA FilesOwnedStay ==
  ASSUME Attributed, Structure', NEW p \in Procs, Unmoved(p), UNCHANGED world, OwnFound(p)
  PROVE  FilesOwned'
<1>1. FilesOwned /\ UNCHANGED <<disk, exporting, recent>>
  BY DEF Attributed, world
<1>2. ASSUME NEW d \in DOMAIN run'[p].found PROVE OfOwner(d, run'[p].found[d])
  <2>1. d \in DOMAIN run[p].found /\ run'[p].found[d].entries = run[p].found[d].entries
    BY DEF OwnFound
  <2>2. run[p].found[d] \in Schema
    BY <2>1, FoundIs DEF Attributed, Structure
  <2>. QED
    BY <1>1, <2>1, <2>2 DEF FilesOwned, OfOwner
<1>3. \A q \in Procs : \A d \in DOMAIN run'[q].found : OfOwner(d, run'[q].found[d])
  BY <1>1, <1>2 DEF FilesOwned, Unmoved
<1>. QED
  BY <1>1, <1>3 DEF FilesOwned

LEMMA AttributedStep ==
  ASSUME Attributed, Structure', NEW p \in Procs, Step(p), UNCHANGED world, OwnFound(p),
         OwnLinks, OwnRows, Fade, Apart, Moving(p)', Forgetting(p)'
  PROVE  Attributed'
<1>1. ASSUME NEW q \in Procs \ {p} PROVE Moving(q)' /\ Forgetting(q)'
  <2>1. run'[q] = run[q] /\ disk' = disk
    BY DEF Step, Unmoved, world
  <2>. QED
    BY <2>1, MovingStays, ForgettingStays DEF SameRun
<1>2. FilesOwned' /\ RowsOwned'
  BY FilesOwnedStay, RowsOwnedStay DEF Step
<1>. QED
  BY <1>1, <1>2 DEF Attributed

LEMMA ForgettingOwn ==
  ASSUME Attributed, Fade, NEW p \in Procs, run[p].pc # "idle", Step(p), UNCHANGED world,
         run'[p].pc # "forget",
         \A n \in DOMAIN run'[p].doomed :
           n \in DOMAIN run[p].doomed /\ run'[p].doomed[n] = run[p].doomed[n]
  PROVE  Forgetting(p)'
<1>. DEFINE r == run[p]
<1>1. Forgetting(p) /\ disk' = disk /\ run'[p].gone = r.gone
  BY DEF Attributed, world, Step, Own
<1>2. \A d \in Peers : disk'[d] = Missing => d \in run'[p].gone
  BY <1>1 DEF Forgetting
<1>3. ASSUME NEW n \in DOMAIN run'[p].doomed
      PROVE  IF n \in Peers THEN run'[p].doomed[n] = n ELSE Held(n, run[p].doomed[n])'
  <2>1. n \in DOMAIN r.doomed /\ run'[p].doomed[n] = r.doomed[n] /\ n \in Names
    BY FoundIs DEF Attributed, Structure
  <2>2. ASSUME n \notin Peers PROVE Held(n, r.doomed[n])'
    <3>1. n \in OldNames /\ Held(n, r.doomed[n])
      BY <1>1, <2>1, <2>2 DEF Names, Forgetting
    <3>. QED
      BY <3>1, HeldStays
  <2>3. n \in Peers => r.doomed[n] = n
    BY <1>1, <2>1 DEF Forgetting
  <2>. QED
    BY <2>1, <2>2, <2>3
<1>. QED
  BY <1>2, <1>3 DEF Forgetting

\* A step that touches neither the rows nor the links.
LEMMA QuietStep ==
  ASSUME Attributed, Structure', NEW p \in Procs, run[p].pc # "idle", Step(p), UNCHANGED world,
         OwnFound(p), UNCHANGED <<links, rows>>, run'[p].pc # "forget", Moving(p)',
         \A n \in DOMAIN run'[p].doomed :
           n \in DOMAIN run[p].doomed /\ run'[p].doomed[n] = run[p].doomed[n]
  PROVE  Attributed'
<1>1. Fade /\ Apart /\ OwnLinks /\ OwnRows
  BY SameFade, SameOwn DEF Attributed, Structure
<1>. QED
  BY <1>1, AttributedStep, ForgettingOwn

LEMMA SameOwnFound ==
  ASSUME NEW p \in Procs, UNCHANGED run[p].found
  PROVE  OwnFound(p)
  BY DEF OwnFound

LEMMA PickAttributed ==
  ASSUME Attributed, NEW p \in Procs, Pick(p)
  PROVE  Attributed'
<1>. DEFINE d == run'[p].peer
<1>1. /\ At(p, "pick") /\ Step(p) /\ UNCHANGED <<world, store, spent>>
      /\ UNCHANGED <<run[p].found, run[p].doomed>> /\ d \in run[p].left
      /\ run'[p].old = {n \in DOMAIN links : n # d /\ links[n] = d}
      /\ run'[p].pc \in {"link", "strip"}
  BY PickDoes DEF Attributed, Structure
<1>2. Moving(p)'
  <2>1. \A n \in run'[p].old : n \in OldNames /\ Held(n, run[p].peer)'
    <3>. SUFFICES ASSUME NEW n \in run'[p].old PROVE n \in OldNames /\ Held(n, run[p].peer)'
      OBVIOUS
    <3>1. n \in DOMAIN links /\ n # d /\ links[n] = d /\ n \in Names
      BY <1>1, LinksAre DEF Attributed, Structure
    <3>2. n \in OldNames
      BY <3>1 DEF Names, Attributed, RowsOwned
    <3>3. UNCHANGED <<links, rows>>
      BY <1>1 DEF store
    <3>. QED
      BY <3>1, <3>2, <3>3 DEF Held
  <2>. QED
    BY <1>1, <2>1 DEF Moving, Migrating
<1>. QED
  BY <1>1, <1>2, PickStructure, QuietStep, SameOwnFound DEF Attributed, At, store

LEMMA StripAttributed ==
  ASSUME Attributed, NEW p \in Procs, Strip(p)
  PROVE  Attributed'
<1>1. run[p].pc = "strip" /\ Goes(p, "dedupe") /\ UNCHANGED <<world, links, rows>>
  BY DEF Strip, At
<1>2. /\ Step(p) /\ run'[p].pc = "dedupe"
      /\ UNCHANGED <<run[p].found, run[p].peer, run[p].old, run[p].doomed>>
  BY <1>1, GoesDoes DEF Upserting, Migrating, Attributed, Structure
<1>3. Moving(p)'
  BY <1>1, <1>2 DEF Attributed, Moving, Migrating, Held
<1>. QED
  BY <1>1, <1>2, <1>3, StripStructure, QuietStep, SameOwnFound DEF Attributed

\* What a migration knows of its old name, when the step has not changed it.
LEMMA MigratingKnows ==
  ASSUME Attributed, NEW p \in Procs, run[p].pc \in Migrating
  PROVE  \E n \in OldNames :
           /\ run[p].old = {n} /\ Held(n, run[p].peer) /\ n # run[p].peer /\ n \notin Peers
           /\ run[p].peer \in Peers /\ n \in Names /\ run[p].peer \in Names
<1>1. PICK n \in Names \ {run[p].peer} : run[p].old = {n}
  BY OldName DEF Attributed
<1>2. run[p].old \subseteq OldNames /\ Held(n, run[p].peer)
  BY <1>1 DEF Attributed, Moving
<1>. QED
  BY <1>1, <1>2, OldName, NamesAssumption DEF Attributed, Names

LEMMA DedupeAttributed ==
  ASSUME Attributed, NEW p \in Procs, Dedupe(p)
  PROVE  Attributed'
<1>1. /\ run[p].pc = "dedupe" /\ Goes(p, "rename") /\ UNCHANGED <<world, links, deps, spent>>
      /\ \E n \in run[p].old :
              DOMAIN rows' = {x \in DOMAIN rows :
                                ~(x[1] = n /\ <<run[p].peer, x[2]>> \in DOMAIN rows)}
  BY DedupedIs DEF Attributed
<1>2. /\ Step(p) /\ run'[p].pc = "rename"
      /\ UNCHANGED <<run[p].found, run[p].peer, run[p].old, run[p].doomed>>
  BY <1>1, GoesDoes DEF Upserting, Migrating, Attributed, Structure
<1>3. DOMAIN rows' \subseteq DOMAIN rows
  BY <1>1
<1>4. Fade /\ Apart /\ OwnLinks /\ OwnRows
  BY <1>1, <1>3, SameFade, SameOwn DEF Attributed, Structure
<1>5. Moving(p)'
  <2>1. PICK n \in OldNames : run[p].old = {n} /\ Held(n, run[p].peer) /\ n # run[p].peer
    BY <1>1, MigratingKnows DEF Migrating
  <2>2. Held(n, run[p].peer)'
    BY <1>4, <1>2, <2>1, HeldStays
  <2>3. \A t \in Txs : ~(<<n, t>> \in DOMAIN rows' /\ <<run[p].peer, t>> \in DOMAIN rows')
    BY <1>1, <2>1
  <2>. QED
    BY <1>2, <2>1, <2>2, <2>3 DEF Moving, Migrating
<1>6. Forgetting(p)'
  BY <1>1, <1>2, <1>4, ForgettingOwn
<1>. QED
  BY <1>1, <1>2, <1>4, <1>5, <1>6, DedupeStructure, AttributedStep, SameOwnFound DEF Attributed

\* A rename leaves no entry under the old name, and each it had under the new one.
LEMMA RenamedRows ==
  ASSUME Structure, NEW p \in Procs, Rename(p)
  PROVE  \E n \in Names \ {run[p].peer} :
           /\ run[p].old = {n}
           /\ DOMAIN rows' = {x \in DOMAIN rows : x[1] # n}
                               \cup {<<run[p].peer, y[2]>> : y \in OfName(rows, n)}
           /\ \A x \in DOMAIN rows' :
              IF x[1] # run[p].peer THEN x \in DOMAIN rows /\ rows'[x] = rows[x]
              ELSE IF <<n, x[2]>> \notin DOMAIN rows
                THEN x \in DOMAIN rows /\ rows'[x] = rows[x]
              ELSE x \notin DOMAIN rows => rows'[x] = rows[<<n, x[2]>>]
<1>. DEFINE d == run[p].peer
<1>1. PICK n \in Names \ {d} : run[p].old = {n} /\ rows' = Renamed(n, d)
  BY RenameIs
<1>2. d \in Names /\ BagOf(Names \X Txs, rows) /\ n # d
  BY <1>1, RenameIs DEF Structure, Types, StoreTypes
<1>. HIDE DEF d
<1>3. /\ DOMAIN Renamed(n, d) =
              {x \in DOMAIN rows : x[1] # n} \cup {<<d, y[2]>> : y \in OfName(rows, n)}
      /\ \A x \in DOMAIN Renamed(n, d) :
              IF x[1] # d THEN x \in DOMAIN rows /\ Renamed(n, d)[x] = rows[x]
              ELSE IF <<n, x[2]>> \notin DOMAIN rows
                THEN x \in DOMAIN rows /\ Renamed(n, d)[x] = rows[x]
              ELSE x \notin DOMAIN rows => Renamed(n, d)[x] = rows[<<n, x[2]>>]
  BY <1>2, RenamedIs
<1>4. /\ DOMAIN rows' =
              {x \in DOMAIN rows : x[1] # n} \cup {<<d, y[2]>> : y \in OfName(rows, n)}
      /\ \A x \in DOMAIN rows' :
              IF x[1] # d THEN x \in DOMAIN rows /\ rows'[x] = rows[x]
              ELSE IF <<n, x[2]>> \notin DOMAIN rows
                THEN x \in DOMAIN rows /\ rows'[x] = rows[x]
              ELSE x \notin DOMAIN rows => rows'[x] = rows[<<n, x[2]>>]
  BY <1>1, <1>3
<1>. QED
  BY <1>1, <1>4 DEF d

LEMMA RenameAttributed ==
  ASSUME Attributed, NEW p \in Procs, Rename(p)
  PROVE  Attributed'
<1>. DEFINE d == run[p].peer
<1>1. run[p].pc = "rename" /\ Goes(p, "unlink") /\ UNCHANGED <<world, links, deps, spent>>
  BY RenameIs DEF Attributed
<1>2. /\ Step(p) /\ run'[p].pc = "unlink"
      /\ UNCHANGED <<run[p].found, run[p].peer, run[p].old, run[p].doomed>>
  BY <1>1, GoesDoes DEF Upserting, Migrating, Attributed, Structure
<1>3. PICK n \in OldNames : /\ run[p].old = {n} /\ Held(n, d) /\ n # d /\ n \notin Peers
                            /\ d \in Peers
  BY <1>1, MigratingKnows DEF Migrating
<1>4. DOMAIN rows' = {x \in DOMAIN rows : x[1] # n} \cup {<<d, y[2]>> : y \in OfName(rows, n)}
  BY <1>3, RenamedRows DEF Attributed
<1>5. OfName(rows', n) = {}
  BY <1>3, <1>4 DEF OfName
<1>6. \A x \in DOMAIN rows' : x \notin DOMAIN rows => x[1] = d /\ <<n, x[2]>> \in DOMAIN rows
  <2>. SUFFICES ASSUME NEW x \in DOMAIN rows', x \notin DOMAIN rows
                PROVE  x[1] = d /\ <<n, x[2]>> \in DOMAIN rows
    OBVIOUS
  <2>1. PICK y \in OfName(rows, n) : x = <<d, y[2]>>
    BY <1>4
  <2>2. y = <<n, y[2]>> /\ y \in DOMAIN rows
    BY <2>1, PairIs DEF OfName, Attributed, Structure, Types, StoreTypes, BagOf
  <2>. QED
    BY <2>1, <2>2
<1>7. Fade
  <2>1. \A x \in DOMAIN rows' : x[1] \in OldNames => x \in DOMAIN rows
    BY <1>3, <1>6, NamesAssumption
  <2>. QED
    BY <1>1, <2>1 DEF Fade
<1>8. Apart
  <2>. SUFFICES ASSUME NEW m \in OldNames, NEW e \in Peers, NEW t \in Txs, Held(m, e),
                       <<m, t>> \in DOMAIN rows', <<e, t>> \in DOMAIN rows',
                       <<e, t>> \notin DOMAIN rows
                PROVE  FALSE
    BY DEF Apart
  <2>1. e = d
    BY <1>6
  <2>2. <<m, t>> \in DOMAIN rows
    BY <1>7 DEF Fade
  <2>3. m \in DOMAIN links /\ links[m] = d
    BY <2>1, <2>2 DEF Held, OfName
  <2>4. m = d \/ m \in run[p].old
    BY <1>1, <2>3 DEF Attributed, Structure, Named, Migrating
  <2>5. m = n
    BY <1>3, <2>4, NamesAssumption
  <2>. QED
    BY <1>5, <2>5 DEF OfName
<1>9. OwnLinks /\ OwnRows
  <2>1. ASSUME NEW x \in DOMAIN rows', x \notin DOMAIN rows
        PROVE  x[1] \in Peers /\ Owner[x[2]] = x[1]
    <3>1. x[1] = d /\ <<n, x[2]>> \in DOMAIN rows
      BY <1>6, <2>1
    <3>2. n \in DOMAIN links /\ links[n] = d
      BY <1>3, <3>1 DEF Held, OfName
    <3>3. Owner[x[2]] = d
      <4>. DEFINE z == <<n, x[2]>>
      <4>1. z \in DOMAIN rows /\ z[1] = n /\ z[2] = x[2]
        BY <3>1
      <4>. HIDE DEF z
      <4>. QED
        BY <3>2, <4>1 DEF Attributed, RowsOwned
    <3>. QED
      BY <1>3, <3>1, <3>3
  <2>. QED
    BY <1>1, <2>1 DEF OwnLinks, OwnRows
<1>10. Moving(p)'
  BY <1>2, <1>3, <1>5, <1>7, HeldStays DEF Moving, Migrating
<1>11. Forgetting(p)'
  BY <1>1, <1>2, <1>7, ForgettingOwn
<1>. QED
  BY <1>1, <1>2, <1>7, <1>8, <1>9, <1>10, <1>11, RenameStructure, AttributedStep, SameOwnFound
     DEF Attributed

LEMMA UnlinkAttributed ==
  ASSUME Attributed, NEW p \in Procs, Unlink(p)
  PROVE  Attributed'
<1>1. /\ run[p].pc = "unlink" /\ run'[p].pc = "link" /\ Step(p)
      /\ UNCHANGED <<run[p].found, run[p].doomed>>
      /\ DOMAIN links' = DOMAIN links \ run[p].old
      /\ \A n \in DOMAIN links' : links'[n] = links[n]
      /\ UNCHANGED <<world, deps, rows, spent>>
  BY UnlinkDoes DEF At, Attributed
<1>2. Fade
  <2>1. \A n \in run[p].old : OfName(rows, n) = {}
    BY <1>1 DEF Attributed, Moving
  <2>. QED
    BY <1>1, <2>1 DEF Fade
<1>3. Apart /\ OwnLinks /\ OwnRows
  BY <1>1 DEF Apart, OwnLinks, OwnRows
<1>4. Moving(p)'
  BY <1>1 DEF Moving, Migrating
<1>5. Forgetting(p)'
  BY <1>1, <1>2, ForgettingOwn
<1>. QED
  BY <1>1, <1>2, <1>3, <1>4, <1>5, UnlinkStructure, AttributedStep, SameOwnFound DEF Attributed

LEMMA LinkAttributed ==
  ASSUME Attributed, NEW p \in Procs, Link(p)
  PROVE  Attributed'
<1>1. /\ run[p].pc = "link" /\ Goes(p, "clear") /\ UNCHANGED <<world, deps, rows, spent>>
      /\ run[p].peer \in Peers
      /\ DOMAIN links' = DOMAIN links \cup {run[p].peer}
      /\ \A n \in DOMAIN links' : links'[n] = IF n = run[p].peer THEN n ELSE links[n]
  BY LinkDoes DEF Attributed
<1>2. /\ Step(p) /\ run'[p].pc = "clear" /\ UNCHANGED <<run[p].found, run[p].doomed>>
  BY <1>1, GoesDoes DEF Upserting, Storing, Attributed, Structure
<1>3. Fade
  BY <1>1, NamesAssumption DEF Fade
<1>4. Apart /\ OwnLinks /\ OwnRows
  BY <1>1 DEF Apart, OwnLinks, OwnRows
<1>5. Moving(p)'
  BY <1>2 DEF Moving, Migrating
<1>6. Forgetting(p)'
  BY <1>1, <1>2, <1>3, ForgettingOwn
<1>. QED
  BY <1>1, <1>2, <1>3, <1>4, <1>5, <1>6, LinkStructure, AttributedStep, SameOwnFound DEF Attributed

LEMMA ClearAttributed ==
  ASSUME Attributed, NEW p \in Procs, Clear(p)
  PROVE  Attributed'
<1>1. /\ run[p].pc = "clear" /\ UNCHANGED <<world, links, rows, spent>>
      /\ Step(p) /\ UNCHANGED run[p].doomed /\ run'[p].pc \in {"save", "import", "pick"}
      /\ DOMAIN run'[p].found = DOMAIN run[p].found
      /\ \A d \in DOMAIN run[p].found : run'[p].found[d].entries = run[p].found[d].entries
  BY ClearDoes DEF AfterSave, Attributed
<1>2. Moving(p)' /\ OwnFound(p)
  BY <1>1 DEF Moving, Migrating, OwnFound
<1>. QED
  BY <1>1, <1>2, ClearStructure, QuietStep DEF Attributed

LEMMA SaveAttributed ==
  ASSUME Attributed, NEW p \in Procs, Save(p)
  PROVE  Attributed'
<1>1. /\ run[p].pc = "save" /\ UNCHANGED <<world, links, rows, spent>> /\ Step(p)
      /\ UNCHANGED <<run[p].found, run[p].doomed>> /\ run'[p].pc \in {"save", "import", "pick"}
  BY SaveDoes DEF AfterSave, Attributed, Structure, At
<1>2. Moving(p)'
  BY <1>1 DEF Moving, Migrating
<1>. QED
  BY <1>1, <1>2, SaveStructure, QuietStep, SameOwnFound DEF Attributed

LEMMA ImportAttributed ==
  ASSUME Attributed, NEW p \in Procs, Import(p)
  PROVE  Attributed'
<1>. DEFINE d == run[p].peer
<1>1. /\ run[p].pc = "import" /\ Goes(p, "pick") /\ UNCHANGED <<world, links, deps, spent>>
      /\ d \in DOMAIN run[p].found /\ d \in Peers
      /\ DOMAIN rows' = DOMAIN rows \cup {<<d, t>> : t \in run[p].found[d].entries}
  BY ImportDoes DEF Attributed
<1>2. /\ Step(p) /\ run'[p].pc = "pick" /\ UNCHANGED <<run[p].found, run[p].doomed>>
  BY <1>1, GoesDoes DEF Attributed, Structure
<1>3. \A t \in run[p].found[d].entries : Owner[t] = d
  <2>1. run[p].found[d] \in Schema
    BY <1>1, FoundIs DEF Attributed, Structure
  <2>. QED
    BY <1>1, <2>1 DEF Attributed, FilesOwned, OfOwner
<1>4. OwnLinks /\ OwnRows
  BY <1>1, <1>3 DEF OwnLinks, OwnRows
<1>5. Fade
  BY <1>1, NamesAssumption DEF Fade
<1>6. Apart
  <2>. SUFFICES ASSUME NEW m \in OldNames, NEW e \in Peers, NEW t \in Txs, Held(m, e),
                       <<m, t>> \in DOMAIN rows', <<e, t>> \in DOMAIN rows',
                       <<e, t>> \notin DOMAIN rows
                PROVE  FALSE
    BY DEF Apart
  <2>1. e = d
    BY <1>1
  <2>2. <<m, t>> \in DOMAIN rows
    BY <1>5 DEF Fade
  <2>3. m \in DOMAIN links /\ links[m] = d
    BY <2>1, <2>2 DEF Held, OfName
  <2>4. m = d
    BY <1>1, <2>3 DEF Attributed, Structure, Named, Storing
  <2>. QED
    BY <1>1, <2>4, NamesAssumption
<1>7. Moving(p)'
  BY <1>2 DEF Moving, Migrating
<1>8. Forgetting(p)'
  BY <1>1, <1>2, <1>5, ForgettingOwn
<1>. QED
  BY <1>1, <1>2, <1>4, <1>5, <1>6, <1>7, <1>8, ImportStructure, AttributedStep, SameOwnFound
     DEF Attributed

LEMMA OutOfTimeAttributed ==
  ASSUME Attributed, NEW p \in Procs, OutOfTime(p)
  PROVE  Attributed'
<1>1. /\ At(p, "pick") /\ Step(p) /\ run'[p].pc = "pick" /\ UNCHANGED <<world, store, spent>>
      /\ UNCHANGED run[p].doomed /\ DOMAIN run'[p].found = DOMAIN run[p].found \ run[p].left
      /\ \A d \in DOMAIN run'[p].found : run'[p].found[d] = run[p].found[d]
  BY OutOfTimeDoes DEF Attributed, Structure
<1>2. Moving(p)' /\ OwnFound(p)
  BY <1>1 DEF Moving, Migrating, OwnFound
<1>. QED
  BY <1>1, <1>2, OutOfTimeStructure, QuietStep DEF Attributed, At, store

LEMMA ReadLinksAttributed ==
  ASSUME Attributed, NEW p \in Procs, ReadLinks(p)
  PROVE  Attributed'
<1>1. /\ At(p, "pick") /\ Step(p) /\ UNCHANGED <<world, store, spent>>
      /\ run'[p].doomed = links /\ run'[p].pc \in {"done", "check", "prune"}
      /\ UNCHANGED run[p].found
  BY ReadLinksDoes DEF Attributed, Structure, AfterPrune
<1>2. UNCHANGED <<disk, links, rows>>
  BY <1>1 DEF world, store
<1>3. Moving(p)'
  BY <1>1 DEF Moving, Migrating
<1>4. Forgetting(p)'
  <2>1. Forgetting(p) /\ run'[p].gone = run[p].gone
    BY <1>1 DEF Attributed, Step, Own
  <2>2. \A n \in DOMAIN links : IF n \in Peers THEN links[n] = n ELSE Held(n, links[n])'
    <3>. SUFFICES ASSUME NEW n \in DOMAIN links
                  PROVE  IF n \in Peers THEN links[n] = n ELSE Held(n, links[n])'
      OBVIOUS
    <3>1. n \in Peers => links[n] = n
      BY DEF Attributed, RowsOwned
    <3>2. Held(n, links[n])'
      BY <1>2 DEF Held
    <3>. QED
      BY <3>1, <3>2
  <2>. QED
    BY <1>1, <1>2, <2>1, <2>2 DEF Forgetting, At
<1>5. Fade /\ Apart /\ OwnLinks /\ OwnRows
  BY <1>2, SameFade, SameOwn DEF Attributed, Structure
<1>. QED
  BY <1>1, <1>3, <1>4, <1>5, ReadLinksStructure, AttributedStep, SameOwnFound DEF Attributed

LEMMA KeepAttributed ==
  ASSUME Attributed, NEW p \in Procs, Keep(p)
  PROVE  Attributed'
<1>1. /\ run[p].pc = "prune" /\ Step(p) /\ UNCHANGED <<world, store, spent>>
      /\ DOMAIN run'[p].doomed \subseteq DOMAIN run[p].doomed
      /\ \A m \in DOMAIN run'[p].doomed : run'[p].doomed[m] = run[p].doomed[m]
      /\ run'[p].pc \in {"done", "check", "prune"} /\ UNCHANGED run[p].found
  BY KeepDoes DEF Attributed, Structure, AfterPrune
<1>2. Moving(p)'
  BY <1>1 DEF Moving, Migrating
<1>. QED
  BY <1>1, <1>2, KeepStructure, QuietStep, SameOwnFound DEF Attributed, store

LEMMA ForgetDepsAttributed ==
  ASSUME Attributed, NEW p \in Procs, ForgetDeps(p)
  PROVE  Attributed'
<1>1. /\ run[p].pc = "prune" /\ Step(p) /\ UNCHANGED <<world, links, rows, spent>>
      /\ \A m \in DOMAIN run'[p].doomed : run'[p].doomed[m] = run[p].doomed[m]
      /\ run'[p].pc = "forget" /\ UNCHANGED run[p].found
  BY ForgetDepsDoes DEF Attributed, Structure
<1>2. PICK n \in DOMAIN run[p].doomed :
              /\ Dead(run[p].doomed[n]) /\ n \in Names
              /\ DOMAIN run'[p].doomed = DOMAIN run[p].doomed \ {n} /\ run'[p].old = {n}
  BY ForgetDepsDoes DEF Attributed, Structure
<1>. DEFINE path == run[p].doomed[n]
<1>3. Moving(p)'
  BY <1>1 DEF Moving, Migrating
<1>4. /\ Forgetting(p) /\ run'[p].gone = run[p].gone /\ disk' = disk
  BY <1>1 DEF Attributed, Step, Own, world
<1>5. IF n \in Peers THEN n \in run[p].gone
      ELSE \A x \in OfName(rows, n) : Owner[x[2]] \in run[p].gone
  <2>1. path \in Peers => path \in run[p].gone
    BY <1>1, <1>2, <1>4 DEF Forgetting, Dead
  <2>2. ASSUME n \in Peers PROVE n \in run[p].gone
    BY <1>4, <2>1, <2>2 DEF Forgetting
  <2>3. ASSUME n \notin Peers, NEW x \in OfName(rows, n) PROVE Owner[x[2]] \in run[p].gone
    <3>1. n \in DOMAIN links /\ links[n] = path
      BY <1>4, <2>3 DEF Forgetting, Held
    <3>2. x \in DOMAIN rows /\ x[1] = n /\ x[2] \in Txs
      BY <2>3, PairIs DEF OfName, Attributed, Structure, Types, StoreTypes, BagOf
    <3>3. Owner[x[2]] = path
      BY <3>1, <3>2 DEF Attributed, RowsOwned
    <3>4. Owner[x[2]] \in Peers
      BY <3>2, OwnerAssumption
    <3>. QED
      BY <2>1, <3>3, <3>4
  <2>. QED
    BY <2>2, <2>3
<1>6. \A m \in DOMAIN run'[p].doomed :
        IF m \in Peers THEN run'[p].doomed[m] = m ELSE Held(m, run[p].doomed[m])'
  <2>. SUFFICES ASSUME NEW m \in DOMAIN run'[p].doomed
                PROVE  IF m \in Peers THEN run'[p].doomed[m] = m ELSE Held(m, run[p].doomed[m])'
    OBVIOUS
  <2>1. m \in DOMAIN run[p].doomed /\ run'[p].doomed[m] = run[p].doomed[m]
    BY <1>1, <1>2
  <2>2. UNCHANGED <<links, rows>>
    BY <1>1
  <2>. QED
    BY <1>4, <2>1, <2>2 DEF Forgetting, Held
<1>7. Forgetting(p)'
  <2>1. OfName(rows', n) = OfName(rows, n)
    BY <1>1
  <2>2. \A e \in Peers : disk'[e] = Missing => e \in run'[p].gone
    BY <1>1, <1>4 DEF Forgetting
  <2>. QED
    BY <1>1, <1>2, <1>4, <1>5, <1>6, <2>1, <2>2 DEF Forgetting
<1>8. Fade /\ Apart /\ OwnLinks /\ OwnRows
  BY <1>1, SameFade, SameOwn DEF Attributed, Structure
<1>. QED
  BY <1>1, <1>3, <1>7, <1>8, ForgetDepsStructure, AttributedStep, SameOwnFound DEF Attributed

LEMMA ForgetRowsAttributed ==
  ASSUME Attributed, NEW p \in Procs, ForgetRows(p)
  PROVE  Attributed'
<1>1. run[p].pc = "forget" /\ Goes(p, "drop") /\ UNCHANGED <<world, links, deps, spent>>
  BY ForgetRowsDoes DEF Attributed
<1>2. PICK n \in Names : run[p].old = {n} /\ rows' = Without(rows, n)
  BY ForgetRowsDoes DEF Attributed
<1>3. /\ Step(p) /\ run'[p].pc = "drop"
      /\ UNCHANGED <<run[p].found, run[p].old, run[p].doomed>>
  BY <1>1, GoesDoes DEF Pruning, Attributed, Structure
<1>4. DOMAIN rows' = {x \in DOMAIN rows : x[1] # n}
  <2>1. DOMAIN Without(rows, n) = {x \in DOMAIN rows : x[1] # n}
    BY WithoutIs
  <2>. QED
    BY <1>2, <2>1
<1>5. Fade /\ Apart /\ OwnLinks /\ OwnRows
  BY <1>1, <1>4, SameFade, SameOwn DEF Attributed, Structure
<1>6. Moving(p)'
  <2>1. OfName(rows', n) = {}
    BY <1>4 DEF OfName
  <2>. QED
    BY <1>2, <1>3, <2>1 DEF Moving, Migrating
<1>7. Forgetting(p)'
  BY <1>1, <1>3, <1>5, ForgettingOwn
<1>. QED
  BY <1>1, <1>3, <1>5, <1>6, <1>7, ForgetRowsStructure, AttributedStep, SameOwnFound DEF Attributed

LEMMA DropAttributed ==
  ASSUME Attributed, NEW p \in Procs, Drop(p)
  PROVE  Attributed'
<1>1. /\ run[p].pc = "drop" /\ UNCHANGED <<world, deps, rows, spent>> /\ Step(p)
      /\ run'[p].pc \in {"done", "check", "prune"} /\ UNCHANGED <<run[p].found, run[p].doomed>>
      /\ DOMAIN links' = DOMAIN links \ run[p].old
      /\ \A n \in DOMAIN links' : links'[n] = links[n]
  BY DropDoes DEF AfterPrune, Attributed
<1>2. Fade
  <2>1. \A n \in run[p].old \cap OldNames : OfName(rows, n) = {}
    BY <1>1 DEF Attributed, Moving
  <2>. QED
    BY <1>1, <2>1 DEF Fade
<1>3. Apart /\ OwnLinks /\ OwnRows
  BY <1>1 DEF Apart, OwnLinks, OwnRows
<1>4. Moving(p)'
  BY <1>1 DEF Moving, Migrating
<1>5. Forgetting(p)'
  BY <1>1, <1>2, ForgettingOwn
<1>. QED
  BY <1>1, <1>2, <1>3, <1>4, <1>5, DropStructure, AttributedStep, SameOwnFound DEF Attributed

LEMMA CheckAttributed ==
  ASSUME Attributed, NEW p \in Procs, Check(p)
  PROVE  Attributed'
<1>1. /\ run[p].pc = "check" /\ run'[p].pc = "done" /\ Step(p) /\ UNCHANGED <<world, store, spent>>
      /\ UNCHANGED <<run[p].found, run[p].doomed>>
  BY CheckDoes DEF At, Attributed, Structure
<1>2. Moving(p)'
  BY <1>1 DEF Moving, Migrating
<1>. QED
  BY <1>1, <1>2, CheckStructure, QuietStep, SameOwnFound DEF Attributed, store

\* A step of a run that leaves the store, and the siblings' own data, as they are.
LEMMA StillAttributed ==
  ASSUME Attributed, Structure', UNCHANGED store, FilesOwned',
         \A q \in Procs : Moving(q)' /\ Forgetting(q)'
  PROVE  Attributed'
<1>1. OwnLinks /\ OwnRows
  BY DEF store, OwnLinks, OwnRows
<1>. QED
  BY <1>1, RowsOwnedStay DEF Attributed

LEMMA StoreFade ==
  ASSUME UNCHANGED store
  PROVE  Fade /\ Apart
  BY DEF store, Fade, Apart

LEMMA EndAttributed ==
  ASSUME Attributed, NEW p \in Procs, End(p) \/ Fails(p) \/ Dies(p)
  PROVE  Attributed'
<1>1. /\ p \in Running /\ UNCHANGED <<world, store>> /\ Unmoved(p)
      /\ \/ run'[p] = Idle
         \/ /\ run'[p].pc = "check" /\ run'[p].gone = run[p].gone
            /\ run'[p].doomed = run[p].doomed /\ run'[p].found = run[p].found
  BY EndDoes DEF Attributed, Structure
<1>2. disk' = disk /\ Fade /\ Apart
  BY <1>1, StoreFade DEF world
<1>3. Structure'
  BY EndStructure DEF Attributed
<1>4. ASSUME NEW q \in Procs \ {p} PROVE Moving(q)' /\ Forgetting(q)'
  BY <1>1, <1>2, MovingStays, ForgettingStays DEF SameRun, Unmoved
<1>5. Moving(p)' /\ Forgetting(p)' /\ OwnFound(p)
  <2>1. CASE run'[p] = Idle
    <3>1. run'[p].pc = "idle" /\ DOMAIN run'[p].doomed = {} /\ DOMAIN run'[p].found = {}
      BY <2>1, IdleIs, EmptyPartial
    <3>. QED
      BY <3>1 DEF Moving, Forgetting, OwnFound, Migrating
  <2>2. CASE /\ run'[p].pc = "check" /\ run'[p].gone = run[p].gone
             /\ run'[p].doomed = run[p].doomed /\ run'[p].found = run[p].found
    <3>1. Moving(p)' /\ OwnFound(p)
      BY <2>2 DEF Moving, Migrating, OwnFound
    <3>2. Forgetting(p) /\ run[p].pc # "idle" /\ UNCHANGED <<disk, links, rows>>
      BY <1>1 DEF Attributed, Running, world, store
    <3>3. Forgetting(p)'
      BY <2>2, <3>2 DEF Forgetting, Held
    <3>. QED
      BY <3>1, <3>3
  <2>. QED
    BY <1>1, <2>1, <2>2
<1>6. FilesOwned'
  BY <1>1, <1>3, <1>5, FilesOwnedStay
<1>. QED
  BY <1>1, <1>3, <1>4, <1>5, <1>6, StillAttributed

LEMMA BeginAttributed ==
  ASSUME Attributed, NEW p \in Procs, Begin(p)
  PROVE  Attributed'
<1>1. /\ UNCHANGED <<world, store>>
      /\ run'[p].pc = "look" /\ run'[p].found = <<>> /\ run'[p].doomed = <<>>
      /\ run'[p].gone = {d \in Peers : disk[d] = Missing}
      /\ \A q \in Procs \ {p} :
              UNCHANGED <<run[q].pc, run[q].gone, run[q].found, run[q].peer, run[q].old,
                          run[q].doomed>>
  BY BeginDoes DEF Attributed, Structure
<1>2. UNCHANGED <<disk, exporting, recent>> /\ Fade /\ Apart
  BY <1>1, StoreFade DEF world
<1>3. Structure'
  BY BeginStructure DEF Attributed
<1>4. ASSUME NEW q \in Procs \ {p} PROVE Moving(q)' /\ Forgetting(q)'
  BY <1>1, <1>2, MovingStays, ForgettingStays DEF SameRun
<1>5. Moving(p)' /\ Forgetting(p)'
  BY <1>1, <1>2, EmptyPartial DEF Moving, Forgetting, Migrating
<1>6. FilesOwned'
  <2>1. \A q \in Procs : \A d \in DOMAIN run'[q].found : OfOwner(d, run'[q].found[d])
    BY <1>1, EmptyPartial DEF Attributed, FilesOwned
  <2>. QED
    BY <1>2, <2>1 DEF Attributed, FilesOwned
<1>. QED
  BY <1>1, <1>3, <1>4, <1>5, <1>6, StillAttributed

LEMMA CurrentOwned ==
  ASSUME Attributed, NEW d \in Peers
  PROVE  OfOwner(d, Current(d))
  BY DEF Attributed, FilesOwned, OfOwner, Current

LEMMA LookAttributed ==
  ASSUME Attributed, NEW p \in Procs, Look(p) \/ SyncAndLook(p)
  PROVE  Attributed'
<1>1. PICK d \in Peers : /\ At(p, "look") /\ Looked(p, d) /\ WorldTypes'
                         /\ UNCHANGED <<exporting, recent, api, store, spent>>
                         /\ \A e \in Peers \ {d} : disk'[e] = disk[e]
                         /\ disk'[d] = disk[d] \/ disk'[d] \in {Current(d), Torn}
  BY LookWorld DEF Attributed, Structure
<1>2. /\ Step(p) /\ run'[p].pc \in {"look", "pick"} /\ UNCHANGED <<run[p].old, run[p].doomed>>
      /\ \/ run'[p].found = run[p].found
         \/ disk'[d] \in Schema /\ run'[p].found = Put(run[p].found, d, disk'[d])
  BY <1>1, LookedDoes DEF Attributed, Structure
<1>3. Structure'
  BY LookStructure DEF Attributed
<1>4. \A e \in Peers : disk'[e] = Missing => disk[e] = Missing
  <2>1. Current(d) \in Schema
    BY DEF Current, Schema, Attributed, Structure, Types, WorldTypes
  <2>. QED
    BY <1>1, <2>1, AbsentAssumption
<1>5. Fade /\ Apart /\ UNCHANGED <<links, rows>>
  BY <1>1, StoreFade DEF store
<1>6. ASSUME NEW q \in Procs \ {p} PROVE Moving(q)' /\ Forgetting(q)'
  BY <1>2, <1>4, <1>5, MovingStays, ForgettingStays DEF SameRun, Step, Unmoved
<1>7. Moving(p)'
  BY <1>2 DEF Moving, Migrating
<1>8. Forgetting(p)'
  <2>1. Forgetting(p) /\ run'[p].gone = run[p].gone
    BY <1>2 DEF Attributed, Step, Own
  <2>. QED
    BY <1>1, <1>2, <1>4, <1>5, <2>1 DEF Forgetting, Held, At
<1>9. \A e \in Peers : OfOwner(e, disk'[e])
  <2>1. OfOwner(d, Torn)
    BY AbsentAssumption DEF OfOwner
  <2>. QED
    BY <1>1, CurrentOwned, <2>1 DEF Attributed, FilesOwned
<1>10. FilesOwned'
  <2>1. ASSUME NEW e \in DOMAIN run'[p].found PROVE OfOwner(e, run'[p].found[e])
    BY <1>2, <1>9 DEF Attributed, FilesOwned, Put
  <2>2. \A q \in Procs : \A e \in DOMAIN run'[q].found : OfOwner(e, run'[q].found[e])
    BY <1>2, <2>1 DEF Attributed, FilesOwned, Step, Unmoved
  <2>. QED
    BY <1>1, <1>9, <2>2 DEF Attributed, FilesOwned
<1>. QED
  BY <1>1, <1>3, <1>6, <1>7, <1>8, <1>10, StillAttributed

LEMMA EventsAttributed ==
  ASSUME Attributed, Events
  PROVE  Attributed'
<1>1. /\ UNCHANGED store
      /\ \A p \in Procs :
              /\ UNCHANGED <<run[p].pc, run[p].kind, run[p].found, run[p].left,
                             run[p].peer, run[p].old, run[p].edges, run[p].doomed>>
              /\ run[p].gone \subseteq run'[p].gone
              /\ run[p].pc # "idle" =>
                   \A d \in Peers : disk'[d] = Missing => disk[d] = Missing \/ d \in run'[p].gone
      /\ \A d \in Peers : disk'[d] = disk[d] \/ disk'[d] \in {Missing, Torn, exporting[d]}
      /\ \A d \in Peers : exporting'[d] \in {exporting[d], None, Current(d)}
      /\ \A d \in Peers : \A t \in recent'[d] : t \in recent[d] \/ Owner[t] = d
  BY EventsDo DEF Attributed, Structure
<1>2. Fade /\ Apart /\ UNCHANGED <<links, rows>>
  BY <1>1, StoreFade DEF store
<1>3. ASSUME NEW p \in Procs PROVE Forgetting(p)'
  BY <1>1, <1>2, ForgettingStays
<1>4. ASSUME NEW p \in Procs PROVE Moving(p)'
  BY <1>1, <1>2 DEF Attributed, Moving, Held
<1>5. Structure'
  BY EventsStructure DEF Attributed
<1>6. FilesOwned'
  <2>1. ASSUME NEW d \in Peers
        PROVE  /\ OfOwner(d, disk'[d]) /\ OfOwner(d, exporting'[d])
               /\ \A t \in recent'[d] : Owner[t] = d
    <3>1. OfOwner(d, disk[d]) /\ OfOwner(d, exporting[d]) /\ \A t \in recent[d] : Owner[t] = d
      BY DEF Attributed, FilesOwned
    <3>2. OfOwner(d, Missing) /\ OfOwner(d, None) /\ OfOwner(d, Torn) /\ OfOwner(d, Current(d))
      BY AbsentAssumption, CurrentOwned DEF OfOwner
    <3>. QED
      BY <1>1, <3>1, <3>2
  <2>. QED
    BY <1>1, <2>1 DEF Attributed, FilesOwned
<1>. QED
  BY <1>1, <1>3, <1>4, <1>5, <1>6, StillAttributed

LEMMA AttributedActs ==
  ASSUME Attributed, NEW p \in Procs, Acts(p)
  PROVE  Attributed'
  BY ActsAre, BeginAttributed, LookAttributed, PickAttributed, StripAttributed, DedupeAttributed,
     RenameAttributed, UnlinkAttributed, LinkAttributed, ClearAttributed, SaveAttributed,
     ImportAttributed, OutOfTimeAttributed, ReadLinksAttributed, KeepAttributed,
     ForgetDepsAttributed, ForgetRowsAttributed, DropAttributed, CheckAttributed, EndAttributed

LEMMA AttributedStays ==
  ASSUME Attributed, [Next]_vars
  PROVE  Attributed'
<1>1. CASE UNCHANGED vars
  <2>1. UNCHANGED <<disk, exporting, recent, links, rows, run>>
    BY <1>1 DEF vars, world, store
  <2>2. Structure'
    BY StructureStays DEF Attributed
  <2>. QED
    BY <2>1, <2>2 DEF Attributed, FilesOwned, RowsOwned, Moving, Forgetting, Held
<1>2. CASE Events
  BY <1>2, EventsAttributed
<1>3. ASSUME NEW p \in Procs, Acts(p) PROVE Attributed'
  BY <1>3, AttributedActs
<1>. QED
  BY <1>1, <1>2, <1>3, NextIs

LEMMA AttributedInit ==
  ASSUME OwnNames, Init
  PROVE  Attributed
<1>1. PICK db \in OldDatabases : links = db.links /\ rows = SetToBag(db.rows)
  BY DEF Init
<1>2. RowsOwned
  <2>1. DOMAIN rows = db.rows
    BY <1>1, SetBagIs
  <2>. QED
    BY <1>1, <2>1 DEF OwnNames, RowsOwned
<1>3. FilesOwned
  <2>1. \A d \in Peers : OfOwner(d, disk[d]) /\ OfOwner(d, exporting[d]) /\ recent[d] = {}
    BY AbsentAssumption DEF Init, OfOwner
  <2>2. \A p \in Procs : DOMAIN run[p].found = {}
    BY IdleIs, EmptyPartial DEF Init
  <2>. QED
    BY <2>1, <2>2 DEF FilesOwned
<1>4. ASSUME NEW p \in Procs PROVE Moving(p) /\ Forgetting(p)
  <2>1. run[p].pc = "idle" /\ DOMAIN run[p].doomed = {}
    BY IdleIs, EmptyPartial DEF Init
  <2>. QED
    BY <2>1 DEF Moving, Forgetting, Migrating
<1>. QED
  BY <1>2, <1>3, <1>4, StructureInit DEF Attributed

-----------------------------------------------------------------------------
(* An entry of a sibling: stored once, and until its sibling is missing.   *)

LEMMA FewerRows ==
  ASSUME OneRowPerEntry, \A x \in DOMAIN rows' : x \in DOMAIN rows /\ rows'[x] = rows[x]
  PROVE  OneRowPerEntry'
  BY DEF OneRowPerEntry

LEMMA RenameKeepsOne ==
  ASSUME FInv, NEW p \in Procs, Rename(p)
  PROVE  OneRowPerEntry'
<1>. DEFINE d == run[p].peer
<1>1. PICK n \in Names \ {d} :
        /\ run[p].old = {n}
        /\ \A x \in DOMAIN rows' :
              IF x[1] # d THEN x \in DOMAIN rows /\ rows'[x] = rows[x]
              ELSE IF <<n, x[2]>> \notin DOMAIN rows
                THEN x \in DOMAIN rows /\ rows'[x] = rows[x]
              ELSE x \notin DOMAIN rows => rows'[x] = rows[<<n, x[2]>>]
  BY RenamedRows DEF FInv, Attributed
<1>2. \A t \in Txs : ~(<<n, t>> \in DOMAIN rows /\ <<d, t>> \in DOMAIN rows)
  BY <1>1, RenameIs DEF FInv, Attributed, Moving
<1>3. \A x \in DOMAIN rows' : x[2] \in Txs /\ x = <<x[1], x[2]>>
  BY RenameIs, PairIs DEF FInv, Attributed, BagOf
<1>. SUFFICES ASSUME NEW x \in DOMAIN rows' PROVE rows'[x] = 1
  BY DEF OneRowPerEntry
<1>4. CASE x[1] # d \/ <<n, x[2]>> \notin DOMAIN rows
  BY <1>1, <1>4 DEF FInv, OneRowPerEntry
<1>5. CASE x[1] = d /\ <<n, x[2]>> \in DOMAIN rows
  <2>1. x \notin DOMAIN rows
    BY <1>2, <1>3, <1>5
  <2>2. rows'[x] = rows[<<n, x[2]>>]
    BY <1>1, <1>5, <2>1
  <2>. QED
    BY <1>5, <2>2 DEF FInv, OneRowPerEntry
<1>. QED
  BY <1>4, <1>5

\* What the steps that do not rename rows do to them.
LEMMA RowsOf ==
  ASSUME FInv, NEW p \in Procs, Acts(p)
  PROVE  \/ UNCHANGED rows
         \/ Dedupe(p) \/ Rename(p) \/ Import(p) \/ ForgetRows(p)
<1>1. \/ UNCHANGED <<world, store>> \/ UNCHANGED store \/ UNCHANGED rows
      \/ Dedupe(p) \/ Rename(p) \/ Import(p) \/ ForgetRows(p)
  BY ActsAre DEF Begin, Look, SyncAndLook, Pick, Strip, Unlink, Link, Clear, Save, OutOfTime,
                 ReadLinks, Keep, ForgetDeps, Drop, Check, End, Fails, Dies
<1>. QED
  BY <1>1 DEF store

LEMMA OneRowStays ==
  ASSUME FInv, [Next]_vars
  PROVE  OneRowPerEntry'
<1>1. ASSUME UNCHANGED rows PROVE OneRowPerEntry'
  BY <1>1 DEF FInv, OneRowPerEntry
<1>2. CASE UNCHANGED vars
  BY <1>1, <1>2 DEF vars, store
<1>3. CASE Events
  BY <1>1, <1>3, EventsDo DEF store, FInv, Attributed, Structure
<1>4. ASSUME NEW p \in Procs, Acts(p) PROVE OneRowPerEntry'
  <2>1. CASE Dedupe(p)
    BY <2>1, DedupedIs, FewerRows DEF FInv, Attributed
  <2>2. CASE Rename(p)
    BY <2>2, RenameKeepsOne
  <2>3. CASE Import(p)
    <3>1. /\ \A x \in DOMAIN rows : rows'[x] = rows[x]
          /\ \A x \in DOMAIN rows' : x \notin DOMAIN rows => rows'[x] = 1
      BY <2>3, ImportDoes DEF FInv, Attributed
    <3>. QED
      BY <3>1 DEF FInv, OneRowPerEntry
  <2>4. CASE ForgetRows(p)
    <3>1. PICK n \in Names : rows' = Without(rows, n)
      BY <2>4, ForgetRowsDoes DEF FInv, Attributed
    <3>2. /\ DOMAIN Without(rows, n) = {x \in DOMAIN rows : x[1] # n}
          /\ \A x \in DOMAIN Without(rows, n) : Without(rows, n)[x] = rows[x]
      BY WithoutIs
    <3>3. \A x \in DOMAIN rows' : x \in DOMAIN rows /\ rows'[x] = rows[x]
      BY <3>1, <3>2
    <3>. QED
      BY <3>3, FewerRows DEF FInv
  <2>. QED
    BY <1>1, <1>4, <2>1, <2>2, <2>3, <2>4, RowsOf
<1>. QED
  BY <1>2, <1>3, <1>4, NextIs

LEMMA FInvInit ==
  ASSUME OwnNames, Init
  PROVE  FInv
<1>1. OneRowPerEntry
  <2>1. PICK db \in OldDatabases : rows = SetToBag(db.rows)
    BY DEF Init
  <2>2. DOMAIN SetToBag(db.rows) = db.rows /\ \A x \in db.rows : SetToBag(db.rows)[x] = 1
    BY SetBagIs
  <2>. QED
    BY <2>1, <2>2 DEF OneRowPerEntry
<1>. QED
  BY <1>1, AttributedInit DEF FInv

LEMMA FInvStays ==
  ASSUME FInv, [Next]_vars
  PROVE  FInv'
  BY AttributedStays, OneRowStays DEF FInv

\* If no older binary linked a path under another sibling's name, an entry of a
\* sibling is stored at most once under a name, whatever runs overlap or break off:
\* the import counts what is there, and a migration deletes before it renames.
THEOREM EntriesStoredOnce ==
  ASSUME OwnNames
  PROVE  Spec => []OneRowPerEntry
<1>1. Init => FInv
  BY FInvInit
<1>2. FInv /\ [Next]_vars => FInv'
  BY FInvStays
<1>3. FInv => OneRowPerEntry
  BY DEF FInv
<1>. QED
  BY <1>1, <1>2, <1>3, PTL DEF Spec

LEMMA DedupeLosesNothing ==
  ASSUME FInv, NEW p \in Procs, Dedupe(p), NEW t \in Txs, Stored(t)
  PROVE  Stored(t)'
<1>. DEFINE d == run[p].peer
<1>1. PICK x \in DOMAIN rows : x[2] = t
  BY DEF Stored
<1>2. PICK n \in run[p].old :
        DOMAIN rows' = {y \in DOMAIN rows : ~(y[1] = n /\ <<d, y[2]>> \in DOMAIN rows)}
  BY DedupedIs DEF FInv, Attributed
<1>3. n # d
  BY <1>2, DedupedIs, MigratingKnows DEF FInv, Attributed, Migrating
<1>4. CASE x \in DOMAIN rows'
  BY <1>1, <1>4 DEF Stored
<1>5. CASE x \notin DOMAIN rows'
  <2>. DEFINE z == <<d, t>>
  <2>1. z \in DOMAIN rows /\ z[1] = d /\ z[2] = t
    BY <1>1, <1>2, <1>5
  <2>2. z \in DOMAIN rows'
    BY <1>2, <1>3, <2>1
  <2>. QED
    BY <2>1, <2>2 DEF Stored
<1>. QED
  BY <1>4, <1>5

LEMMA RenameLosesNothing ==
  ASSUME FInv, NEW p \in Procs, Rename(p), NEW t \in Txs, Stored(t)
  PROVE  Stored(t)'
<1>. DEFINE d == run[p].peer
<1>1. PICK x \in DOMAIN rows : x[2] = t
  BY DEF Stored
<1>2. PICK n \in Names :
        DOMAIN rows' = {y \in DOMAIN rows : y[1] # n} \cup {<<d, y[2]>> : y \in OfName(rows, n)}
  BY RenamedRows DEF FInv, Attributed
<1>3. CASE x[1] # n
  BY <1>1, <1>2, <1>3 DEF Stored
<1>4. CASE x[1] = n
  <2>. DEFINE z == <<d, t>>
  <2>1. z \in DOMAIN rows' /\ z[2] = t
    BY <1>1, <1>2, <1>4 DEF OfName
  <2>. HIDE DEF z
  <2>. QED
    BY <2>1 DEF Stored
<1>. QED
  BY <1>3, <1>4

LEMMA ForgottenWasMissing ==
  ASSUME FInv, NEW p \in Procs, ForgetRows(p), NEW t \in Txs, Stored(t), ~Stored(t)'
  PROVE  run'[p] # run[p] /\ Owner[t] \in run[p].gone
<1>1. run[p].pc = "forget" /\ Goes(p, "drop")
  BY ForgetRowsDoes DEF FInv, Attributed
<1>2. PICK n \in Names : run[p].old = {n} /\ rows' = Without(rows, n)
  BY ForgetRowsDoes DEF FInv, Attributed
<1>3. run'[p].pc = "drop"
  BY <1>1, GoesDoes DEF Pruning, FInv, Attributed, Structure
<1>4. PICK x \in DOMAIN rows : x[2] = t
  BY DEF Stored
<1>5. x \in OfName(rows, n)
  <2>1. DOMAIN Without(rows, n) = {y \in DOMAIN rows : y[1] # n}
    BY WithoutIs
  <2>. QED
    BY <1>2, <1>4, <2>1 DEF OfName, Stored
<1>6. Owner[t] \in run[p].gone
  <2>1. IF n \in Peers THEN n \in run[p].gone
                       ELSE \A y \in OfName(rows, n) : Owner[y[2]] \in run[p].gone
    BY <1>1, <1>2 DEF FInv, Attributed, Forgetting
  <2>2. n \in Peers => Owner[t] = n
    BY <1>4, <1>5 DEF OfName, FInv, Attributed, RowsOwned
  <2>. QED
    BY <1>4, <1>5, <2>1, <2>2
<1>. QED
  BY <1>1, <1>3, <1>6

\* Under the same hypothesis the store loses the last copy of an entry only to a run
\* during which the sibling it belongs to had no schema.json at all: never because
\* the file was torn, an export died, a name was migrated or another run was at work.
THEOREM NothingElseForgotten ==
  ASSUME OwnNames
  PROVE  Spec => OnlyTheMissingForgotten
<1>1. Init => FInv
  BY FInvInit
<1>2. FInv /\ [Next]_vars => FInv'
  BY FInvStays
<1>3. ASSUME FInv, [Next]_vars
      PROVE  \A t \in Txs : Stored(t) /\ ~Stored(t)' =>
               \E p \in Procs : run'[p] # run[p] /\ Owner[t] \in run[p].gone
  <2>. SUFFICES ASSUME NEW t \in Txs, Stored(t), ~Stored(t)'
                PROVE  \E p \in Procs : run'[p] # run[p] /\ Owner[t] \in run[p].gone
    OBVIOUS
  <2>1. ASSUME UNCHANGED rows PROVE FALSE
    BY <2>1 DEF Stored
  <2>2. CASE UNCHANGED vars
    BY <2>1, <2>2 DEF vars, store
  <2>3. CASE Events
    BY <1>3, <2>1, <2>3, EventsDo DEF store, FInv, Attributed, Structure
  <2>4. ASSUME NEW p \in Procs, Acts(p)
        PROVE  run'[p] # run[p] /\ Owner[t] \in run[p].gone
    <3>1. CASE Dedupe(p)
      BY <1>3, <3>1, DedupeLosesNothing
    <3>2. CASE Rename(p)
      BY <1>3, <3>2, RenameLosesNothing
    <3>3. CASE Import(p)
      <4>1. DOMAIN rows \subseteq DOMAIN rows'
        BY <1>3, <3>3, ImportDoes DEF FInv, Attributed
      <4>. QED
        BY <4>1 DEF Stored
    <3>4. CASE ForgetRows(p)
      BY <1>3, <3>4, ForgottenWasMissing
    <3>. QED
      BY <1>3, <2>1, <2>4, <3>1, <3>2, <3>3, <3>4, RowsOf
  <2>. QED
    BY <1>3, <2>2, <2>3, <2>4, NextIs
<1>. QED
  BY <1>1, <1>2, <1>3, PTL DEF Spec, OnlyTheMissingForgotten
=============================================================================
