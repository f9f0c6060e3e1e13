------------------------- MODULE MuxCatalogueProofs -------------------------
(* The catalogue, for any clients and any number of commands: no order of        *)
(* creates, moves, closes, archives and selections leaves the document           *)
(* inconsistent, and none leaves something untold that nobody looks for.         *)
EXTENDS MuxCatalogue, FiniteSetTheorems, WellFoundedInduction, TLAPS

-----------------------------------------------------------------------------
(* The inductive invariant.                                                     *)

States == {"none", "open", "archived"}
SessionRecords ==
    [state : States, position : Nat, tab : Tabs \cup {0}, terminal : Terms \cup {0}, revision : Nat]
TabRecords ==
    [state : States, session : Sessions \cup {0}, position : Nat, terminal : Terms \cup {0},
     revision : Nat]
TermRecords ==
    [state : States, session : Sessions \cup {0}, tab : Tabs \cup {0}, position : Nat, revision : Nat]
Documents ==
    [session : [Sessions -> SessionRecords], tab : [Tabs -> TabRecords], terminal : [Terms -> TermRecords]]

(* CatalogueSound of any document, of one session, tab and terminal.               *)
IsTabOf(d, t, s) == t \in Tabs /\ d.tab[t].state = "open" /\ d.tab[t].session = s
IsTermOf(d, m, t) == m \in Terms /\ d.terminal[m].state = "open" /\ d.terminal[m].tab = t

SessionShows(d, s) ==
    LET r == d.session[s] IN
    r.state # "none" =>
        /\ \E t \in Tabs : IsTabOf(d, t, s)
        /\ r.tab = 0 \/ IsTabOf(d, r.tab, s)
        /\ r.terminal # 0 => r.tab # 0 /\ r.terminal = d.tab[r.tab].terminal
TabShows(d, t) ==
    d.tab[t].state = "open" =>
        \/ d.tab[t].terminal = 0 /\ \A m \in Terms : ~IsTermOf(d, m, t)
        \/ IsTermOf(d, d.tab[t].terminal, t)
Placed(d, m) ==
    d.terminal[m].state = "open" => IsTabOf(d, d.terminal[m].tab, d.terminal[m].session)

(* What was ever made has a revision, and a tab and a terminal their session.      *)
IsMade(r) == r.state # "none" /\ r.revision # 0
IsUnmade(r) == r.state = "none" /\ r.revision = 0
OfSession(d, r) == IsUnmade(r) \/ (IsMade(r) /\ r.session \in Sessions /\ IsMade(d.session[r.session]))
Made(d) ==
    /\ \A s \in Sessions : IsMade(d.session[s]) \/ IsUnmade(d.session[s])
    /\ \A t \in Tabs : OfSession(d, d.tab[t])
    /\ \A m \in Terms : OfSession(d, d.terminal[m])

Sound(d) ==
    /\ d \in Documents
    /\ \A s \in Sessions : SessionShows(d, s)
    /\ \A t \in Tabs : TabShows(d, t)
    /\ \A m \in Terms : Placed(d, m)
    /\ Made(d)
Visible(d) == \E s \in Sessions : d.session[s].state = "open"

(* What a command that is under way was asked for exists.                         *)
Fits(d, r) ==
    /\ r.op \in {"createTab", "createTerminal", "selectTerminal", "archiveSession"} =>
         r.on \in Sessions /\ IsMade(d.session[r.on])
    /\ r.op = "archiveTab" => r.on \in Tabs /\ IsMade(d.tab[r.on])
    /\ r.op \in {"moveTerminal", "closeTerminal"} => r.on \in Terms /\ IsMade(d.terminal[r.on])
    /\ r.op = "selectTerminal" =>
         \/ r.to = 0
         \/ r.to \in Terms /\ IsMade(d.terminal[r.to]) /\ d.terminal[r.to].session = r.on
Operations ==
    {"createSession", "createTab", "createTerminal", "moveTerminal", "selectTerminal",
     "closeTerminal", "archiveTab", "archiveSession"}
IsRequest(r) ==
    r \in [at : {r.at}, op : {r.op}, on : {r.on}, to : {r.to}, before : {r.before}, look : {r.look}]
RequestsFit ==
    /\ DOMAIN request = Clients
    /\ \A c \in Clients :
         /\ IsRequest(request[c])
         /\ request[c].at = "asked" => request[c].op \in Operations /\ Fits(doc, request[c])

(* Clients were told of nothing that is not there.                               *)
Kinds == {"session", "tab", "terminal"}
ToldOf(told, rows) ==
    /\ DOMAIN told = DOMAIN rows
    /\ \A i \in DOMAIN rows : told[i] \in Nat /\ told[i] <= rows[i].revision
SeenBefore == DOMAIN seen = Kinds /\ \A k \in Kinds : ToldOf(seen[k], doc[k])

(* Each command that is asked, or may yet be, finds ids that nothing had before.   *)
Asked == {c \in Clients : request[c].at = "asked"}
Unused(rows) == {i \in DOMAIN rows : rows[i].state = "none"}
Left(rows) == MaxEdits + Cardinality(Asked) <= Cardinality(Unused(rows)) + edits
Room ==
    /\ edits \in 0..MaxEdits
    /\ Left(doc.session) /\ Left(doc.tab) /\ Left(doc.terminal)

CatalogueInv == Sound(doc) /\ Visible(doc) /\ RequestsFit /\ SeenBefore /\ Room

-----------------------------------------------------------------------------
(* Documents.                                                                   *)

(* A later document has nothing less, ...                                         *)
Follows(d, e) ==
    /\ \A s \in Sessions : d.session[s].revision <= e.session[s].revision
    /\ \A t \in Tabs : d.tab[t].revision <= e.tab[t].revision
    /\ \A m \in Terms : /\ d.terminal[m].revision <= e.terminal[m].revision
                        /\ IsMade(d.terminal[m]) => e.terminal[m].session = d.terminal[m].session
(* ... and nothing more, or at most one thing of a kind.                           *)
Kept(d, e) ==
    /\ Unused(d.session) \subseteq Unused(e.session) /\ Unused(d.tab) \subseteq Unused(e.tab)
    /\ Unused(d.terminal) \subseteq Unused(e.terminal)
Fewer(a, b) == \E i : Unused(a) \subseteq Unused(b) \cup {i}
OneMore(d, e) == Fewer(d.session, e.session) /\ Fewer(d.tab, e.tab) /\ Fewer(d.terminal, e.terminal)

LEMMA LeastOf ==
  ASSUME NEW S \in SUBSET Nat, S # {}
  PROVE  Min(S) \in S /\ \A y \in S : Min(S) <= y
<1>. DEFINE Lower == OpToRel(<, Nat)
<1>1. IsWellFoundedOn(Lower, Nat)
  BY NatLessThanWellFounded
<1>2. PICK n \in S : \A k \in S : ~(<<k, n>> \in Lower)
  <2>. HIDE DEF Lower
  <2>. QED BY <1>1, WFMin
<1>3. \A k \in S : ~(k < n)
  BY <1>2 DEF OpToRel
<1>4. \A k \in S : n <= k
  BY <1>3
<1>. QED BY <1>4 DEF Min

LEMMA GreatestOf ==
  ASSUME NEW a \in Nat, NEW b \in Nat
  PROVE  Max({a, b}) \in {a, b} /\ Max({a, b}) >= a /\ Max({a, b}) >= b
<1>1. \E x \in {a, b} : \A y \in {a, b} : x >= y
  <2>1. CASE a >= b
    BY <2>1
  <2>2. CASE b >= a
    BY <2>2
  <2>. QED BY <2>1, <2>2
<1>. QED BY <1>1 DEF Max

LEMMA Numbers ==
  /\ MaxEdits \in Nat /\ IsFiniteSet(Clients)
  /\ Sessions \subseteq Nat \ {0} /\ Tabs \subseteq Nat \ {0} /\ Terms \subseteq Nat \ {0}
  /\ IsFiniteSet(Sessions) /\ IsFiniteSet(Tabs) /\ IsFiniteSet(Terms)
<1>1. MaxEdits \in Nat /\ IsFiniteSet(Clients)
  BY CatalogueBounds
<1>. QED BY <1>1, FS_Interval DEF Sessions, Tabs, Terms

LEMMA FreshSession ==
  ASSUME NEW d \in Documents, Unused(d.session) # {}
  PROVE  Fresh(d, "session") \in Sessions /\ d.session[Fresh(d, "session")].state = "none"
<1>1. Unused(d.session) \in SUBSET Nat /\ Unused(d.session) \subseteq Sessions
  BY Numbers DEF Documents, Unused
<1>2. Fresh(d, "session") = Min(Unused(d.session))
  BY DEF Fresh, Unused
<1>. QED BY <1>1, <1>2, LeastOf DEF Unused

LEMMA FreshTab ==
  ASSUME NEW d \in Documents, Unused(d.tab) # {}
  PROVE  Fresh(d, "tab") \in Tabs /\ d.tab[Fresh(d, "tab")].state = "none"
<1>1. Unused(d.tab) \in SUBSET Nat /\ Unused(d.tab) \subseteq Tabs
  BY Numbers DEF Documents, Unused
<1>2. Fresh(d, "tab") = Min(Unused(d.tab))
  BY DEF Fresh, Unused
<1>. QED BY <1>1, <1>2, LeastOf DEF Unused

LEMMA FreshTerminal ==
  ASSUME NEW d \in Documents, Unused(d.terminal) # {}
  PROVE  Fresh(d, "terminal") \in Terms /\ d.terminal[Fresh(d, "terminal")].state = "none"
<1>1. Unused(d.terminal) \in SUBSET Nat /\ Unused(d.terminal) \subseteq Terms
  BY Numbers DEF Documents, Unused
<1>2. Fresh(d, "terminal") = Min(Unused(d.terminal))
  BY DEF Fresh, Unused
<1>. QED BY <1>1, <1>2, LeastOf DEF Unused

LEMMA FirstByPosition ==
  ASSUME NEW rows, NEW ids \in SUBSET Nat, ids # {}, \A i \in ids : rows[i].position \in Nat
  PROVE  \E i \in ids : \A j \in ids \ {i} :
            \/ rows[i].position < rows[j].position
            \/ rows[i].position = rows[j].position /\ i < j
<1>. DEFINE places == {rows[i].position : i \in ids}
            p == Min(places)
            front == {i \in ids : rows[i].position = p}
            n == Min(front)
<1>1. places \in SUBSET Nat /\ places # {}
  OBVIOUS
<1>2. p \in places /\ \A i \in ids : p <= rows[i].position
  <2>1. p \in places /\ \A y \in places : p <= y
    <3>. HIDE DEF places
    <3>. QED BY <1>1, LeastOf
  <2>. QED BY <2>1
<1>3. front \in SUBSET Nat /\ front # {}
  BY <1>2
<1>4. n \in front /\ \A i \in front : n <= i
  <2>. HIDE DEF front
  <2>. QED BY <1>3, LeastOf
<1>. HIDE DEF p, n
<1>5. p \in Nat /\ n \in ids /\ rows[n].position = p
  BY <1>1, <1>2, <1>4
<1>6. ASSUME NEW j \in ids \ {n}
      PROVE  \/ rows[n].position < rows[j].position
             \/ rows[n].position = rows[j].position /\ n < j
  <2>1. p <= rows[j].position /\ rows[j].position \in Nat
    BY <1>2
  <2>2. CASE rows[j].position = p
    <3>1. j \in front /\ n <= j /\ j \in Nat /\ n \in Nat /\ n # j
      BY <1>3, <1>4, <1>5, <2>2
    <3>2. n < j
      BY <3>1
    <3>. QED BY <1>5, <2>2, <3>2
  <2>3. CASE rows[j].position # p
    <3>1. p < rows[j].position
      BY <1>5, <2>1, <2>3
    <3>. QED BY <1>5, <3>1
  <2>. QED BY <2>2, <2>3
<1>. QED BY <1>5, <1>6

LEMMA ForemostTerminal ==
  ASSUME NEW d \in Documents, NEW ids \in SUBSET Terms
  PROVE  IF ids = {} THEN Foremost(d, "terminal", ids) = 0 ELSE Foremost(d, "terminal", ids) \in ids
<1>1. ids \in SUBSET Nat /\ \A i \in ids : d.terminal[i].position \in Nat
  BY Numbers DEF Documents, TermRecords
<1>2. CASE ids # {}
  <2>1. \E i \in ids : \A j \in ids \ {i} :
            \/ d.terminal[i].position < d.terminal[j].position
            \/ d.terminal[i].position = d.terminal[j].position /\ i < j
    BY <1>1, <1>2, FirstByPosition
  <2>. QED BY <1>2, <2>1 DEF Foremost
<1>. QED BY <1>2 DEF Foremost

LEMMA ForemostTab ==
  ASSUME NEW d \in Documents, NEW ids \in SUBSET Tabs
  PROVE  IF ids = {} THEN Foremost(d, "tab", ids) = 0 ELSE Foremost(d, "tab", ids) \in ids
<1>1. ids \in SUBSET Nat /\ \A i \in ids : d.tab[i].position \in Nat
  BY Numbers DEF Documents, TabRecords
<1>2. CASE ids # {}
  <2>1. \E i \in ids : \A j \in ids \ {i} :
            \/ d.tab[i].position < d.tab[j].position
            \/ d.tab[i].position = d.tab[j].position /\ i < j
    BY <1>1, <1>2, FirstByPosition
  <2>. QED BY <1>2, <2>1 DEF Foremost
<1>. QED BY <1>2 DEF Foremost

(* The document of given rows.                                                   *)
Rows(e, S, T, M) == e \in [session : {S}, tab : {T}, terminal : {M}]

LEMMA RowsOf ==
  ASSUME NEW e, NEW S \in [Sessions -> SessionRecords], NEW T \in [Tabs -> TabRecords],
         NEW M \in [Terms -> TermRecords], Rows(e, S, T, M)
  PROVE  e \in Documents /\ e.session = S /\ e.tab = T /\ e.terminal = M
BY DEF Rows, Documents

LEMMA Typed ==
  ASSUME NEW d \in Documents
  PROVE  /\ d.session \in [Sessions -> SessionRecords] /\ d.tab \in [Tabs -> TabRecords]
         /\ d.terminal \in [Terms -> TermRecords]
         /\ \A s \in Sessions : d.session[s] \in SessionRecords
         /\ \A t \in Tabs : d.tab[t] \in TabRecords
         /\ \A m \in Terms : d.terminal[m] \in TermRecords
         /\ Rows(d, d.session, d.tab, d.terminal)
BY DEF Documents, Rows

LEMMA Opened ==
  ASSUME NEW d \in Documents
  PROVE  /\ \A s : s \in Open(d, "session") <=> s \in Sessions /\ d.session[s].state = "open"
         /\ \A s, t : t \in OpenTabs(d, s) <=> IsTabOf(d, t, s)
         /\ \A t, m : m \in OpenTerms(d, t) <=> IsTermOf(d, m, t)
BY DEF Documents, Open, OpenTabs, OpenTerms, IsTabOf, IsTermOf

LEMMA UnusedRows ==
  ASSUME NEW d \in Documents
  PROVE  /\ \A s : s \in Unused(d.session) <=> s \in Sessions /\ d.session[s].state = "none"
         /\ \A t : t \in Unused(d.tab) <=> t \in Tabs /\ d.tab[t].state = "none"
         /\ \A m : m \in Unused(d.terminal) <=> m \in Terms /\ d.terminal[m].state = "none"
BY DEF Documents, Unused

LEMMA KeptByState ==
  ASSUME NEW d \in Documents, NEW e \in Documents,
         \A s \in Sessions : d.session[s].state = "none" => e.session[s].state = "none",
         \A t \in Tabs : d.tab[t].state = "none" => e.tab[t].state = "none",
         \A m \in Terms : d.terminal[m].state = "none" => e.terminal[m].state = "none"
  PROVE  Kept(d, e)
BY UnusedRows DEF Kept

LEMMA FollowsThrough ==
  ASSUME NEW d, Sound(d), NEW e \in Documents, NEW f \in Documents, Made(e), Follows(d, e), Follows(e, f)
  PROVE  /\ Follows(d, f)
         /\ Kept(d, e) /\ Kept(e, f) => Kept(d, f)
         /\ OneMore(d, e) /\ Kept(e, f) => OneMore(d, f)
         /\ Kept(d, e) /\ OneMore(e, f) => OneMore(d, f)
<1>1. d \in Documents
  BY DEF Sound
<1>2. \A m \in Terms : IsMade(d.terminal[m]) => IsMade(e.terminal[m])
  BY <1>1, Typed DEF Follows, Made, OfSession, IsMade, IsUnmade, TermRecords
<1>3. Follows(d, f)
  <2>1. \A s \in Sessions : d.session[s].revision <= f.session[s].revision
    BY <1>1, Typed DEF Follows, SessionRecords
  <2>2. \A t \in Tabs : d.tab[t].revision <= f.tab[t].revision
    BY <1>1, Typed DEF Follows, TabRecords
  <2>3. \A m \in Terms : d.terminal[m].revision <= f.terminal[m].revision
    BY <1>1, Typed DEF Follows, TermRecords
  <2>. QED BY <1>2, <2>1, <2>2, <2>3 DEF Follows
<1>. QED BY <1>3 DEF Kept, OneMore, Fewer

LEMMA KeptIsOneMore ==
  ASSUME NEW d, NEW e, Kept(d, e)
  PROVE  OneMore(d, e)
BY DEF Kept, OneMore, Fewer

(* Positions and later revisions change nothing, nor does opening a session.       *)
Later(a, b) ==
    a.revision <= b.revision /\ (IsMade(a) => IsMade(b)) /\ (IsUnmade(a) => IsUnmade(b))
SessionAlike(a, b) == Later(a, b) /\ b.tab = a.tab /\ b.terminal = a.terminal
TabAlike(a, b) == Later(a, b) /\ b.state = a.state /\ b.session = a.session /\ b.terminal = a.terminal
TermAlike(a, b) == Later(a, b) /\ b.state = a.state /\ b.session = a.session /\ b.tab = a.tab

LEMMA AlikeKeeps ==
  ASSUME NEW d, Sound(d), NEW e \in Documents,
         \A s \in Sessions : SessionAlike(d.session[s], e.session[s]),
         \A t \in Tabs : TabAlike(d.tab[t], e.tab[t]),
         \A m \in Terms : TermAlike(d.terminal[m], e.terminal[m])
  PROVE  Sound(e) /\ Follows(d, e) /\ Kept(d, e)
<1>1. d \in Documents
  BY DEF Sound
<1>2. /\ \A t, s : IsTabOf(e, t, s) <=> IsTabOf(d, t, s)
      /\ \A m, t : IsTermOf(e, m, t) <=> IsTermOf(d, m, t)
  BY DEF IsTabOf, IsTermOf, TabAlike, TermAlike
<1>3. ASSUME NEW s \in Sessions PROVE SessionShows(e, s)
  <2>1. SessionShows(d, s) /\ SessionAlike(d.session[s], e.session[s])
        /\ (IsMade(d.session[s]) \/ IsUnmade(d.session[s]))
    BY DEF Sound, Made
  <2>2. \A t \in Tabs : e.tab[t].terminal = d.tab[t].terminal
    BY DEF TabAlike
  <2>. QED BY <1>2, <2>1, <2>2 DEF SessionShows, SessionAlike, Later, IsMade, IsUnmade, IsTabOf
<1>4. ASSUME NEW t \in Tabs PROVE TabShows(e, t)
  BY <1>2 DEF Sound, TabShows, TabAlike
<1>5. ASSUME NEW m \in Terms PROVE Placed(e, m)
  BY <1>2 DEF Sound, Placed, TermAlike
<1>6. Made(e)
  BY DEF Sound, Made, OfSession, SessionAlike, TabAlike, TermAlike, Later
<1>7. Follows(d, e)
  BY DEF Follows, SessionAlike, TabAlike, TermAlike, Later
<1>8. Kept(d, e)
  <2>1. \A s \in Sessions : d.session[s].state = "none" => e.session[s].state = "none"
    BY DEF Sound, Made, SessionAlike, Later, IsMade, IsUnmade
  <2>2. \A t \in Tabs : d.tab[t].state = "none" => e.tab[t].state = "none"
    BY DEF TabAlike
  <2>3. \A m \in Terms : d.terminal[m].state = "none" => e.terminal[m].state = "none"
    BY DEF TermAlike
  <2>. QED BY <1>1, <2>1, <2>2, <2>3, KeptByState
<1>. QED BY <1>3, <1>4, <1>5, <1>6, <1>7, <1>8 DEF Sound

LEMMA AlikeItself ==
  ASSUME NEW d \in Documents
  PROVE  /\ \A s \in Sessions : SessionAlike(d.session[s], d.session[s])
         /\ \A t \in Tabs : TabAlike(d.tab[t], d.tab[t])
         /\ \A m \in Terms : TermAlike(d.terminal[m], d.terminal[m])
<1>1. \A n \in Nat : n <= n
  OBVIOUS
<1>. QED BY <1>1, Typed DEF SessionAlike, TabAlike, TermAlike, Later, SessionRecords, TabRecords, TermRecords

(* Some rows of one kind, each in its next revision.                             *)
LEMMA SessionsRevised ==
  ASSUME NEW d, Sound(d), NEW ids \in SUBSET Sessions, NEW e, NEW S \in [Sessions -> SessionRecords],
         \A s \in ids : /\ IsMade(d.session[s]) /\ S[s].state # "none"
                        /\ S[s].revision = d.session[s].revision + 1
                        /\ S[s].tab = d.session[s].tab /\ S[s].terminal = d.session[s].terminal,
         \A s \in Sessions \ ids : S[s] = d.session[s],
         Rows(e, S, d.tab, d.terminal)
  PROVE  Sound(e) /\ Follows(d, e) /\ Kept(d, e)
<1>1. d \in Documents
  BY DEF Sound
<1>2. e \in Documents /\ e.session = S /\ e.tab = d.tab /\ e.terminal = d.terminal
  BY <1>1, Typed, RowsOf
<1>3. ASSUME NEW s \in ids PROVE SessionAlike(d.session[s], S[s])
  <2>1. d.session[s].revision \in Nat
    BY <1>1, Typed DEF SessionRecords
  <2>. QED BY <2>1 DEF SessionAlike, Later, IsMade, IsUnmade
<1>. QED BY <1>1, <1>2, <1>3, AlikeItself, AlikeKeeps

LEMMA TabsRevised ==
  ASSUME NEW d, Sound(d), NEW ids \in SUBSET Tabs, NEW e, NEW T \in [Tabs -> TabRecords],
         \A t \in ids : /\ IsMade(d.tab[t]) /\ T[t].state = d.tab[t].state
                        /\ T[t].revision = d.tab[t].revision + 1
                        /\ T[t].session = d.tab[t].session /\ T[t].terminal = d.tab[t].terminal,
         \A t \in Tabs \ ids : T[t] = d.tab[t],
         Rows(e, d.session, T, d.terminal)
  PROVE  Sound(e) /\ Follows(d, e) /\ Kept(d, e)
<1>1. d \in Documents
  BY DEF Sound
<1>2. e \in Documents /\ e.session = d.session /\ e.tab = T /\ e.terminal = d.terminal
  BY <1>1, Typed, RowsOf
<1>3. ASSUME NEW t \in ids PROVE TabAlike(d.tab[t], T[t])
  <2>1. d.tab[t].revision \in Nat
    BY <1>1, Typed DEF TabRecords
  <2>. QED BY <2>1 DEF TabAlike, Later, IsMade, IsUnmade
<1>. QED BY <1>1, <1>2, <1>3, AlikeItself, AlikeKeeps

LEMMA TermsRevised ==
  ASSUME NEW d, Sound(d), NEW ids \in SUBSET Terms, NEW e, NEW M \in [Terms -> TermRecords],
         \A m \in ids : /\ IsMade(d.terminal[m]) /\ M[m].state = d.terminal[m].state
                        /\ M[m].revision = d.terminal[m].revision + 1
                        /\ M[m].session = d.terminal[m].session /\ M[m].tab = d.terminal[m].tab,
         \A m \in Terms \ ids : M[m] = d.terminal[m],
         Rows(e, d.session, d.tab, M)
  PROVE  Sound(e) /\ Follows(d, e) /\ Kept(d, e)
<1>1. d \in Documents
  BY DEF Sound
<1>2. e \in Documents /\ e.session = d.session /\ e.tab = d.tab /\ e.terminal = M
  BY <1>1, Typed, RowsOf
<1>3. ASSUME NEW m \in ids PROVE TermAlike(d.terminal[m], M[m])
  <2>1. d.terminal[m].revision \in Nat
    BY <1>1, Typed DEF TermRecords
  <2>. QED BY <2>1 DEF TermAlike, Later, IsMade, IsUnmade
<1>. QED BY <1>1, <1>2, <1>3, AlikeItself, AlikeKeeps

(* Renames and orders.                                                           *)
LEMMA RevisedSession ==
  ASSUME NEW r \in SessionRecords
  PROVE  /\ Revised(r) \in SessionRecords /\ Revised(r).revision = r.revision + 1
         /\ Revised(r).state = r.state /\ Revised(r).position = r.position
         /\ Revised(r).tab = r.tab /\ Revised(r).terminal = r.terminal
BY DEF Revised, SessionRecords

LEMMA RevisedTab ==
  ASSUME NEW r \in TabRecords
  PROVE  /\ Revised(r) \in TabRecords /\ Revised(r).revision = r.revision + 1
         /\ Revised(r).state = r.state /\ Revised(r).session = r.session
         /\ Revised(r).position = r.position /\ Revised(r).terminal = r.terminal
BY DEF Revised, TabRecords

LEMMA RevisedTerm ==
  ASSUME NEW r \in TermRecords
  PROVE  /\ Revised(r) \in TermRecords /\ Revised(r).revision = r.revision + 1
         /\ Revised(r).state = r.state /\ Revised(r).session = r.session
         /\ Revised(r).tab = r.tab /\ Revised(r).position = r.position
BY DEF Revised, TermRecords

LEMMA TouchSessionKeeps ==
  ASSUME NEW d, Sound(d), Visible(d), NEW i \in Sessions, IsMade(d.session[i]),
         NEW e, e = Touch(d, "session", i)
  PROVE  Sound(e) /\ Visible(e) /\ Follows(d, e) /\ Kept(d, e)
<1>. DEFINE rows == [d.session EXCEPT ![i] = Revised(d.session[i])]
<1>1. d \in Documents /\ d.session[i] \in SessionRecords
  BY Typed DEF Sound
<1>2. Rows(e, rows, d.tab, d.terminal)
  BY <1>1 DEF Touch, Rows, Documents
<1>3. rows \in [Sessions -> SessionRecords]
  BY <1>1, Typed, RevisedSession
<1>4. rows[i] = Revised(d.session[i]) /\ \A j \in Sessions \ {i} : rows[j] = d.session[j]
  BY <1>1, Typed
<1>. HIDE DEF rows
<1>5. Sound(e) /\ Follows(d, e) /\ Kept(d, e)
  <2>1. \A j \in {i} : /\ IsMade(d.session[j]) /\ rows[j].state # "none"
                       /\ rows[j].revision = d.session[j].revision + 1
                       /\ rows[j].tab = d.session[j].tab /\ rows[j].terminal = d.session[j].terminal
    BY <1>1, <1>4, RevisedSession DEF IsMade
  <2>2. {i} \in SUBSET Sessions
    OBVIOUS
  <2>. QED BY <1>2, <1>3, <1>4, <2>1, <2>2, SessionsRevised
<1>6. e.session = rows
  BY <1>1, <1>2, <1>3, Typed, RowsOf
<1>7. Visible(e)
  BY <1>1, <1>4, <1>6, RevisedSession DEF Visible
<1>. QED BY <1>5, <1>7

LEMMA TouchTabKeeps ==
  ASSUME NEW d, Sound(d), Visible(d), NEW i \in Tabs, IsMade(d.tab[i]),
         NEW e, e = Touch(d, "tab", i)
  PROVE  Sound(e) /\ Visible(e) /\ Follows(d, e) /\ Kept(d, e)
<1>. DEFINE rows == [d.tab EXCEPT ![i] = Revised(d.tab[i])]
<1>1. d \in Documents /\ d.tab[i] \in TabRecords
  BY Typed DEF Sound
<1>2. Rows(e, d.session, rows, d.terminal)
  BY <1>1 DEF Touch, Rows, Documents
<1>3. rows \in [Tabs -> TabRecords]
  BY <1>1, Typed, RevisedTab
<1>4. rows[i] = Revised(d.tab[i]) /\ \A j \in Tabs \ {i} : rows[j] = d.tab[j]
  BY <1>1, Typed
<1>. HIDE DEF rows
<1>5. Sound(e) /\ Follows(d, e) /\ Kept(d, e)
  <2>1. \A j \in {i} : /\ IsMade(d.tab[j]) /\ rows[j].state = d.tab[j].state
                       /\ rows[j].revision = d.tab[j].revision + 1
                       /\ rows[j].session = d.tab[j].session /\ rows[j].terminal = d.tab[j].terminal
    BY <1>1, <1>4, RevisedTab DEF IsMade
  <2>2. {i} \in SUBSET Tabs
    OBVIOUS
  <2>. QED BY <1>2, <1>3, <1>4, <2>1, <2>2, TabsRevised
<1>6. e.session = d.session
  BY <1>1, <1>2, <1>3, Typed, RowsOf
<1>7. Visible(e)
  BY <1>1, <1>4, <1>6, RevisedTab DEF Visible
<1>. QED BY <1>5, <1>7

LEMMA TouchTermKeeps ==
  ASSUME NEW d, Sound(d), Visible(d), NEW i \in Terms, IsMade(d.terminal[i]),
         NEW e, e = Touch(d, "terminal", i)
  PROVE  Sound(e) /\ Visible(e) /\ Follows(d, e) /\ Kept(d, e)
<1>. DEFINE rows == [d.terminal EXCEPT ![i] = Revised(d.terminal[i])]
<1>1. d \in Documents /\ d.terminal[i] \in TermRecords
  BY Typed DEF Sound
<1>2. Rows(e, d.session, d.tab, rows)
  BY <1>1 DEF Touch, Rows, Documents
<1>3. rows \in [Terms -> TermRecords]
  BY <1>1, Typed, RevisedTerm
<1>4. rows[i] = Revised(d.terminal[i]) /\ \A j \in Terms \ {i} : rows[j] = d.terminal[j]
  BY <1>1, Typed
<1>. HIDE DEF rows
<1>5. Sound(e) /\ Follows(d, e) /\ Kept(d, e)
  <2>1. \A j \in {i} : /\ IsMade(d.terminal[j]) /\ rows[j].state = d.terminal[j].state
                       /\ rows[j].revision = d.terminal[j].revision + 1
                       /\ rows[j].session = d.terminal[j].session /\ rows[j].tab = d.terminal[j].tab
    BY <1>1, <1>4, RevisedTerm DEF IsMade
  <2>2. {i} \in SUBSET Terms
    OBVIOUS
  <2>. QED BY <1>2, <1>3, <1>4, <2>1, <2>2, TermsRevised
<1>6. e.session = d.session
  BY <1>1, <1>2, <1>3, Typed, RowsOf
<1>7. Visible(e)
  BY <1>1, <1>4, <1>6, RevisedTerm DEF Visible
<1>. QED BY <1>5, <1>7

LEMMA ReorderSessionsKeeps ==
  ASSUME NEW d, Sound(d), Visible(d), NEW ids \in SUBSET Sessions, NEW order \in [ids -> Nat],
         \A i \in ids : IsMade(d.session[i]), NEW e, e = Reordered(d, "session", order)
  PROVE  Sound(e) /\ Visible(e) /\ Follows(d, e) /\ Kept(d, e)
<1>. DEFINE rows == [i \in Sessions |->
              IF i \in ids THEN [Revised(d.session[i]) EXCEPT !.position = order[i]] ELSE d.session[i]]
<1>1. d \in Documents /\ \A i \in Sessions : d.session[i] \in SessionRecords
  BY Typed DEF Sound
<1>2. Rows(e, rows, d.tab, d.terminal)
  BY <1>1 DEF Reordered, Rows, Documents
<1>3. ASSUME NEW i \in ids
      PROVE  /\ rows[i] \in SessionRecords /\ rows[i].state = d.session[i].state
             /\ rows[i].revision = d.session[i].revision + 1
             /\ rows[i].tab = d.session[i].tab /\ rows[i].terminal = d.session[i].terminal
  <2>1. /\ rows[i] = [Revised(d.session[i]) EXCEPT !.position = order[i]]
        /\ d.session[i] \in SessionRecords /\ order[i] \in Nat
    BY <1>1
  <2>2. \A r \in SessionRecords : \A p \in Nat :
          /\ [r EXCEPT !.position = p] \in SessionRecords /\ [r EXCEPT !.position = p].state = r.state
          /\ [r EXCEPT !.position = p].revision = r.revision
          /\ [r EXCEPT !.position = p].tab = r.tab
          /\ [r EXCEPT !.position = p].terminal = r.terminal
    BY DEF SessionRecords
  <2>. QED BY <2>1, <2>2, RevisedSession
<1>4. rows \in [Sessions -> SessionRecords] /\ \A i \in Sessions \ ids : rows[i] = d.session[i]
  BY <1>1, <1>3
<1>. HIDE DEF rows
<1>5. Sound(e) /\ Follows(d, e) /\ Kept(d, e)
  <2>1. \A j \in ids : /\ IsMade(d.session[j]) /\ rows[j].state # "none"
                       /\ rows[j].revision = d.session[j].revision + 1
                       /\ rows[j].tab = d.session[j].tab /\ rows[j].terminal = d.session[j].terminal
    BY <1>3 DEF IsMade
  <2>. QED BY <1>2, <1>4, <2>1, SessionsRevised
<1>6. e.session = rows
  BY <1>1, <1>2, <1>4, Typed, RowsOf
<1>7. Visible(e)
  BY <1>3, <1>4, <1>6 DEF Visible
<1>. QED BY <1>5, <1>7

LEMMA ReorderTabsKeeps ==
  ASSUME NEW d, Sound(d), Visible(d), NEW ids \in SUBSET Tabs, NEW order \in [ids -> Nat],
         \A i \in ids : IsMade(d.tab[i]), NEW e, e = Reordered(d, "tab", order)
  PROVE  Sound(e) /\ Visible(e) /\ Follows(d, e) /\ Kept(d, e)
<1>. DEFINE rows == [i \in Tabs |->
              IF i \in ids THEN [Revised(d.tab[i]) EXCEPT !.position = order[i]] ELSE d.tab[i]]
<1>1. d \in Documents /\ \A i \in Tabs : d.tab[i] \in TabRecords
  BY Typed DEF Sound
<1>2. Rows(e, d.session, rows, d.terminal)
  BY <1>1 DEF Reordered, Rows, Documents
<1>3. ASSUME NEW i \in ids
      PROVE  /\ rows[i] \in TabRecords /\ rows[i].state = d.tab[i].state
             /\ rows[i].revision = d.tab[i].revision + 1
             /\ rows[i].session = d.tab[i].session /\ rows[i].terminal = d.tab[i].terminal
  <2>1. /\ rows[i] = [Revised(d.tab[i]) EXCEPT !.position = order[i]]
        /\ d.tab[i] \in TabRecords /\ order[i] \in Nat
    BY <1>1
  <2>2. \A r \in TabRecords : \A p \in Nat :
          /\ [r EXCEPT !.position = p] \in TabRecords /\ [r EXCEPT !.position = p].state = r.state
          /\ [r EXCEPT !.position = p].revision = r.revision
          /\ [r EXCEPT !.position = p].session = r.session
          /\ [r EXCEPT !.position = p].terminal = r.terminal
    BY DEF TabRecords
  <2>. QED BY <2>1, <2>2, RevisedTab
<1>4. rows \in [Tabs -> TabRecords] /\ \A i \in Tabs \ ids : rows[i] = d.tab[i]
  BY <1>1, <1>3
<1>. HIDE DEF rows
<1>5. Sound(e) /\ Follows(d, e) /\ Kept(d, e)
  <2>1. \A j \in ids : /\ IsMade(d.tab[j]) /\ rows[j].state = d.tab[j].state
                       /\ rows[j].revision = d.tab[j].revision + 1
                       /\ rows[j].session = d.tab[j].session /\ rows[j].terminal = d.tab[j].terminal
    BY <1>3 DEF IsMade
  <2>. QED BY <1>2, <1>4, <2>1, TabsRevised
<1>6. e.session = d.session
  BY <1>1, <1>2, <1>4, Typed, RowsOf
<1>7. Visible(e)
  BY <1>3, <1>4, <1>6 DEF Visible
<1>. QED BY <1>5, <1>7

LEMMA ReorderTermsKeeps ==
  ASSUME NEW d, Sound(d), Visible(d), NEW ids \in SUBSET Terms, NEW order \in [ids -> Nat],
         \A i \in ids : IsMade(d.terminal[i]), NEW e, e = Reordered(d, "terminal", order)
  PROVE  Sound(e) /\ Visible(e) /\ Follows(d, e) /\ Kept(d, e)
<1>. DEFINE rows == [i \in Terms |->
              IF i \in ids THEN [Revised(d.terminal[i]) EXCEPT !.position = order[i]] ELSE d.terminal[i]]
<1>1. d \in Documents /\ \A i \in Terms : d.terminal[i] \in TermRecords
  BY Typed DEF Sound
<1>2. Rows(e, d.session, d.tab, rows)
  BY <1>1 DEF Reordered, Rows, Documents
<1>3. ASSUME NEW i \in ids
      PROVE  /\ rows[i] \in TermRecords /\ rows[i].state = d.terminal[i].state
             /\ rows[i].revision = d.terminal[i].revision + 1
             /\ rows[i].session = d.terminal[i].session /\ rows[i].tab = d.terminal[i].tab
  <2>1. /\ rows[i] = [Revised(d.terminal[i]) EXCEPT !.position = order[i]]
        /\ d.terminal[i] \in TermRecords /\ order[i] \in Nat
    BY <1>1
  <2>2. \A r \in TermRecords : \A p \in Nat :
          /\ [r EXCEPT !.position = p] \in TermRecords /\ [r EXCEPT !.position = p].state = r.state
          /\ [r EXCEPT !.position = p].revision = r.revision
          /\ [r EXCEPT !.position = p].session = r.session
          /\ [r EXCEPT !.position = p].tab = r.tab
    BY DEF TermRecords
  <2>. QED BY <2>1, <2>2, RevisedTerm
<1>4. rows \in [Terms -> TermRecords] /\ \A i \in Terms \ ids : rows[i] = d.terminal[i]
  BY <1>1, <1>3
<1>. HIDE DEF rows
<1>5. Sound(e) /\ Follows(d, e) /\ Kept(d, e)
  <2>1. \A j \in ids : /\ IsMade(d.terminal[j]) /\ rows[j].state = d.terminal[j].state
                       /\ rows[j].revision = d.terminal[j].revision + 1
                       /\ rows[j].session = d.terminal[j].session /\ rows[j].tab = d.terminal[j].tab
    BY <1>3 DEF IsMade
  <2>. QED BY <1>2, <1>4, <2>1, TermsRevised
<1>6. e.session = d.session
  BY <1>1, <1>2, <1>4, Typed, RowsOf
<1>7. Visible(e)
  BY <1>3, <1>4, <1>6 DEF Visible
<1>. QED BY <1>5, <1>7

LEMMA RestoreKeeps ==
  ASSUME NEW d, Sound(d), NEW i \in Sessions, IsMade(d.session[i]),
         NEW e, e = [d EXCEPT !.session[i] = [Revised(@) EXCEPT !.state = "open"]]
  PROVE  Sound(e) /\ Visible(e) /\ Follows(d, e) /\ Kept(d, e)
<1>. DEFINE row == [Revised(d.session[i]) EXCEPT !.state = "open"]
            rows == [d.session EXCEPT ![i] = row]
<1>1. d \in Documents /\ d.session[i] \in SessionRecords
  BY Typed DEF Sound
<1>2. Rows(e, rows, d.tab, d.terminal)
  BY <1>1 DEF Rows, Documents
<1>3. /\ row \in SessionRecords /\ row.state = "open" /\ row.revision = d.session[i].revision + 1
      /\ row.tab = d.session[i].tab /\ row.terminal = d.session[i].terminal
  <2>1. \A r \in SessionRecords :
          LET x == [r EXCEPT !.state = "open"] IN
          /\ x \in SessionRecords /\ x.state = "open" /\ x.revision = r.revision
          /\ x.tab = r.tab /\ x.terminal = r.terminal
    BY DEF SessionRecords, States
  <2>. QED BY <1>1, <2>1, RevisedSession
<1>. HIDE DEF row
<1>4. /\ rows \in [Sessions -> SessionRecords] /\ rows[i] = row
      /\ \A j \in Sessions \ {i} : rows[j] = d.session[j]
  BY <1>1, <1>3, Typed
<1>. HIDE DEF rows
<1>5. Sound(e) /\ Follows(d, e) /\ Kept(d, e)
  <2>1. \A j \in {i} : /\ IsMade(d.session[j]) /\ rows[j].state # "none"
                       /\ rows[j].revision = d.session[j].revision + 1
                       /\ rows[j].tab = d.session[j].tab /\ rows[j].terminal = d.session[j].terminal
    BY <1>3, <1>4
  <2>2. {i} \in SUBSET Sessions
    OBVIOUS
  <2>. QED BY <1>2, <1>4, <2>1, <2>2, SessionsRevised
<1>6. e.session = rows
  <2>1. /\ rows \in [Sessions -> SessionRecords] /\ d.tab \in [Tabs -> TabRecords]
        /\ d.terminal \in [Terms -> TermRecords]
    BY <1>1, <1>4, Typed
  <2>. QED BY <1>2, <2>1, RowsOf
<1>. QED BY <1>3, <1>4, <1>5, <1>6 DEF Visible

(* Whatever was made stays made, and of its session.                             *)
LEMMA LaterRows ==
  ASSUME NEW d \in Documents, Made(d), NEW e \in Documents,
         \A s \in Sessions : Later(d.session[s], e.session[s]),
         \A t \in Tabs : Later(d.tab[t], e.tab[t]) /\ e.tab[t].session = d.tab[t].session,
         \A m \in Terms :
            Later(d.terminal[m], e.terminal[m]) /\ e.terminal[m].session = d.terminal[m].session
  PROVE  Made(e) /\ Follows(d, e) /\ Kept(d, e)
<1>1. Made(e)
  BY DEF Made, OfSession, Later
<1>2. Follows(d, e)
  BY DEF Follows, Later
<1>3. \A s \in Sessions : d.session[s].state = "none" => e.session[s].state = "none"
  BY DEF Made, Later, IsMade, IsUnmade
<1>4. \A t \in Tabs : d.tab[t].state = "none" => e.tab[t].state = "none"
  BY DEF Made, OfSession, Later, IsMade, IsUnmade
<1>5. \A m \in Terms : d.terminal[m].state = "none" => e.terminal[m].state = "none"
  BY DEF Made, OfSession, Later, IsMade, IsUnmade
<1>. QED BY <1>1, <1>2, <1>3, <1>4, <1>5, KeptByState

LEMMA LaterRevision ==
  ASSUME NEW a, NEW b, a.revision \in Nat
  PROVE  Later(a, a) /\ (IsMade(a) /\ b.state # "none" /\ b.revision = a.revision + 1 => Later(a, b))
BY DEF Later, IsMade, IsUnmade

(* A session shows another tab of it, or none.                                    *)
LEMMA ShowingKeeps ==
  ASSUME NEW d, Sound(d), Visible(d), NEW s \in Sessions, IsMade(d.session[s]),
         NEW row \in SessionRecords, row.state = d.session[s].state,
         row.revision = d.session[s].revision + 1,
         row.tab = 0 \/ IsTabOf(d, row.tab, s),
         row.terminal # 0 => row.tab # 0 /\ row.terminal = d.tab[row.tab].terminal,
         NEW e, Rows(e, [d.session EXCEPT ![s] = row], d.tab, d.terminal)
  PROVE  Sound(e) /\ Visible(e) /\ Follows(d, e) /\ Kept(d, e)
<1>. DEFINE rows == [d.session EXCEPT ![s] = row]
<1>1. d \in Documents /\ rows \in [Sessions -> SessionRecords]
  BY Typed DEF Sound
<1>2. rows[s] = row /\ \A x \in Sessions \ {s} : rows[x] = d.session[x]
  BY <1>1, Typed
<1>3. e \in Documents /\ e.session = rows /\ e.tab = d.tab /\ e.terminal = d.terminal
  BY <1>1, Typed, RowsOf
<1>. HIDE DEF rows
<1>4. /\ \A t, x : IsTabOf(e, t, x) <=> IsTabOf(d, t, x)
      /\ \A m, t : IsTermOf(e, m, t) <=> IsTermOf(d, m, t)
  BY <1>3 DEF IsTabOf, IsTermOf
<1>5. ASSUME NEW x \in Sessions PROVE SessionShows(e, x)
  <2>1. SessionShows(d, x)
    BY DEF Sound
  <2>2. CASE x = s
    BY <1>2, <1>3, <1>4, <2>1, <2>2 DEF SessionShows, IsMade
  <2>3. CASE x # s
    BY <1>2, <1>3, <1>4, <2>1, <2>3 DEF SessionShows
  <2>. QED BY <2>2, <2>3
<1>6. ASSUME NEW t \in Tabs PROVE TabShows(e, t)
  BY <1>3, <1>4 DEF Sound, TabShows
<1>7. ASSUME NEW m \in Terms PROVE Placed(e, m)
  BY <1>3, <1>4 DEF Sound, Placed
<1>8. Made(e) /\ Follows(d, e) /\ Kept(d, e)
  <2>1. \A x \in Sessions : Later(d.session[x], e.session[x])
    BY <1>1, <1>2, <1>3, Typed, LaterRevision DEF SessionRecords, IsMade
  <2>2. \A t \in Tabs : Later(d.tab[t], e.tab[t])
    BY <1>1, <1>3, Typed, LaterRevision DEF TabRecords
  <2>3. \A m \in Terms : Later(d.terminal[m], e.terminal[m])
    BY <1>1, <1>3, Typed, LaterRevision DEF TermRecords
  <2>. QED BY <1>1, <1>3, <2>1, <2>2, <2>3, LaterRows DEF Sound
<1>9. Visible(e)
  BY <1>2, <1>3 DEF Visible
<1>. QED BY <1>3, <1>5, <1>6, <1>7, <1>8, <1>9 DEF Sound

Pointing(r, t, m) == [Revised(r) EXCEPT !.tab = t, !.terminal = m]

LEMMA PointingRows ==
  ASSUME NEW r \in SessionRecords, NEW t \in Tabs \cup {0}, NEW m \in Terms \cup {0}
  PROVE  /\ Pointing(r, t, m) \in SessionRecords /\ Pointing(r, t, m).state = r.state
         /\ Pointing(r, t, m).revision = r.revision + 1
         /\ Pointing(r, t, m).tab = t /\ Pointing(r, t, m).terminal = m
<1>1. \A q \in SessionRecords :
        LET x == [q EXCEPT !.tab = t, !.terminal = m] IN
        /\ x \in SessionRecords /\ x.state = q.state /\ x.revision = q.revision
        /\ x.tab = t /\ x.terminal = m
  BY DEF SessionRecords
<1>. QED BY <1>1, RevisedSession DEF Pointing

LEMMA SelectTabKeeps ==
  ASSUME NEW d, Sound(d), Visible(d), NEW s \in Sessions, IsMade(d.session[s]),
         NEW t, t = 0 \/ IsTabOf(d, t, s),
         NEW e, e = [d EXCEPT !.session[s] =
                       [Revised(@) EXCEPT !.tab = t,
                                 !.terminal = IF t = 0 THEN 0 ELSE d.tab[t].terminal]]
  PROVE  Sound(e) /\ Visible(e) /\ Follows(d, e) /\ Kept(d, e)
<1>. DEFINE m == IF t = 0 THEN 0 ELSE d.tab[t].terminal
            row == Pointing(d.session[s], t, m)
<1>1. d \in Documents /\ d.session[s] \in SessionRecords
  BY Typed DEF Sound
<1>2. Rows(e, [d.session EXCEPT ![s] = row], d.tab, d.terminal)
  BY <1>1 DEF Rows, Documents, Pointing
<1>3. t \in Tabs \cup {0} /\ m \in Terms \cup {0}
  BY <1>1, Typed DEF IsTabOf, TabRecords
<1>4. m # 0 => t # 0 /\ m = d.tab[t].terminal
  OBVIOUS
<1>. HIDE DEF m
<1>5. /\ row \in SessionRecords /\ row.state = d.session[s].state
      /\ row.revision = d.session[s].revision + 1 /\ row.tab = t /\ row.terminal = m
  BY <1>1, <1>3, PointingRows
<1>. HIDE DEF row
<1>. QED BY <1>2, <1>4, <1>5, ShowingKeeps

LEMMA SelectNoneKeeps ==
  ASSUME NEW d, Sound(d), Visible(d), NEW s \in Sessions, IsMade(d.session[s]),
         NEW e, e = [d EXCEPT !.session[s] = [Revised(@) EXCEPT !.terminal = 0]]
  PROVE  Sound(e) /\ Visible(e) /\ Follows(d, e) /\ Kept(d, e)
<1>. DEFINE row == [Revised(d.session[s]) EXCEPT !.terminal = 0]
<1>1. d \in Documents /\ d.session[s] \in SessionRecords
  BY Typed DEF Sound
<1>2. Rows(e, [d.session EXCEPT ![s] = row], d.tab, d.terminal)
  BY <1>1 DEF Rows, Documents
<1>3. /\ row \in SessionRecords /\ row.state = d.session[s].state
      /\ row.revision = d.session[s].revision + 1 /\ row.tab = d.session[s].tab /\ row.terminal = 0
  <2>1. \A q \in SessionRecords :
          LET x == [q EXCEPT !.terminal = 0] IN
          /\ x \in SessionRecords /\ x.state = q.state /\ x.revision = q.revision
          /\ x.tab = q.tab /\ x.terminal = 0
    BY DEF SessionRecords
  <2>. QED BY <1>1, <2>1, RevisedSession
<1>. HIDE DEF row
<1>4. row.tab = 0 \/ IsTabOf(d, row.tab, s)
  BY <1>3 DEF Sound, SessionShows, IsMade
<1>. QED BY <1>2, <1>3, <1>4, ShowingKeeps

LEMMA SelectInRows ==
  ASSUME NEW d \in Documents, NEW s \in Sessions, NEW m \in Terms, NEW t \in Tabs, d.terminal[m].tab = t,
         NEW e, e = SelectIn(d, s, m)
  PROVE  /\ e \in Documents /\ e.terminal = d.terminal
         /\ \A x \in Sessions \ {s} : e.session[x] = d.session[x]
         /\ \A x \in Tabs \ {t} : e.tab[x] = d.tab[x]
         /\ e.session[s].state = d.session[s].state /\ e.tab[t].state = d.tab[t].state
         /\ e.session[s].revision = d.session[s].revision + 1
         /\ e.tab[t].revision = d.tab[t].revision + 1 /\ e.tab[t].session = d.tab[t].session
         /\ e.session[s].tab = t /\ e.session[s].terminal = m /\ e.tab[t].terminal = m
<1>. DEFINE row == Pointing(d.session[s], t, m)
            tab == [Revised(d.tab[t]) EXCEPT !.terminal = m]
            S == [d.session EXCEPT ![s] = row]
            T == [d.tab EXCEPT ![t] = tab]
<1>1. d.session[s] \in SessionRecords /\ d.tab[t] \in TabRecords
  BY Typed
<1>2. Rows(e, S, T, d.terminal)
  BY DEF Rows, Documents, SelectIn, Pointing
<1>3. /\ row \in SessionRecords /\ row.state = d.session[s].state
      /\ row.revision = d.session[s].revision + 1 /\ row.tab = t /\ row.terminal = m
  BY <1>1, PointingRows
<1>4. /\ tab \in TabRecords /\ tab.state = d.tab[t].state /\ tab.session = d.tab[t].session
      /\ tab.revision = d.tab[t].revision + 1 /\ tab.terminal = m
  <2>1. \A q \in TabRecords :
          LET x == [q EXCEPT !.terminal = m] IN
          /\ x \in TabRecords /\ x.state = q.state /\ x.session = q.session
          /\ x.revision = q.revision /\ x.terminal = m
    BY DEF TabRecords
  <2>. QED BY <1>1, <2>1, RevisedTab
<1>. HIDE DEF row, tab
<1>5. /\ S \in [Sessions -> SessionRecords] /\ S[s] = row
      /\ \A x \in Sessions \ {s} : S[x] = d.session[x]
  BY <1>3, Typed
<1>6. T \in [Tabs -> TabRecords] /\ T[t] = tab /\ \A x \in Tabs \ {t} : T[x] = d.tab[x]
  BY <1>4, Typed
<1>. HIDE DEF S, T
<1>7. e \in Documents /\ e.session = S /\ e.tab = T /\ e.terminal = d.terminal
  <2>1. d.terminal \in [Terms -> TermRecords]
    BY Typed
  <2>. QED BY <1>2, <1>5, <1>6, <2>1, RowsOf
<1>. QED BY <1>3, <1>4, <1>5, <1>6, <1>7

(* All is sound but what a session, and a tab of it, show.                        *)
SoundButShown(d, s, t) ==
    /\ d \in Documents /\ Made(d) /\ IsMade(d.session[s])
    /\ \A x \in Sessions \ {s} : SessionShows(d, x)
    /\ \A x \in Tabs \ {t} : TabShows(d, x)
    /\ \A x \in Terms : Placed(d, x)

(* The terminal that is selected makes good what a move or a new terminal left.    *)
LEMMA SelectInKeeps ==
  ASSUME NEW s \in Sessions, NEW t \in Tabs, NEW d, SoundButShown(d, s, t),
         NEW m \in Terms, IsTermOf(d, m, t), IsTabOf(d, t, s),
         NEW e, e = SelectIn(d, s, m)
  PROVE  Sound(e) /\ Follows(d, e) /\ Kept(d, e) /\ (Visible(d) => Visible(e))
<1>. USE DEF SoundButShown
<1>. DEFINE Became == /\ e \in Documents /\ e.terminal = d.terminal
                      /\ \A x \in Sessions \ {s} : e.session[x] = d.session[x]
                      /\ \A x \in Tabs \ {t} : e.tab[x] = d.tab[x]
                      /\ e.session[s].state = d.session[s].state /\ e.tab[t].state = d.tab[t].state
                      /\ e.session[s].revision = d.session[s].revision + 1
                      /\ e.tab[t].revision = d.tab[t].revision + 1 /\ e.tab[t].session = d.tab[t].session
                      /\ e.session[s].tab = t /\ e.session[s].terminal = m /\ e.tab[t].terminal = m
<1>1. Became
  <2>1. d.terminal[m].tab = t
    BY DEF IsTermOf
  <2>. QED BY <2>1, SelectInRows
<1>2. \A x \in Tabs : e.tab[x].state = d.tab[x].state /\ e.tab[x].session = d.tab[x].session
  BY <1>1
<1>3. /\ \A x, y : IsTabOf(e, x, y) <=> IsTabOf(d, x, y)
      /\ \A x, y : IsTermOf(e, x, y) <=> IsTermOf(d, x, y)
  BY <1>1, <1>2 DEF IsTabOf, IsTermOf
<1>4. ASSUME NEW x \in Sessions PROVE SessionShows(e, x)
  <2>1. CASE x = s
    <3>1. 0 \notin Terms
      BY Numbers
    <3>. QED BY <1>1, <1>3, <2>1, <3>1, Numbers DEF SessionShows
  <2>2. CASE x # s
    <3>1. SessionShows(d, x) /\ e.session[x] = d.session[x]
      BY <1>1, <2>2
    <3>2. \A y : IsTabOf(d, y, x) => e.tab[y] = d.tab[y]
      BY <1>1, <2>2 DEF IsTabOf
    <3>. QED BY <1>3, <3>1, <3>2 DEF SessionShows
  <2>. QED BY <2>1, <2>2
<1>5. ASSUME NEW x \in Tabs PROVE TabShows(e, x)
  <2>1. CASE x = t
    BY <1>1, <1>3, <2>1 DEF TabShows
  <2>2. CASE x # t
    BY <1>1, <1>3, <2>2 DEF TabShows
  <2>. QED BY <2>1, <2>2
<1>6. ASSUME NEW x \in Terms PROVE Placed(e, x)
  BY <1>1, <1>3 DEF Placed
<1>7. Made(e) /\ Follows(d, e) /\ Kept(d, e)
  <2>1. ASSUME NEW x \in Sessions PROVE Later(d.session[x], e.session[x])
    <3>1. d.session[x].revision \in Nat
      BY Typed DEF SessionRecords
    <3>2. x = s => e.session[x].state # "none"
      BY <1>1 DEF IsMade
    <3>. QED BY <1>1, <3>1, <3>2, LaterRevision
  <2>2. ASSUME NEW x \in Tabs PROVE Later(d.tab[x], e.tab[x])
    <3>1. d.tab[x].revision \in Nat
      BY Typed DEF TabRecords
    <3>2. x = t => e.tab[x].state # "none" /\ IsMade(d.tab[x])
      BY <1>1 DEF IsTabOf, Made, OfSession, IsUnmade
    <3>. QED BY <1>1, <3>1, <3>2, LaterRevision
  <2>3. \A x \in Terms : Later(d.terminal[x], e.terminal[x])
    BY <1>1, Typed, LaterRevision DEF TermRecords
  <2>4. e \in Documents /\ e.terminal = d.terminal
    BY <1>1
  <2>. QED BY <1>2, <2>1, <2>2, <2>3, <2>4, LaterRows
<1>8. Visible(d) => Visible(e)
  BY <1>1 DEF Visible
<1>9. e \in Documents
  BY <1>1
<1>. QED BY <1>4, <1>5, <1>6, <1>7, <1>8, <1>9 DEF Sound

LEMMA CountOfTerms ==
  ASSUME NEW d \in Documents, NEW t
  PROVE  Cardinality(OpenTerms(d, t)) \in Nat
<1>1. OpenTerms(d, t) \subseteq Terms
  BY Opened DEF IsTermOf
<1>2. IsFiniteSet(OpenTerms(d, t))
  BY <1>1, Numbers, FS_Subset
<1>. QED BY <1>2, FS_CardinalityType

LEMMA CountOfTabs ==
  ASSUME NEW d \in Documents, NEW s
  PROVE  Cardinality(OpenTabs(d, s)) \in Nat
<1>1. OpenTabs(d, s) \subseteq Tabs
  BY Opened DEF IsTabOf
<1>2. IsFiniteSet(OpenTabs(d, s))
  BY <1>1, Numbers, FS_Subset
<1>. QED BY <1>2, FS_CardinalityType

(* The tab that shows a terminal which leaves it shows its next one.               *)
NextTerm(d, m) == Foremost(d, "terminal", OpenTerms(d, d.terminal[m].tab) \ {m})

LEMMA NextTermOf ==
  ASSUME NEW d \in Documents, NEW m \in Terms
  PROVE  /\ NextTerm(d, m) \in Terms \cup {0}
         /\ NextTerm(d, m) = 0 => \A x \in Terms \ {m} : ~IsTermOf(d, x, d.terminal[m].tab)
         /\ NextTerm(d, m) # 0 => NextTerm(d, m) # m /\ IsTermOf(d, NextTerm(d, m), d.terminal[m].tab)
<1>. DEFINE left == OpenTerms(d, d.terminal[m].tab) \ {m}
<1>1. \A x : x \in left <=> x # m /\ IsTermOf(d, x, d.terminal[m].tab)
  BY Opened
<1>2. left \in SUBSET Terms
  BY <1>1 DEF IsTermOf
<1>3. NextTerm(d, m) = Foremost(d, "terminal", left)
  BY DEF NextTerm
<1>. HIDE DEF left
<1>4. IF left = {} THEN NextTerm(d, m) = 0 ELSE NextTerm(d, m) \in left
  BY <1>2, <1>3, ForemostTerminal
<1>5. 0 \notin Terms
  BY Numbers
<1>. QED BY <1>1, <1>2, <1>4, <1>5

Moving(r, t, p) == [Revised(r) EXCEPT !.tab = t, !.position = p]

LEMMA MovingRows ==
  ASSUME NEW r \in TermRecords, NEW t \in Tabs, NEW p \in Nat
  PROVE  /\ Moving(r, t, p) \in TermRecords /\ Moving(r, t, p).state = r.state
         /\ Moving(r, t, p).revision = r.revision + 1
         /\ Moving(r, t, p).tab = t /\ Moving(r, t, p).session = r.session
<1>1. \A q \in TermRecords :
        LET x == [q EXCEPT !.tab = t, !.position = p] IN
        /\ x \in TermRecords /\ x.state = q.state /\ x.revision = q.revision
        /\ x.tab = t /\ x.session = q.session
  BY DEF TermRecords
<1>. QED BY <1>1, RevisedTerm DEF Moving

(* From the tab, before it is selected in the other.                              *)
Leaving(d, m, t) ==
    [d EXCEPT
       !.terminal[m] = [Revised(@) EXCEPT !.tab = t, !.position = Cardinality(OpenTerms(d, t))],
       !.tab[d.terminal[m].tab] =
           IF @.terminal = m
              THEN [Revised(@) EXCEPT !.terminal = NextTerm(d, m)]
              ELSE Revised(@)]

LEMMA LeavingRows ==
  ASSUME NEW d \in Documents, NEW m \in Terms, NEW t \in Tabs, NEW from \in Tabs,
         d.terminal[m].tab = from, NEW e, e = Leaving(d, m, t)
  PROVE  /\ e \in Documents /\ e.session = d.session
         /\ \A x \in Tabs \ {from} : e.tab[x] = d.tab[x]
         /\ \A x \in Terms \ {m} : e.terminal[x] = d.terminal[x]
         /\ e.tab[from].state = d.tab[from].state /\ e.tab[from].session = d.tab[from].session
         /\ e.tab[from].revision = d.tab[from].revision + 1
         /\ e.tab[from].terminal =
              IF d.tab[from].terminal = m THEN NextTerm(d, m) ELSE d.tab[from].terminal
         /\ e.terminal[m].state = d.terminal[m].state /\ e.terminal[m].session = d.terminal[m].session
         /\ e.terminal[m].revision = d.terminal[m].revision + 1 /\ e.terminal[m].tab = t
<1>. DEFINE p == Cardinality(OpenTerms(d, t))
            row == Moving(d.terminal[m], t, p)
            tab == IF d.tab[from].terminal = m THEN [Revised(d.tab[from]) EXCEPT !.terminal = NextTerm(d, m)]
                   ELSE Revised(d.tab[from])
            T == [d.tab EXCEPT ![from] = tab]
            M == [d.terminal EXCEPT ![m] = row]
<1>1. d.terminal[m] \in TermRecords /\ d.tab[from] \in TabRecords
  BY Typed
<1>2. Rows(e, d.session, T, M)
  BY DEF Rows, Documents, Leaving, Moving
<1>3. /\ row \in TermRecords /\ row.state = d.terminal[m].state /\ row.session = d.terminal[m].session
      /\ row.revision = d.terminal[m].revision + 1 /\ row.tab = t
  <2>1. p \in Nat
    BY CountOfTerms
  <2>. HIDE DEF p
  <2>. QED BY <1>1, <2>1, MovingRows
<1>4. /\ tab \in TabRecords /\ tab.state = d.tab[from].state /\ tab.session = d.tab[from].session
      /\ tab.revision = d.tab[from].revision + 1
      /\ tab.terminal = IF d.tab[from].terminal = m THEN NextTerm(d, m) ELSE d.tab[from].terminal
  <2>1. \A q \in TabRecords : \A n \in Terms \cup {0} :
          LET x == [q EXCEPT !.terminal = n] IN
          /\ x \in TabRecords /\ x.state = q.state /\ x.session = q.session
          /\ x.revision = q.revision /\ x.terminal = n
    BY DEF TabRecords
  <2>2. NextTerm(d, m) \in Terms \cup {0}
    BY NextTermOf
  <2>. QED BY <1>1, <2>1, <2>2, RevisedTab
<1>. HIDE DEF row, tab
<1>5. M \in [Terms -> TermRecords] /\ M[m] = row /\ \A x \in Terms \ {m} : M[x] = d.terminal[x]
  BY <1>3, Typed
<1>6. T \in [Tabs -> TabRecords] /\ T[from] = tab /\ \A x \in Tabs \ {from} : T[x] = d.tab[x]
  BY <1>4, Typed
<1>. HIDE DEF T, M
<1>7. e \in Documents /\ e.session = d.session /\ e.tab = T /\ e.terminal = M
  <2>1. d.session \in [Sessions -> SessionRecords]
    BY Typed
  <2>. QED BY <1>2, <1>5, <1>6, <2>1, RowsOf
<1>. QED BY <1>3, <1>4, <1>5, <1>6, <1>7

LEMMA MovedTermKeeps ==
  ASSUME NEW d, Sound(d), Visible(d), NEW m \in Terms, d.terminal[m].state = "open",
         NEW t \in Tabs, IsTabOf(d, t, d.terminal[m].session), NEW e, e = MovedTerm(d, m, t)
  PROVE  Sound(e) /\ Visible(e) /\ Follows(d, e) /\ Kept(d, e)
<1>1. d \in Documents
  BY DEF Sound
<1>2. CASE t = d.terminal[m].tab
  <2>1. e = d
    BY <1>2 DEF MovedTerm
  <2>. QED BY <1>1, <2>1, AlikeItself, AlikeKeeps
<1>3. CASE t # d.terminal[m].tab
  <2>. DEFINE s == d.terminal[m].session
              from == d.terminal[m].tab
              mid == Leaving(d, m, t)
  <2>1. e = SelectIn(mid, s, m)
    BY <1>3 DEF MovedTerm, Leaving, NextTerm
  <2>2. from \in Tabs /\ IsTabOf(d, from, s) /\ s \in Sessions /\ IsMade(d.session[s])
    BY DEF Sound, Placed, IsTabOf, Made, OfSession, IsUnmade
  <2>3. /\ mid \in Documents /\ mid.session = d.session
        /\ \A x \in Tabs \ {from} : mid.tab[x] = d.tab[x]
        /\ \A x \in Terms \ {m} : mid.terminal[x] = d.terminal[x]
        /\ mid.tab[from].state = d.tab[from].state /\ mid.tab[from].session = d.tab[from].session
        /\ mid.tab[from].revision = d.tab[from].revision + 1
        /\ mid.tab[from].terminal =
              IF d.tab[from].terminal = m THEN NextTerm(d, m) ELSE d.tab[from].terminal
        /\ mid.terminal[m].state = d.terminal[m].state /\ mid.terminal[m].session = d.terminal[m].session
        /\ mid.terminal[m].revision = d.terminal[m].revision + 1 /\ mid.terminal[m].tab = t
    <3>. HIDE DEF mid
    <3>1. mid = Leaving(d, m, t)
      BY DEF mid
    <3>2. d.terminal[m].tab = from /\ from \in Tabs
      BY <2>2
    <3>. HIDE DEF from
    <3>. QED BY <1>1, <3>1, <3>2, LeavingRows
  <2>. HIDE DEF mid
  <2>4. \A x, y : IsTabOf(mid, x, y) <=> IsTabOf(d, x, y)
    BY <2>3 DEF IsTabOf
  <2>5. /\ \A x, y : x # m => (IsTermOf(mid, x, y) <=> IsTermOf(d, x, y))
        /\ \A y : IsTermOf(mid, m, y) <=> y = t
    BY <2>3 DEF IsTermOf
  <2>6. ASSUME NEW x \in Sessions \ {s} PROVE SessionShows(mid, x)
    <3>1. SessionShows(d, x)
      BY DEF Sound
    <3>2. \A y : IsTabOf(d, y, x) => mid.tab[y] = d.tab[y]
      BY <2>2, <2>3 DEF IsTabOf
    <3>. QED BY <2>3, <2>4, <3>1, <3>2 DEF SessionShows
  <2>7. ASSUME NEW x \in Tabs \ {t} PROVE TabShows(mid, x)
    <3>1. TabShows(d, x)
      BY DEF Sound
    <3>2. CASE x = from
      <4>1. /\ NextTerm(d, m) = 0 => \A y \in Terms \ {m} : ~IsTermOf(d, y, from)
            /\ NextTerm(d, m) # 0 => NextTerm(d, m) # m /\ IsTermOf(d, NextTerm(d, m), from)
        BY <1>1, NextTermOf
      <4>2. IsTermOf(d, m, from)
        BY DEF IsTermOf
      <4>. HIDE DEF from
      <4>3. CASE d.tab[x].terminal = m
        BY <2>3, <2>5, <3>2, <4>1, <4>3 DEF TabShows
      <4>4. CASE d.tab[x].terminal # m
        BY <2>3, <2>5, <3>1, <3>2, <4>2, <4>4 DEF TabShows
      <4>. QED BY <4>3, <4>4
    <3>3. CASE x # from
      <4>1. ~IsTermOf(d, m, x) /\ mid.tab[x] = d.tab[x]
        BY <2>3, <3>3 DEF IsTermOf
      <4>. QED BY <2>5, <3>1, <4>1 DEF TabShows
    <3>. QED BY <3>2, <3>3
  <2>8. ASSUME NEW x \in Terms PROVE Placed(mid, x)
    BY <2>3, <2>4 DEF Sound, Placed
  <2>9. Made(mid) /\ Follows(d, mid) /\ Kept(d, mid)
    <3>1. \A x \in Sessions : Later(d.session[x], mid.session[x])
      BY <1>1, <2>3, Typed, LaterRevision DEF SessionRecords
    <3>2. ASSUME NEW x \in Tabs
          PROVE  Later(d.tab[x], mid.tab[x]) /\ mid.tab[x].session = d.tab[x].session
      <4>1. d.tab[x].revision \in Nat
        BY <1>1, Typed DEF TabRecords
      <4>2. x = from => mid.tab[x].state # "none" /\ IsMade(d.tab[x])
        BY <2>2, <2>3 DEF IsTabOf, Sound, Made, OfSession, IsUnmade
      <4>. QED BY <2>3, <4>1, <4>2, LaterRevision
    <3>3. ASSUME NEW x \in Terms
          PROVE  Later(d.terminal[x], mid.terminal[x]) /\ mid.terminal[x].session = d.terminal[x].session
      <4>1. d.terminal[x].revision \in Nat
        BY <1>1, Typed DEF TermRecords
      <4>2. x = m => mid.terminal[x].state # "none" /\ IsMade(d.terminal[x])
        BY <2>3 DEF Sound, Made, OfSession, IsUnmade
      <4>. QED BY <2>3, <4>1, <4>2, LaterRevision
    <3>. QED BY <1>1, <2>3, <3>1, <3>2, <3>3, LaterRows DEF Sound
  <2>10. /\ IsTermOf(mid, m, t) /\ IsTabOf(mid, t, s) /\ IsMade(mid.session[s]) /\ Visible(mid)
    BY <2>2, <2>3, <2>4, <2>5 DEF Visible
  <2>11. Sound(e) /\ Follows(mid, e) /\ Kept(mid, e) /\ Visible(e)
    <3>. HIDE DEF s
    <3>1. SoundButShown(mid, s, t)
      BY <2>3, <2>6, <2>7, <2>8, <2>9, <2>10 DEF SoundButShown
    <3>. QED BY <2>1, <2>2, <2>10, <3>1, SelectInKeeps
  <2>12. e \in Documents /\ mid \in Documents
    BY <2>3, <2>11 DEF Sound
  <2>. QED BY <2>9, <2>11, <2>12, FollowsThrough
<1>. QED BY <1>2, <1>3

LEMMA ArchivedSessionRow ==
  ASSUME NEW r \in SessionRecords
  PROVE  /\ Archived(r) \in SessionRecords /\ Archived(r).state = "archived"
         /\ Archived(r).revision = r.revision + 1
         /\ Archived(r).tab = r.tab /\ Archived(r).terminal = r.terminal
<1>1. \A q \in SessionRecords :
        LET x == [q EXCEPT !.state = "archived"] IN
        /\ x \in SessionRecords /\ x.state = "archived" /\ x.revision = q.revision
        /\ x.tab = q.tab /\ x.terminal = q.terminal
  BY DEF SessionRecords, States
<1>. QED BY <1>1, RevisedSession DEF Archived

LEMMA ArchivedTabRow ==
  ASSUME NEW r \in TabRecords
  PROVE  /\ Archived(r) \in TabRecords /\ Archived(r).state = "archived"
         /\ Archived(r).revision = r.revision + 1 /\ Archived(r).session = r.session
<1>1. \A q \in TabRecords :
        LET x == [q EXCEPT !.state = "archived"] IN
        /\ x \in TabRecords /\ x.state = "archived" /\ x.revision = q.revision /\ x.session = q.session
  BY DEF TabRecords, States
<1>. QED BY <1>1, RevisedTab DEF Archived

LEMMA ArchivedTermRow ==
  ASSUME NEW r \in TermRecords
  PROVE  /\ Archived(r) \in TermRecords /\ Archived(r).state = "archived"
         /\ Archived(r).revision = r.revision + 1 /\ Archived(r).session = r.session
<1>1. \A q \in TermRecords :
        LET x == [q EXCEPT !.state = "archived"] IN
        /\ x \in TermRecords /\ x.state = "archived" /\ x.revision = q.revision /\ x.session = q.session
  BY DEF TermRecords, States
<1>. QED BY <1>1, RevisedTerm DEF Archived

(* A session or a tab once a terminal that it may show is closed.                 *)
Shown(r, m, next) == IF r.terminal = m THEN [Revised(r) EXCEPT !.terminal = next] ELSE r

LEMMA ShownSession ==
  ASSUME NEW r \in SessionRecords, NEW m, NEW n \in Terms \cup {0}
  PROVE  /\ Shown(r, m, n) \in SessionRecords /\ Shown(r, m, n).state = r.state
         /\ Shown(r, m, n).tab = r.tab
         /\ Shown(r, m, n).terminal = IF r.terminal = m THEN n ELSE r.terminal
         /\ Shown(r, m, n).revision = IF r.terminal = m THEN r.revision + 1 ELSE r.revision
<1>1. \A q \in SessionRecords :
        LET x == [q EXCEPT !.terminal = n] IN
        /\ x \in SessionRecords /\ x.state = q.state /\ x.revision = q.revision
        /\ x.tab = q.tab /\ x.terminal = n
  BY DEF SessionRecords
<1>. QED BY <1>1, RevisedSession DEF Shown

LEMMA ShownTab ==
  ASSUME NEW r \in TabRecords, NEW m, NEW n \in Terms \cup {0}
  PROVE  /\ Shown(r, m, n) \in TabRecords /\ Shown(r, m, n).state = r.state
         /\ Shown(r, m, n).session = r.session
         /\ Shown(r, m, n).terminal = IF r.terminal = m THEN n ELSE r.terminal
         /\ Shown(r, m, n).revision = IF r.terminal = m THEN r.revision + 1 ELSE r.revision
<1>1. \A q \in TabRecords :
        LET x == [q EXCEPT !.terminal = n] IN
        /\ x \in TabRecords /\ x.state = q.state /\ x.revision = q.revision
        /\ x.session = q.session /\ x.terminal = n
  BY DEF TabRecords
<1>. QED BY <1>1, RevisedTab DEF Shown

LEMMA WithoutTermRows ==
  ASSUME NEW d \in Documents, NEW m \in Terms, d.terminal[m].state = "open",
         NEW t \in Tabs, d.terminal[m].tab = t, NEW s \in Sessions, d.terminal[m].session = s,
         NEW e, e = WithoutTerm(d, m)
  PROVE  /\ e \in Documents
         /\ \A x \in Sessions \ {s} : e.session[x] = d.session[x]
         /\ \A x \in Tabs \ {t} : e.tab[x] = d.tab[x]
         /\ \A x \in Terms \ {m} : e.terminal[x] = d.terminal[x]
         /\ e.session[s] = Shown(d.session[s], m, NextTerm(d, m))
         /\ e.tab[t] = Shown(d.tab[t], m, NextTerm(d, m))
         /\ e.terminal[m] = Archived(d.terminal[m])
<1>. DEFINE row == Shown(d.session[s], m, NextTerm(d, m))
            tab == Shown(d.tab[t], m, NextTerm(d, m))
            S == [d.session EXCEPT ![s] = row]
            T == [d.tab EXCEPT ![t] = tab]
            M == [d.terminal EXCEPT ![m] = Archived(d.terminal[m])]
<1>1. d.session[s] \in SessionRecords /\ d.tab[t] \in TabRecords /\ d.terminal[m] \in TermRecords
  BY Typed
<1>2. Rows(e, S, T, M)
  BY DEF Rows, Documents, WithoutTerm, Shown, NextTerm
<1>3. row \in SessionRecords /\ tab \in TabRecords
  <2>1. NextTerm(d, m) \in Terms \cup {0}
    BY NextTermOf
  <2>. QED BY <1>1, <2>1, ShownSession, ShownTab
<1>. HIDE DEF row, tab
<1>4. /\ S \in [Sessions -> SessionRecords] /\ S[s] = row
      /\ \A x \in Sessions \ {s} : S[x] = d.session[x]
  BY <1>3, Typed
<1>5. T \in [Tabs -> TabRecords] /\ T[t] = tab /\ \A x \in Tabs \ {t} : T[x] = d.tab[x]
  BY <1>3, Typed
<1>6. /\ M \in [Terms -> TermRecords] /\ M[m] = Archived(d.terminal[m])
      /\ \A x \in Terms \ {m} : M[x] = d.terminal[x]
  BY <1>1, Typed, ArchivedTermRow
<1>. HIDE DEF S, T, M
<1>7. e \in Documents /\ e.session = S /\ e.tab = T /\ e.terminal = M
  BY <1>2, <1>4, <1>5, <1>6, RowsOf
<1>. QED BY <1>4, <1>5, <1>6, <1>7 DEF row, tab

LEMMA WithoutTermKeeps ==
  ASSUME NEW d, Sound(d), Visible(d), NEW m \in Terms, IsMade(d.terminal[m]),
         NEW e, e = WithoutTerm(d, m)
  PROVE  Sound(e) /\ Visible(e) /\ Follows(d, e) /\ Kept(d, e)
<1>1. d \in Documents
  BY DEF Sound
<1>2. CASE d.terminal[m].state # "open"
  <2>1. d.terminal[m].state = "archived"
    BY <1>1, <1>2, Typed DEF IsMade, TermRecords, States
  <2>2. e = d
    BY <2>1 DEF WithoutTerm
  <2>. QED BY <1>1, <2>2, AlikeItself, AlikeKeeps
<1>3. CASE d.terminal[m].state = "open"
  <2>. DEFINE s == d.terminal[m].session
              t == d.terminal[m].tab
              n == NextTerm(d, m)
  <2>1. IsTabOf(d, t, s) /\ t \in Tabs /\ s \in Sessions /\ IsMade(d.session[s]) /\ IsTermOf(d, m, t)
    BY <1>3 DEF Sound, Placed, IsTabOf, IsTermOf, Made, OfSession, IsUnmade
  <2>2. /\ n \in Terms \cup {0}
        /\ n = 0 => \A x \in Terms \ {m} : ~IsTermOf(d, x, t)
        /\ n # 0 => n # m /\ IsTermOf(d, n, t)
    BY <1>1, NextTermOf
  <2>3. /\ e \in Documents
        /\ \A x \in Sessions \ {s} : e.session[x] = d.session[x]
        /\ \A x \in Tabs \ {t} : e.tab[x] = d.tab[x]
        /\ \A x \in Terms \ {m} : e.terminal[x] = d.terminal[x]
        /\ e.session[s] = Shown(d.session[s], m, n) /\ e.tab[t] = Shown(d.tab[t], m, n)
        /\ e.terminal[m] = Archived(d.terminal[m])
    <3>1. d.terminal[m].session = s /\ d.terminal[m].tab = t
      OBVIOUS
    <3>. HIDE DEF s, t
    <3>. QED BY <1>1, <1>3, <2>1, <3>1, WithoutTermRows
  <2>. HIDE DEF s, t, n
  <2>4. /\ e.session[s].state = d.session[s].state /\ e.session[s].tab = d.session[s].tab
        /\ e.session[s].terminal = IF d.session[s].terminal = m THEN n ELSE d.session[s].terminal
        /\ \/ e.session[s].revision = d.session[s].revision + 1
           \/ e.session[s] = d.session[s]
    <3>1. d.session[s] \in SessionRecords
      BY <1>1, <2>1, Typed
    <3>2. d.session[s].terminal # m => e.session[s] = d.session[s]
      BY <2>3 DEF Shown
    <3>. QED BY <2>2, <2>3, <3>1, <3>2, ShownSession
  <2>5. /\ e.tab[t].state = d.tab[t].state /\ e.tab[t].session = d.tab[t].session
        /\ e.tab[t].terminal = IF d.tab[t].terminal = m THEN n ELSE d.tab[t].terminal
        /\ \/ e.tab[t].revision = d.tab[t].revision + 1
           \/ e.tab[t] = d.tab[t]
    <3>1. d.tab[t] \in TabRecords
      BY <1>1, <2>1, Typed
    <3>2. d.tab[t].terminal # m => e.tab[t] = d.tab[t]
      BY <2>3 DEF Shown
    <3>. QED BY <2>2, <2>3, <3>1, <3>2, ShownTab
  <2>6. /\ e.terminal[m].state = "archived" /\ e.terminal[m].session = s
        /\ e.terminal[m].revision = d.terminal[m].revision + 1
    <3>1. d.terminal[m] \in TermRecords /\ d.terminal[m].session = s
      BY <1>1, Typed DEF s
    <3>. QED BY <2>3, <3>1, ArchivedTermRow
  <2>7. \A x, y : IsTabOf(e, x, y) <=> IsTabOf(d, x, y)
    BY <2>3, <2>5 DEF IsTabOf
  <2>8. \A x, y : IsTermOf(e, x, y) <=> IsTermOf(d, x, y) /\ x # m
    BY <2>3, <2>6 DEF IsTermOf
  <2>9. ASSUME NEW x \in Sessions PROVE SessionShows(e, x)
    <3>1. SessionShows(d, x)
      BY DEF Sound
    <3>2. CASE x = s
      <4>1. ASSUME d.session[s].terminal = m
            PROVE  d.session[s].tab = t /\ d.tab[t].terminal = m
        <5>. DEFINE y == d.session[s].tab
        <5>1. m # 0
          BY Numbers
        <5>2. IsTabOf(d, y, s) /\ d.tab[y].terminal = m
          BY <2>1, <3>1, <3>2, <4>1, <5>1 DEF SessionShows, IsMade
        <5>3. IsTermOf(d, m, y)
          BY <5>1, <5>2 DEF Sound, TabShows, IsTabOf
        <5>. QED BY <2>1, <5>2, <5>3 DEF IsTermOf
      <4>2. d.session[s].terminal # 0 => d.session[s].tab # 0
        BY <2>1, <3>1, <3>2 DEF SessionShows, IsMade
      <4>3. CASE d.session[s].terminal = m
        BY <2>4, <2>5, <2>7, <3>1, <3>2, <4>1, <4>3, Numbers DEF SessionShows
      <4>4. CASE d.session[s].terminal # m
        <5>1. d.session[s].tab # 0 => e.tab[d.session[s].tab].terminal = d.tab[d.session[s].tab].terminal
                 \/ d.tab[d.session[s].tab].terminal = m
          BY <2>1, <2>3, <2>5, <3>1, <3>2 DEF SessionShows, IsMade, IsTabOf
        <5>. QED BY <2>4, <2>7, <3>1, <3>2, <4>2, <4>4, <5>1 DEF SessionShows
      <4>. QED BY <4>3, <4>4
    <3>3. CASE x # s
      <4>1. e.session[x] = d.session[x]
        BY <2>3, <3>3
      <4>2. \A y : IsTabOf(d, y, x) => e.tab[y] = d.tab[y]
        BY <2>1, <2>3, <3>3 DEF IsTabOf
      <4>. QED BY <2>7, <3>1, <4>1, <4>2 DEF SessionShows
    <3>. QED BY <3>2, <3>3
  <2>10. ASSUME NEW x \in Tabs PROVE TabShows(e, x)
    <3>1. TabShows(d, x)
      BY DEF Sound
    <3>2. CASE x = t
      <4>1. CASE d.tab[t].terminal = m
        BY <2>2, <2>5, <2>8, <3>2, <4>1 DEF TabShows
      <4>2. CASE d.tab[t].terminal # m
        BY <2>1, <2>5, <2>8, <3>1, <3>2, <4>2 DEF TabShows
      <4>. QED BY <4>1, <4>2
    <3>3. CASE x # t
      <4>1. ~IsTermOf(d, m, x) /\ e.tab[x] = d.tab[x]
        BY <2>1, <2>3, <3>3 DEF IsTermOf
      <4>. QED BY <2>8, <3>1, <4>1 DEF TabShows
    <3>. QED BY <3>2, <3>3
  <2>11. ASSUME NEW x \in Terms PROVE Placed(e, x)
    BY <2>3, <2>6, <2>7 DEF Sound, Placed
  <2>12. Made(e) /\ Follows(d, e) /\ Kept(d, e)
    <3>1. ASSUME NEW x \in Sessions PROVE Later(d.session[x], e.session[x])
      <4>1. d.session[x].revision \in Nat
        BY <1>1, Typed DEF SessionRecords
      <4>2. x = s => e.session[x].state # "none" /\ IsMade(d.session[x])
        BY <2>1, <2>4 DEF IsMade
      <4>. QED BY <2>3, <2>4, <4>1, <4>2, LaterRevision
    <3>2. ASSUME NEW x \in Tabs
          PROVE  Later(d.tab[x], e.tab[x]) /\ e.tab[x].session = d.tab[x].session
      <4>1. d.tab[x].revision \in Nat
        BY <1>1, Typed DEF TabRecords
      <4>2. x = t => e.tab[x].state # "none" /\ IsMade(d.tab[x])
        BY <2>1, <2>5 DEF IsTabOf, Sound, Made, OfSession, IsUnmade
      <4>. QED BY <2>3, <2>5, <4>1, <4>2, LaterRevision
    <3>3. ASSUME NEW x \in Terms
          PROVE  Later(d.terminal[x], e.terminal[x]) /\ e.terminal[x].session = d.terminal[x].session
      <4>1. d.terminal[x].revision \in Nat
        BY <1>1, Typed DEF TermRecords
      <4>2. d.terminal[m].session = s
        BY DEF s
      <4>. QED BY <2>3, <2>6, <4>1, <4>2, LaterRevision
    <3>. QED BY <1>1, <2>3, <3>1, <3>2, <3>3, LaterRows DEF Sound
  <2>13. Visible(e)
    BY <2>3, <2>4 DEF Visible
  <2>. QED BY <2>3, <2>9, <2>10, <2>11, <2>12, <2>13 DEF Sound
<1>. QED BY <1>2, <1>3

(* One thing of each kind may be new.                                             *)
New(a, b) == IsUnmade(a) /\ IsMade(b)

LEMMA GrownRows ==
  ASSUME NEW d \in Documents, Made(d), NEW e \in Documents, NEW i, NEW j, NEW k,
         \A s \in Sessions :
            Later(d.session[s], e.session[s]) \/ (s = i /\ New(d.session[s], e.session[s])),
         \A t \in Tabs :
            \/ Later(d.tab[t], e.tab[t]) /\ e.tab[t].session = d.tab[t].session
            \/ t = j /\ New(d.tab[t], e.tab[t]) /\ OfSession(e, e.tab[t]),
         \A m \in Terms :
            \/ Later(d.terminal[m], e.terminal[m]) /\ e.terminal[m].session = d.terminal[m].session
            \/ m = k /\ New(d.terminal[m], e.terminal[m]) /\ OfSession(e, e.terminal[m])
  PROVE  Made(e) /\ Follows(d, e) /\ OneMore(d, e)
<1>1. \A s \in Sessions : IsMade(d.session[s]) => IsMade(e.session[s])
  BY DEF Later, New, IsMade, IsUnmade
<1>2. Made(e)
  <2>1. ASSUME NEW s \in Sessions PROVE IsMade(e.session[s]) \/ IsUnmade(e.session[s])
    BY DEF Made, Later, New
  <2>2. ASSUME NEW t \in Tabs PROVE OfSession(e, e.tab[t])
    BY <1>1 DEF Made, OfSession, Later
  <2>3. ASSUME NEW m \in Terms PROVE OfSession(e, e.terminal[m])
    BY <1>1 DEF Made, OfSession, Later
  <2>. QED BY <2>1, <2>2, <2>3 DEF Made
<1>3. Follows(d, e)
  <2>1. ASSUME NEW s \in Sessions PROVE d.session[s].revision <= e.session[s].revision
    BY Typed DEF Later, New, IsUnmade, SessionRecords
  <2>2. ASSUME NEW t \in Tabs PROVE d.tab[t].revision <= e.tab[t].revision
    BY Typed DEF Later, New, IsUnmade, TabRecords
  <2>3. ASSUME NEW m \in Terms
        PROVE  /\ d.terminal[m].revision <= e.terminal[m].revision
               /\ IsMade(d.terminal[m]) => e.terminal[m].session = d.terminal[m].session
    BY Typed DEF Later, New, IsMade, IsUnmade, TermRecords
  <2>. QED BY <2>1, <2>2, <2>3 DEF Follows
<1>4. Unused(d.session) \subseteq Unused(e.session) \cup {i}
  <2>1. \A s \in Sessions : d.session[s].state = "none" => e.session[s].state = "none" \/ s = i
    BY DEF Made, Later, IsMade, IsUnmade
  <2>. QED BY <2>1, UnusedRows
<1>5. Unused(d.tab) \subseteq Unused(e.tab) \cup {j}
  <2>1. \A t \in Tabs : d.tab[t].state = "none" => e.tab[t].state = "none" \/ t = j
    BY DEF Made, OfSession, Later, IsMade, IsUnmade
  <2>. QED BY <2>1, UnusedRows
<1>6. Unused(d.terminal) \subseteq Unused(e.terminal) \cup {k}
  <2>1. \A m \in Terms : d.terminal[m].state = "none" => e.terminal[m].state = "none" \/ m = k
    BY DEF Made, OfSession, Later, IsMade, IsUnmade
  <2>. QED BY <2>1, UnusedRows
<1>. QED BY <1>2, <1>3, <1>4, <1>5, <1>6 DEF OneMore, Fewer

LEMMA NewTabRow ==
  ASSUME NEW s \in Sessions, NEW p \in Nat
  PROVE  /\ NewTab(s, p) \in TabRecords /\ NewTab(s, p).state = "open" /\ NewTab(s, p).session = s
         /\ NewTab(s, p).terminal = 0 /\ NewTab(s, p).revision = 1
BY DEF NewTab, TabRecords, States

(* What nothing had before, nothing points to.                                    *)
LEMMA NothingOfUnmade ==
  ASSUME NEW d, Sound(d)
  PROVE  /\ \A s \in Sessions : IsUnmade(d.session[s]) => \A t : ~IsTabOf(d, t, s)
         /\ \A t \in Tabs : IsUnmade(d.tab[t]) => \A m : ~IsTermOf(d, m, t)
<1>1. ASSUME NEW s \in Sessions, IsUnmade(d.session[s]), NEW t PROVE ~IsTabOf(d, t, s)
  BY <1>1 DEF Sound, Made, OfSession, IsTabOf, IsMade, IsUnmade
<1>2. ASSUME NEW t \in Tabs, IsUnmade(d.tab[t]), NEW m PROVE ~IsTermOf(d, m, t)
  BY <1>2 DEF Sound, Placed, IsTabOf, IsTermOf, IsUnmade
<1>. QED BY <1>1, <1>2

LEMMA CountOfSessions ==
  ASSUME NEW d \in Documents
  PROVE  Cardinality(Open(d, "session")) \in Nat
<1>1. Open(d, "session") \subseteq Sessions
  BY Opened
<1>2. IsFiniteSet(Open(d, "session"))
  BY <1>1, Numbers, FS_Subset
<1>. QED BY <1>2, FS_CardinalityType

LEMMA WithSessionRows ==
  ASSUME NEW d \in Documents, NEW s \in Sessions, s = Fresh(d, "session"),
         NEW t \in Tabs, t = Fresh(d, "tab"), NEW e, e = WithSession(d)
  PROVE  /\ e \in Documents /\ e.terminal = d.terminal
         /\ \A x \in Sessions \ {s} : e.session[x] = d.session[x]
         /\ \A x \in Tabs \ {t} : e.tab[x] = d.tab[x]
         /\ e.session[s].state = "open" /\ e.session[s].tab = t /\ e.session[s].terminal = 0
         /\ e.session[s].revision = 2
         /\ e.tab[t] = NewTab(s, 0)
<1>. DEFINE p == Cardinality(Open(d, "session"))
            row == [state |-> "open", position |-> p, tab |-> t, terminal |-> 0, revision |-> 2]
            S == [d.session EXCEPT ![s] = row]
            T == [d.tab EXCEPT ![t] = NewTab(s, 0)]
<1>1. Rows(e, S, T, d.terminal)
  BY DEF Rows, Documents, WithSession
<1>2. row \in SessionRecords
  <2>1. p \in Nat
    BY CountOfSessions
  <2>. HIDE DEF p
  <2>. QED BY <2>1 DEF SessionRecords, States
<1>3. row.state = "open" /\ row.tab = t /\ row.terminal = 0 /\ row.revision = 2
  OBVIOUS
<1>. HIDE DEF row
<1>4. /\ S \in [Sessions -> SessionRecords] /\ S[s] = row
      /\ \A x \in Sessions \ {s} : S[x] = d.session[x]
  BY <1>2, Typed
<1>5. /\ T \in [Tabs -> TabRecords] /\ T[t] = NewTab(s, 0)
      /\ \A x \in Tabs \ {t} : T[x] = d.tab[x]
  BY Typed, NewTabRow
<1>. HIDE DEF S, T
<1>6. e \in Documents /\ e.session = S /\ e.tab = T /\ e.terminal = d.terminal
  <2>1. d.terminal \in [Terms -> TermRecords]
    BY Typed
  <2>. QED BY <1>1, <1>4, <1>5, <2>1, RowsOf
<1>. QED BY <1>3, <1>4, <1>5, <1>6

LEMMA WithSessionKeeps ==
  ASSUME NEW d, Sound(d), Unused(d.session) # {}, Unused(d.tab) # {}, NEW e, e = WithSession(d)
  PROVE  Sound(e) /\ Visible(e) /\ Follows(d, e) /\ OneMore(d, e)
<1>. DEFINE s == Fresh(d, "session")
            t == Fresh(d, "tab")
<1>1. d \in Documents
  BY DEF Sound
<1>2. s \in Sessions /\ t \in Tabs /\ IsUnmade(d.session[s]) /\ IsUnmade(d.tab[t])
  <2>1. s \in Sessions /\ d.session[s].state = "none" /\ t \in Tabs /\ d.tab[t].state = "none"
    BY <1>1, FreshSession, FreshTab
  <2>. HIDE DEF s, t
  <2>. QED BY <2>1 DEF Sound, Made, OfSession, IsMade, IsUnmade
<1>3. /\ e \in Documents /\ e.terminal = d.terminal
      /\ \A x \in Sessions \ {s} : e.session[x] = d.session[x]
      /\ \A x \in Tabs \ {t} : e.tab[x] = d.tab[x]
      /\ e.session[s].state = "open" /\ e.session[s].tab = t /\ e.session[s].terminal = 0
      /\ e.session[s].revision = 2
      /\ e.tab[t] = NewTab(s, 0)
  <2>1. s = Fresh(d, "session") /\ t = Fresh(d, "tab")
    OBVIOUS
  <2>. HIDE DEF s, t
  <2>. QED BY <1>1, <1>2, <2>1, WithSessionRows
<1>. HIDE DEF s, t
<1>4. /\ NewTab(s, 0).state = "open" /\ NewTab(s, 0).session = s
      /\ NewTab(s, 0).terminal = 0 /\ NewTab(s, 0).revision = 1
  BY <1>2, NewTabRow
<1>5. \A x, y : IsTabOf(e, x, y) <=> IsTabOf(d, x, y) \/ (x = t /\ y = s)
  BY <1>2, <1>3, <1>4 DEF IsTabOf, IsUnmade
<1>6. \A x, y : IsTermOf(e, x, y) <=> IsTermOf(d, x, y)
  BY <1>3 DEF IsTermOf
<1>7. ASSUME NEW x \in Sessions PROVE SessionShows(e, x)
  <2>1. CASE x = s
    BY <1>2, <1>3, <1>5, <2>1 DEF SessionShows
  <2>2. CASE x # s
    <3>1. SessionShows(d, x) /\ e.session[x] = d.session[x]
      BY <1>3, <2>2 DEF Sound
    <3>2. \A y : IsTabOf(d, y, x) => e.tab[y] = d.tab[y]
      BY <1>2, <1>3 DEF IsTabOf, IsUnmade
    <3>. QED BY <1>5, <3>1, <3>2 DEF SessionShows
  <2>. QED BY <2>1, <2>2
<1>8. ASSUME NEW x \in Tabs PROVE TabShows(e, x)
  <2>1. CASE x = t
    BY <1>2, <1>3, <1>4, <1>6, <2>1, NothingOfUnmade DEF TabShows
  <2>2. CASE x # t
    BY <1>3, <1>6, <2>2 DEF Sound, TabShows
  <2>. QED BY <2>1, <2>2
<1>9. ASSUME NEW x \in Terms PROVE Placed(e, x)
  BY <1>3, <1>5 DEF Sound, Placed
<1>10. Made(e) /\ Follows(d, e) /\ OneMore(d, e)
  <2>1. ASSUME NEW x \in Sessions
        PROVE  Later(d.session[x], e.session[x]) \/ (x = s /\ New(d.session[x], e.session[x]))
    <3>1. d.session[x].revision \in Nat
      BY <1>1, Typed DEF SessionRecords
    <3>. QED BY <1>2, <1>3, <3>1, LaterRevision DEF New, IsMade
  <2>2. ASSUME NEW x \in Tabs
        PROVE  \/ Later(d.tab[x], e.tab[x]) /\ e.tab[x].session = d.tab[x].session
               \/ x = t /\ New(d.tab[x], e.tab[x]) /\ OfSession(e, e.tab[x])
    <3>1. d.tab[x].revision \in Nat
      BY <1>1, Typed DEF TabRecords
    <3>2. IsMade(e.session[s]) /\ IsMade(e.tab[t]) /\ e.tab[t].session = s
      BY <1>3, <1>4 DEF IsMade
    <3>. QED BY <1>2, <1>3, <3>1, <3>2, LaterRevision DEF New, OfSession
  <2>3. ASSUME NEW x \in Terms
        PROVE  Later(d.terminal[x], e.terminal[x]) /\ e.terminal[x].session = d.terminal[x].session
    BY <1>1, <1>3, Typed, LaterRevision DEF TermRecords
  <2>. QED BY <1>1, <1>3, <2>1, <2>2, <2>3, GrownRows DEF Sound
<1>11. Visible(e)
  BY <1>2, <1>3 DEF Visible
<1>. QED BY <1>3, <1>7, <1>8, <1>9, <1>10, <1>11 DEF Sound

LEMMA ArchivingKeeps ==
  ASSUME NEW d, Sound(d), NEW s \in Sessions, IsMade(d.session[s]),
         NEW e, e = [d EXCEPT !.session[s] = Archived(@)]
  PROVE  Sound(e) /\ Follows(d, e) /\ Kept(d, e)
<1>. DEFINE rows == [d.session EXCEPT ![s] = Archived(d.session[s])]
<1>1. d \in Documents /\ d.session[s] \in SessionRecords
  BY Typed DEF Sound
<1>2. Rows(e, rows, d.tab, d.terminal)
  BY <1>1 DEF Rows, Documents
<1>3. /\ rows \in [Sessions -> SessionRecords] /\ rows[s] = Archived(d.session[s])
      /\ \A x \in Sessions \ {s} : rows[x] = d.session[x]
  BY <1>1, Typed, ArchivedSessionRow
<1>. HIDE DEF rows
<1>4. \A x \in {s} : /\ IsMade(d.session[x]) /\ rows[x].state # "none"
                     /\ rows[x].revision = d.session[x].revision + 1
                     /\ rows[x].tab = d.session[x].tab /\ rows[x].terminal = d.session[x].terminal
  BY <1>1, <1>3, ArchivedSessionRow
<1>5. {s} \in SUBSET Sessions
  OBVIOUS
<1>. QED BY <1>2, <1>3, <1>4, <1>5, SessionsRevised

LEMMA ArchivedSessionKeeps ==
  ASSUME NEW d, Sound(d), Unused(d.session) # {}, Unused(d.tab) # {},
         NEW s \in Sessions, IsMade(d.session[s]), NEW e, e = ArchivedSession(d, s)
  PROVE  Sound(e) /\ Visible(e) /\ Follows(d, e) /\ OneMore(d, e)
<1>. DEFINE mid == IF d.session[s].state = "open" THEN [d EXCEPT !.session[s] = Archived(@)] ELSE d
<1>1. d \in Documents
  BY DEF Sound
<1>2. Sound(mid) /\ Follows(d, mid) /\ Kept(d, mid)
  <2>1. CASE d.session[s].state = "open"
    <3>1. mid = [d EXCEPT !.session[s] = Archived(@)]
      BY <2>1
    <3>. HIDE DEF mid
    <3>. QED BY <3>1, ArchivingKeeps
  <2>2. CASE d.session[s].state # "open"
    <3>1. mid = d
      BY <2>2
    <3>. HIDE DEF mid
    <3>. QED BY <1>1, <3>1, AlikeItself, AlikeKeeps
  <2>. QED BY <2>1, <2>2
<1>3. e = EnsureVisible(mid)
  BY DEF ArchivedSession
<1>. HIDE DEF mid
<1>4. mid \in Documents /\ Made(mid)
  BY <1>2 DEF Sound
<1>5. Unused(mid.session) # {} /\ Unused(mid.tab) # {}
  BY <1>2 DEF Kept
<1>6. CASE Open(mid, "session") = {}
  <2>1. e = WithSession(mid)
    BY <1>3, <1>6 DEF EnsureVisible
  <2>2. Sound(e) /\ Visible(e) /\ Follows(mid, e) /\ OneMore(mid, e)
    BY <1>2, <1>5, <2>1, WithSessionKeeps
  <2>3. e \in Documents
    BY <2>2 DEF Sound
  <2>. QED BY <1>2, <1>4, <2>2, <2>3, FollowsThrough
<1>7. CASE Open(mid, "session") # {}
  <2>1. e = mid
    BY <1>3, <1>7 DEF EnsureVisible
  <2>2. Visible(mid)
    BY <1>4, <1>7, Opened DEF Visible
  <2>. QED BY <1>2, <2>1, <2>2, KeptIsOneMore
<1>. QED BY <1>6, <1>7

(* A tab that is new, of a session that shows it if it shows none.                *)
LEMMA NewTabKeeps ==
  ASSUME NEW d \in Documents, Made(d),
         \A x \in Tabs : TabShows(d, x), \A x \in Terms : Placed(d, x),
         NEW t \in Tabs, IsUnmade(d.tab[t]), NEW s \in Sessions, IsMade(d.session[s]), NEW p \in Nat,
         NEW S \in [Sessions -> SessionRecords],
         \A x \in Sessions \ {s} : S[x] = d.session[x] /\ SessionShows(d, x),
         S[s].state = d.session[s].state,
         S[s] = d.session[s] \/ S[s].revision = d.session[s].revision + 1,
         S[s].tab \in {0, t} \/ IsTabOf(d, S[s].tab, s),
         S[s].terminal # 0 =>
            S[s].tab \notin {0, t} /\ S[s].terminal = d.tab[S[s].tab].terminal,
         NEW e, Rows(e, S, [d.tab EXCEPT ![t] = NewTab(s, p)], d.terminal)
  PROVE  Sound(e) /\ Follows(d, e) /\ OneMore(d, e) /\ (Visible(d) => Visible(e))
<1>. DEFINE T == [d.tab EXCEPT ![t] = NewTab(s, p)]
<1>1. /\ NewTab(s, p).state = "open" /\ NewTab(s, p).session = s
      /\ NewTab(s, p).terminal = 0 /\ NewTab(s, p).revision = 1
  BY NewTabRow
<1>2. /\ T \in [Tabs -> TabRecords] /\ T[t] = NewTab(s, p)
      /\ \A x \in Tabs \ {t} : T[x] = d.tab[x]
  BY Typed, NewTabRow
<1>. HIDE DEF T
<1>3. e \in Documents /\ e.session = S /\ e.tab = T /\ e.terminal = d.terminal
  <2>1. d.terminal \in [Terms -> TermRecords] /\ Rows(e, S, T, d.terminal)
    BY Typed DEF T
  <2>. QED BY <1>2, <2>1, RowsOf
<1>4. \A x, y : IsTabOf(e, x, y) <=> IsTabOf(d, x, y) \/ (x = t /\ y = s)
  BY <1>1, <1>2, <1>3 DEF IsTabOf, IsUnmade
<1>5. \A x, y : IsTermOf(e, x, y) <=> IsTermOf(d, x, y)
  BY <1>3 DEF IsTermOf
<1>6. \A x, y : IsTabOf(d, x, y) => x # t /\ e.tab[x] = d.tab[x]
  BY <1>2, <1>3 DEF IsTabOf, IsUnmade
<1>7. ASSUME NEW x \in Sessions PROVE SessionShows(e, x)
  <2>1. CASE x = s
    <3>1. t # 0
      BY Numbers
    <3>. QED BY <1>3, <1>4, <1>6, <2>1, <3>1 DEF SessionShows
  <2>2. CASE x # s
    BY <1>3, <1>4, <1>6, <2>2 DEF SessionShows
  <2>. QED BY <2>1, <2>2
<1>8. ASSUME NEW x \in Tabs PROVE TabShows(e, x)
  <2>1. CASE x = t
    <3>1. \A m \in Terms : ~IsTermOf(d, m, t)
      BY DEF Placed, IsTabOf, IsTermOf, IsUnmade
    <3>. QED BY <1>1, <1>2, <1>3, <1>5, <2>1, <3>1 DEF TabShows
  <2>2. CASE x # t
    BY <1>2, <1>3, <1>5, <2>2 DEF TabShows
  <2>. QED BY <2>1, <2>2
<1>9. ASSUME NEW x \in Terms PROVE Placed(e, x)
  BY <1>3, <1>4 DEF Placed
<1>10. Made(e) /\ Follows(d, e) /\ OneMore(d, e)
  <2>1. ASSUME NEW x \in Sessions PROVE Later(d.session[x], e.session[x])
    <3>1. d.session[x].revision \in Nat
      BY Typed DEF SessionRecords
    <3>. QED BY <1>3, <3>1, LaterRevision DEF IsMade
  <2>2. ASSUME NEW x \in Tabs
        PROVE  \/ Later(d.tab[x], e.tab[x]) /\ e.tab[x].session = d.tab[x].session
               \/ x = t /\ New(d.tab[x], e.tab[x]) /\ OfSession(e, e.tab[x])
    <3>1. d.tab[x].revision \in Nat
      BY Typed DEF TabRecords
    <3>2. IsMade(e.session[s])
      BY <2>1 DEF Later
    <3>. QED BY <1>1, <1>2, <1>3, <3>1, <3>2, LaterRevision DEF New, OfSession, IsMade
  <2>3. ASSUME NEW x \in Terms
        PROVE  Later(d.terminal[x], e.terminal[x]) /\ e.terminal[x].session = d.terminal[x].session
    BY <1>3, Typed, LaterRevision DEF TermRecords
  <2>. QED BY <1>3, <2>1, <2>2, <2>3, GrownRows
<1>11. Visible(d) => Visible(e)
  <2>1. \A x \in Sessions : e.session[x].state = d.session[x].state
    BY <1>3
  <2>. QED BY <2>1 DEF Visible
<1>. QED BY <1>3, <1>7, <1>8, <1>9, <1>10, <1>11 DEF Sound

LEMMA WithTabKeeps ==
  ASSUME NEW d, Sound(d), Visible(d), Unused(d.tab) # {},
         NEW s \in Sessions, IsMade(d.session[s]), NEW e, e = WithTab(d, s)
  PROVE  Sound(e) /\ Visible(e) /\ Follows(d, e) /\ OneMore(d, e)
<1>. DEFINE t == Fresh(d, "tab")
            p == Cardinality(OpenTabs(d, s))
            T == [d.tab EXCEPT ![t] = NewTab(s, p)]
            S == IF d.session[s].tab = 0
                    THEN [d.session EXCEPT ![s] = [Revised(d.session[s]) EXCEPT !.tab = t]]
                    ELSE d.session
<1>1. d \in Documents /\ d.session[s] \in SessionRecords /\ d.session \in [Sessions -> SessionRecords]
  BY Typed DEF Sound
<1>2. Rows(e, S, T, d.terminal)
  BY <1>1 DEF Rows, Documents, WithTab
<1>3. t \in Tabs /\ IsUnmade(d.tab[t]) /\ p \in Nat
  <2>1. t \in Tabs /\ d.tab[t].state = "none"
    BY <1>1, FreshTab
  <2>2. p \in Nat
    BY <1>1, CountOfTabs
  <2>. HIDE DEF t
  <2>. QED BY <2>1, <2>2 DEF Sound, Made, OfSession, IsMade, IsUnmade
<1>. HIDE DEF t, p
<1>4. SessionShows(d, s) /\ d.session[s].state # "none"
  BY DEF Sound, IsMade
<1>5. /\ S \in [Sessions -> SessionRecords] /\ \A x \in Sessions \ {s} : S[x] = d.session[x]
      /\ S[s].state = d.session[s].state
      /\ S[s] = d.session[s] \/ S[s].revision = d.session[s].revision + 1
      /\ S[s].tab \in {0, t} \/ IsTabOf(d, S[s].tab, s)
      /\ S[s].terminal # 0 =>
            S[s].tab \notin {0, t} /\ S[s].terminal = d.tab[S[s].tab].terminal
  <2>1. CASE d.session[s].tab = 0
    <3>. DEFINE row == [Revised(d.session[s]) EXCEPT !.tab = t]
    <3>1. /\ row \in SessionRecords /\ row.state = d.session[s].state
          /\ row.revision = d.session[s].revision + 1
          /\ row.tab = t /\ row.terminal = d.session[s].terminal
      <4>1. \A q \in SessionRecords :
              LET x == [q EXCEPT !.tab = t] IN
              /\ x \in SessionRecords /\ x.state = q.state /\ x.revision = q.revision
              /\ x.tab = t /\ x.terminal = q.terminal
        BY <1>3 DEF SessionRecords
      <4>. QED BY <1>1, <4>1, RevisedSession
    <3>2. d.session[s].terminal = 0
      BY <1>4, <2>1 DEF SessionShows
    <3>3. S = [d.session EXCEPT ![s] = row]
      BY <2>1
    <3>. HIDE DEF row, S
    <3>. QED BY <1>1, <3>1, <3>2, <3>3
  <2>2. CASE d.session[s].tab # 0
    <3>1. S = d.session
      BY <2>2
    <3>2. IsTabOf(d, d.session[s].tab, s) /\ d.session[s].tab # t
      BY <1>3, <1>4, <2>2 DEF SessionShows, IsTabOf, IsUnmade
    <3>. HIDE DEF S
    <3>. QED BY <1>1, <1>4, <3>1, <3>2 DEF SessionShows
  <2>. QED BY <2>1, <2>2
<1>. HIDE DEF S
<1>6. Rows(e, S, [d.tab EXCEPT ![t] = NewTab(s, p)], d.terminal)
  BY <1>2
<1>7. /\ Made(d) /\ \A x \in Tabs : TabShows(d, x)
      /\ \A x \in Terms : Placed(d, x)
  BY DEF Sound
<1>8. \A x \in Sessions \ {s} : S[x] = d.session[x] /\ SessionShows(d, x)
  BY <1>5 DEF Sound
<1>. QED BY <1>1, <1>3, <1>5, <1>6, <1>7, <1>8, NewTabKeeps

(* With one more terminal, before it is selected.                                 *)
Adding(d, m, s, t) ==
    [d EXCEPT !.terminal[m] =
       [state |-> "open", session |-> s, tab |-> t,
        position |-> Cardinality(OpenTerms(d, t)), revision |-> 1]]

LEMMA AddingRows ==
  ASSUME NEW d \in Documents, NEW s \in Sessions, NEW t \in Tabs, NEW m \in Terms,
         NEW e, e = Adding(d, m, s, t)
  PROVE  /\ e \in Documents /\ e.session = d.session /\ e.tab = d.tab
         /\ \A x \in Terms \ {m} : e.terminal[x] = d.terminal[x]
         /\ e.terminal[m].state = "open" /\ e.terminal[m].session = s /\ e.terminal[m].tab = t
         /\ e.terminal[m].revision = 1
<1>. DEFINE p == Cardinality(OpenTerms(d, t))
            row == [state |-> "open", session |-> s, tab |-> t, position |-> p, revision |-> 1]
            M == [d.terminal EXCEPT ![m] = row]
<1>1. Rows(e, d.session, d.tab, M)
  BY DEF Rows, Documents, Adding
<1>2. row \in TermRecords
  <2>1. p \in Nat
    BY CountOfTerms
  <2>. HIDE DEF p
  <2>. QED BY <2>1 DEF TermRecords, States
<1>3. row.state = "open" /\ row.session = s /\ row.tab = t /\ row.revision = 1
  OBVIOUS
<1>. HIDE DEF row
<1>4. M \in [Terms -> TermRecords] /\ M[m] = row /\ \A x \in Terms \ {m} : M[x] = d.terminal[x]
  BY <1>2, Typed
<1>. HIDE DEF M
<1>5. e \in Documents /\ e.session = d.session /\ e.tab = d.tab /\ e.terminal = M
  <2>1. /\ d.session \in [Sessions -> SessionRecords] /\ d.tab \in [Tabs -> TabRecords]
        /\ M \in [Terms -> TermRecords]
    BY <1>4, Typed
  <2>. QED BY <1>1, <2>1, RowsOf
<1>. QED BY <1>3, <1>4, <1>5

LEMMA WithTermKeeps ==
  ASSUME NEW d, Sound(d), Visible(d), Unused(d.terminal) # {},
         NEW s \in Sessions, IsMade(d.session[s]), NEW t \in Tabs, IsTabOf(d, t, s),
         NEW e, e = WithTerm(d, s, t)
  PROVE  Sound(e) /\ Visible(e) /\ Follows(d, e) /\ OneMore(d, e)
<1>. DEFINE m == Fresh(d, "terminal")
            mid == Adding(d, m, s, t)
<1>1. d \in Documents
  BY DEF Sound
<1>2. m \in Terms /\ IsUnmade(d.terminal[m])
  <2>1. m \in Terms /\ d.terminal[m].state = "none"
    BY <1>1, FreshTerminal
  <2>. HIDE DEF m
  <2>. QED BY <2>1 DEF Sound, Made, OfSession, IsMade, IsUnmade
<1>3. e = SelectIn(mid, s, m)
  BY DEF WithTerm, Adding
<1>. HIDE DEF m
<1>4. /\ mid \in Documents /\ mid.session = d.session /\ mid.tab = d.tab
      /\ \A x \in Terms \ {m} : mid.terminal[x] = d.terminal[x]
      /\ mid.terminal[m].state = "open" /\ mid.terminal[m].session = s /\ mid.terminal[m].tab = t
      /\ mid.terminal[m].revision = 1
  BY <1>1, <1>2, AddingRows
<1>. HIDE DEF mid
<1>5. \A x, y : IsTabOf(mid, x, y) <=> IsTabOf(d, x, y)
  BY <1>4 DEF IsTabOf
<1>6. \A x, y : IsTermOf(mid, x, y) <=> IsTermOf(d, x, y) \/ (x = m /\ y = t)
  BY <1>2, <1>4 DEF IsTermOf, IsUnmade
<1>7. ASSUME NEW x \in Sessions PROVE SessionShows(mid, x)
  BY <1>4, <1>5 DEF Sound, SessionShows
<1>8. ASSUME NEW x \in Tabs \ {t} PROVE TabShows(mid, x)
  BY <1>4, <1>6 DEF Sound, TabShows
<1>9. ASSUME NEW x \in Terms PROVE Placed(mid, x)
  <2>1. CASE x = m
    BY <1>4, <1>5, <2>1 DEF Placed
  <2>2. CASE x # m
    BY <1>4, <1>5, <2>2 DEF Sound, Placed
  <2>. QED BY <2>1, <2>2
<1>10. Made(mid) /\ Follows(d, mid) /\ OneMore(d, mid)
  <2>1. \A x \in Sessions : Later(d.session[x], mid.session[x])
    BY <1>1, <1>4, Typed, LaterRevision DEF SessionRecords
  <2>2. \A x \in Tabs : Later(d.tab[x], mid.tab[x]) /\ mid.tab[x].session = d.tab[x].session
    BY <1>1, <1>4, Typed, LaterRevision DEF TabRecords
  <2>3. ASSUME NEW x \in Terms
        PROVE  \/ Later(d.terminal[x], mid.terminal[x]) /\ mid.terminal[x].session = d.terminal[x].session
               \/ x = m /\ New(d.terminal[x], mid.terminal[x]) /\ OfSession(mid, mid.terminal[x])
    <3>1. d.terminal[x].revision \in Nat
      BY <1>1, Typed DEF TermRecords
    <3>. QED BY <1>2, <1>4, <3>1, LaterRevision DEF New, OfSession, IsMade
  <2>. QED BY <1>1, <1>4, <2>1, <2>2, <2>3, GrownRows DEF Sound
<1>11. IsTermOf(mid, m, t) /\ IsTabOf(mid, t, s) /\ IsMade(mid.session[s]) /\ Visible(mid)
  BY <1>4, <1>5, <1>6 DEF Visible
<1>12. Sound(e) /\ Follows(mid, e) /\ Kept(mid, e) /\ Visible(e)
  <2>1. SoundButShown(mid, s, t)
    BY <1>4, <1>7, <1>8, <1>9, <1>10, <1>11 DEF SoundButShown
  <2>. QED BY <1>2, <1>3, <1>11, <2>1, SelectInKeeps
<1>13. e \in Documents
  BY <1>12 DEF Sound
<1>. QED BY <1>4, <1>10, <1>12, <1>13, FollowsThrough

(* Without a tab and its terminals, before the session has another.               *)
Closing(d, t) ==
    [d EXCEPT
       !.terminal = [m \in Terms |-> IF m \in OpenTerms(d, t)
                        THEN Archived(d.terminal[m]) ELSE d.terminal[m]],
       !.tab[t] = IF @.state = "open" THEN Archived(@) ELSE @]

LEMMA ClosingRows ==
  ASSUME NEW d \in Documents, NEW t \in Tabs, NEW e, e = Closing(d, t)
  PROVE  /\ e \in Documents /\ e.session = d.session
         /\ \A x \in Tabs \ {t} : e.tab[x] = d.tab[x]
         /\ e.tab[t] = IF d.tab[t].state = "open" THEN Archived(d.tab[t]) ELSE d.tab[t]
         /\ \A m \in Terms : e.terminal[m] =
              IF IsTermOf(d, m, t) THEN Archived(d.terminal[m]) ELSE d.terminal[m]
<1>. DEFINE tab == IF d.tab[t].state = "open" THEN Archived(d.tab[t]) ELSE d.tab[t]
            T == [d.tab EXCEPT ![t] = tab]
            M == [m \in Terms |-> IF m \in OpenTerms(d, t)
                        THEN Archived(d.terminal[m]) ELSE d.terminal[m]]
<1>1. Rows(e, d.session, T, M)
  BY DEF Rows, Documents, Closing
<1>2. tab \in TabRecords
  BY Typed, ArchivedTabRow
<1>. HIDE DEF tab
<1>3. T \in [Tabs -> TabRecords] /\ T[t] = tab /\ \A x \in Tabs \ {t} : T[x] = d.tab[x]
  BY <1>2, Typed
<1>4. M \in [Terms -> TermRecords]
  <2>1. \A m \in Terms : d.terminal[m] \in TermRecords /\ Archived(d.terminal[m]) \in TermRecords
    BY Typed, ArchivedTermRow
  <2>. QED BY <2>1
<1>5. \A m \in Terms : M[m] = IF IsTermOf(d, m, t) THEN Archived(d.terminal[m]) ELSE d.terminal[m]
  BY Opened
<1>. HIDE DEF T, M
<1>6. e \in Documents /\ e.session = d.session /\ e.tab = T /\ e.terminal = M
  <2>1. d.session \in [Sessions -> SessionRecords]
    BY Typed
  <2>. QED BY <1>1, <1>3, <1>4, <2>1, RowsOf
<1>. QED BY <1>3, <1>5, <1>6 DEF tab

LEMMA ClosingKeeps ==
  ASSUME NEW d, Sound(d), NEW t \in Tabs, d.tab[t].state = "open",
         NEW s, d.tab[t].session = s, NEW e, e = Closing(d, t)
  PROVE  /\ e \in Documents /\ e.session = d.session
         /\ \A x \in Tabs \ {t} : e.tab[x] = d.tab[x]
         /\ \A x, y : IsTabOf(e, x, y) <=> IsTabOf(d, x, y) /\ x # t
         /\ \A x \in Sessions \ {s} : SessionShows(e, x)
         /\ \A x \in Tabs : TabShows(e, x)
         /\ \A x \in Terms : Placed(e, x)
         /\ Made(e) /\ Follows(d, e) /\ Kept(d, e)
<1>1. d \in Documents
  BY DEF Sound
<1>2. /\ e \in Documents /\ e.session = d.session
      /\ \A x \in Tabs \ {t} : e.tab[x] = d.tab[x]
      /\ e.tab[t] = Archived(d.tab[t])
      /\ \A m \in Terms : e.terminal[m] =
              IF IsTermOf(d, m, t) THEN Archived(d.terminal[m]) ELSE d.terminal[m]
  BY <1>1, ClosingRows
<1>3. e.tab[t].state = "archived" /\ e.tab[t].session = s /\ e.tab[t].revision = d.tab[t].revision + 1
  BY <1>1, <1>2, Typed, ArchivedTabRow
<1>4. ASSUME NEW m \in Terms, IsTermOf(d, m, t)
      PROVE  /\ e.terminal[m].state = "archived" /\ e.terminal[m].session = d.terminal[m].session
             /\ e.terminal[m].revision = d.terminal[m].revision + 1
  BY <1>1, <1>2, <1>4, Typed, ArchivedTermRow
<1>5. \A x, y : IsTabOf(e, x, y) <=> IsTabOf(d, x, y) /\ x # t
  BY <1>2, <1>3 DEF IsTabOf
<1>6. \A x, y : IsTermOf(e, x, y) <=> IsTermOf(d, x, y) /\ y # t
  <2>1. ASSUME NEW x, NEW y PROVE IsTermOf(e, x, y) <=> IsTermOf(d, x, y) /\ y # t
    <3>1. CASE IsTermOf(d, x, t)
      <4>1. x \in Terms /\ d.terminal[x].tab = t
        BY <3>1 DEF IsTermOf
      <4>2. e.terminal[x].state = "archived"
        BY <1>4, <3>1, <4>1
      <4>. QED BY <4>1, <4>2 DEF IsTermOf
    <3>2. CASE ~IsTermOf(d, x, t)
      BY <1>2, <3>2 DEF IsTermOf
    <3>. QED BY <3>1, <3>2
  <2>. QED BY <2>1
<1>7. ASSUME NEW x \in Sessions \ {s} PROVE SessionShows(e, x)
  <2>1. \A y : IsTabOf(d, y, x) => y # t /\ e.tab[y] = d.tab[y]
    BY <1>2 DEF IsTabOf
  <2>. QED BY <1>2, <1>5, <2>1 DEF Sound, SessionShows
<1>8. ASSUME NEW x \in Tabs PROVE TabShows(e, x)
  BY <1>2, <1>3, <1>6 DEF Sound, TabShows
<1>9. ASSUME NEW x \in Terms PROVE Placed(e, x)
  <2>1. CASE IsTermOf(d, x, t)
    BY <1>4, <2>1 DEF Placed
  <2>2. CASE ~IsTermOf(d, x, t)
    BY <1>2, <1>5, <2>2 DEF Sound, Placed, IsTermOf
  <2>. QED BY <2>1, <2>2
<1>10. Made(e) /\ Follows(d, e) /\ Kept(d, e)
  <2>1. \A x \in Sessions : Later(d.session[x], e.session[x])
    BY <1>1, <1>2, Typed, LaterRevision DEF SessionRecords
  <2>2. ASSUME NEW x \in Tabs
        PROVE  Later(d.tab[x], e.tab[x]) /\ e.tab[x].session = d.tab[x].session
    <3>1. d.tab[x].revision \in Nat
      BY <1>1, Typed DEF TabRecords
    <3>2. x = t => IsMade(d.tab[x])
      BY DEF Sound, Made, OfSession, IsUnmade
    <3>. QED BY <1>2, <1>3, <3>1, <3>2, LaterRevision
  <2>3. ASSUME NEW x \in Terms
        PROVE  Later(d.terminal[x], e.terminal[x]) /\ e.terminal[x].session = d.terminal[x].session
    <3>1. d.terminal[x].revision \in Nat
      BY <1>1, Typed DEF TermRecords
    <3>2. IsTermOf(d, x, t) => IsMade(d.terminal[x])
      BY DEF Sound, Made, OfSession, IsUnmade, IsTermOf
    <3>. QED BY <1>2, <1>4, <3>1, <3>2, LaterRevision
  <2>. QED BY <1>1, <1>2, <2>1, <2>2, <2>3, LaterRows DEF Sound
<1>. QED BY <1>2, <1>5, <1>7, <1>8, <1>9, <1>10

LEMMA ClosedIsKept ==
  ASSUME NEW d, Sound(d), NEW t \in Tabs, d.tab[t].state # "open", NEW e, e = Closing(d, t)
  PROVE  /\ Sound(e) /\ Follows(d, e) /\ Kept(d, e) /\ e.session = d.session
         /\ \A x, y : IsTabOf(e, x, y) <=> IsTabOf(d, x, y)
<1>1. d \in Documents
  BY DEF Sound
<1>2. \A m : ~IsTermOf(d, m, t)
  BY DEF Sound, Placed, IsTermOf, IsTabOf
<1>3. /\ e \in Documents /\ e.session = d.session
      /\ \A x \in Tabs : e.tab[x] = d.tab[x]
      /\ \A m \in Terms : e.terminal[m] = d.terminal[m]
  BY <1>1, <1>2, ClosingRows
<1>4. \A x, y : IsTabOf(e, x, y) <=> IsTabOf(d, x, y)
  BY <1>3 DEF IsTabOf
<1>. QED BY <1>1, <1>3, <1>4, AlikeItself, AlikeKeeps

(* All is sound but what a session shows.                                         *)
SoundBut(d, s) ==
    /\ d \in Documents /\ Made(d) /\ IsMade(d.session[s])
    /\ \A x \in Sessions \ {s} : SessionShows(d, x)
    /\ \A x \in Tabs : TabShows(d, x)
    /\ \A x \in Terms : Placed(d, x)

(* A session that showed what was closed shows another tab of it.                 *)
Repointed(d, s, t) ==
    [d EXCEPT !.session[s] = [Revised(@) EXCEPT !.tab = t, !.terminal = d.tab[t].terminal]]

LEMMA RepointingKeeps ==
  ASSUME NEW s \in Sessions, NEW d, SoundBut(d, s), NEW t \in Tabs, IsTabOf(d, t, s),
         NEW e, e = Repointed(d, s, t)
  PROVE  Sound(e) /\ Follows(d, e) /\ Kept(d, e) /\ (Visible(d) => Visible(e))
<1>. USE DEF SoundBut
<1>. DEFINE m == d.tab[t].terminal
            row == Pointing(d.session[s], t, m)
            S == [d.session EXCEPT ![s] = row]
<1>1. Rows(e, S, d.tab, d.terminal)
  BY DEF Rows, Documents, Repointed, Pointing
<1>2. m \in Terms \cup {0} /\ d.session[s] \in SessionRecords
  BY Typed DEF TabRecords
<1>3. m = d.tab[t].terminal
  OBVIOUS
<1>. HIDE DEF m
<1>4. /\ row \in SessionRecords /\ row.state = d.session[s].state
      /\ row.revision = d.session[s].revision + 1 /\ row.tab = t /\ row.terminal = m
  BY <1>2, PointingRows
<1>. HIDE DEF row
<1>5. /\ S \in [Sessions -> SessionRecords] /\ S[s] = row
      /\ \A x \in Sessions \ {s} : S[x] = d.session[x]
  BY <1>4, Typed
<1>. HIDE DEF S
<1>6. e \in Documents /\ e.session = S /\ e.tab = d.tab /\ e.terminal = d.terminal
  <2>1. /\ S \in [Sessions -> SessionRecords] /\ d.tab \in [Tabs -> TabRecords]
        /\ d.terminal \in [Terms -> TermRecords]
    BY <1>5, Typed
  <2>. QED BY <1>1, <2>1, RowsOf
<1>7. /\ \A y, x : IsTabOf(e, y, x) <=> IsTabOf(d, y, x)
      /\ \A y, x : IsTermOf(e, y, x) <=> IsTermOf(d, y, x)
  BY <1>6 DEF IsTabOf, IsTermOf
<1>8. ASSUME NEW x \in Sessions PROVE SessionShows(e, x)
  <2>1. CASE x = s
    <3>1. t # 0
      BY Numbers
    <3>. QED BY <1>3, <1>4, <1>5, <1>6, <1>7, <2>1, <3>1 DEF SessionShows
  <2>2. CASE x # s
    BY <1>5, <1>6, <1>7, <2>2 DEF SessionShows
  <2>. QED BY <2>1, <2>2
<1>9. ASSUME NEW x \in Tabs PROVE TabShows(e, x)
  BY <1>6, <1>7 DEF TabShows
<1>10. ASSUME NEW x \in Terms PROVE Placed(e, x)
  BY <1>6, <1>7 DEF Placed
<1>11. Made(e) /\ Follows(d, e) /\ Kept(d, e)
  <2>1. ASSUME NEW x \in Sessions PROVE Later(d.session[x], e.session[x])
    <3>1. d.session[x].revision \in Nat
      BY Typed DEF SessionRecords
    <3>2. x = s => e.session[x].state # "none" /\ e.session[x].revision = d.session[x].revision + 1
      BY <1>4, <1>5, <1>6 DEF IsMade
    <3>. QED BY <1>5, <1>6, <3>1, <3>2, LaterRevision
  <2>2. \A x \in Tabs : Later(d.tab[x], e.tab[x]) /\ e.tab[x].session = d.tab[x].session
    BY <1>6, Typed, LaterRevision DEF TabRecords
  <2>3. \A x \in Terms :
          Later(d.terminal[x], e.terminal[x]) /\ e.terminal[x].session = d.terminal[x].session
    BY <1>6, Typed, LaterRevision DEF TermRecords
  <2>. QED BY <1>6, <2>1, <2>2, <2>3, LaterRows
<1>12. Visible(d) => Visible(e)
  <2>1. \A x \in Sessions : e.session[x].state = d.session[x].state
    BY <1>4, <1>5, <1>6
  <2>. QED BY <2>1 DEF Visible
<1>. QED BY <1>6, <1>8, <1>9, <1>10, <1>11, <1>12 DEF Sound

(* A session that is left without a tab gets one, and shows it if it showed the    *)
(* one that was closed.                                                          *)
Refilled(d, s, f) == [d EXCEPT !.tab[f] = NewTab(s, 0)]

LEMMA RefillingKeeps ==
  ASSUME NEW s \in Sessions, NEW d, SoundBut(d, s), \A x : ~IsTabOf(d, x, s),
         NEW f \in Tabs, IsUnmade(d.tab[f]),
         NEW filled, filled = Refilled(d, s, f)
  PROVE  /\ \A x : x \in OpenTabs(filled, s) <=> x = f
         /\ filled \in Documents
         /\ d.session[s].tab = 0 /\ d.session[s].terminal = 0 =>
              Sound(filled) /\ Follows(d, filled) /\ OneMore(d, filled) /\ (Visible(d) => Visible(filled))
         /\ \A e : e = Repointed(filled, s, f) =>
              Sound(e) /\ Follows(d, e) /\ OneMore(d, e) /\ (Visible(d) => Visible(e))
<1>. USE DEF SoundBut
<1>. DEFINE T == [d.tab EXCEPT ![f] = NewTab(s, 0)]
<1>1. /\ NewTab(s, 0).state = "open" /\ NewTab(s, 0).session = s
      /\ NewTab(s, 0).terminal = 0 /\ NewTab(s, 0) \in TabRecords
  BY NewTabRow
<1>2. /\ T \in [Tabs -> TabRecords] /\ T[f] = NewTab(s, 0)
      /\ \A x \in Tabs \ {f} : T[x] = d.tab[x]
  BY <1>1, Typed
<1>3. Rows(filled, d.session, T, d.terminal)
  BY DEF Rows, Documents, Refilled
<1>4. d.session \in [Sessions -> SessionRecords] /\ d.session[s] \in SessionRecords
  BY Typed
<1>. HIDE DEF T
<1>5. /\ filled \in Documents /\ filled.session = d.session /\ filled.tab = T
      /\ filled.terminal = d.terminal
  <2>1. T \in [Tabs -> TabRecords] /\ d.terminal \in [Terms -> TermRecords]
    BY <1>2, Typed
  <2>. QED BY <1>3, <1>4, <2>1, RowsOf
<1>6. ASSUME NEW x PROVE x \in OpenTabs(filled, s) <=> x = f
  <2>1. x \in OpenTabs(filled, s) <=> IsTabOf(filled, x, s)
    BY <1>5, Opened
  <2>. QED BY <1>1, <1>2, <1>5, <2>1 DEF IsTabOf
<1>7. ASSUME d.session[s].tab = 0, d.session[s].terminal = 0
      PROVE  Sound(filled) /\ Follows(d, filled) /\ OneMore(d, filled) /\ (Visible(d) => Visible(filled))
  <2>1. Rows(filled, d.session, [d.tab EXCEPT ![f] = NewTab(s, 0)], d.terminal)
    BY <1>3 DEF T
  <2>2. \A x \in Sessions \ {s} : d.session[x] = d.session[x] /\ SessionShows(d, x)
    OBVIOUS
  <2>3. d.session[s].tab \in {0, f}
    BY <1>7
  <2>4. 0 \in Nat
    OBVIOUS
  <2>. QED BY <1>4, <1>7, <2>1, <2>2, <2>3, <2>4, NewTabKeeps
<1>8. ASSUME NEW e, e = Repointed(filled, s, f)
      PROVE  Sound(e) /\ Follows(d, e) /\ OneMore(d, e) /\ (Visible(d) => Visible(e))
  <2>. DEFINE row == Pointing(d.session[s], f, 0)
              S == [d.session EXCEPT ![s] = row]
  <2>1. filled.tab[f].terminal = 0
    BY <1>1, <1>2, <1>5
  <2>2. Rows(e, [filled.session EXCEPT ![s] = Pointing(filled.session[s], f, 0)],
             filled.tab, filled.terminal)
    BY <1>5, <1>8, <2>1 DEF Rows, Documents, Repointed, Pointing
  <2>3. Rows(e, S, [d.tab EXCEPT ![f] = NewTab(s, 0)], d.terminal)
    BY <1>5, <2>2 DEF T
  <2>4. /\ row \in SessionRecords /\ row.state = d.session[s].state
        /\ row.revision = d.session[s].revision + 1 /\ row.tab = f /\ row.terminal = 0
    <3>1. 0 \in Terms \cup {0} /\ f \in Tabs \cup {0}
      OBVIOUS
    <3>. QED BY <1>4, <3>1, PointingRows
  <2>. HIDE DEF row
  <2>5. /\ S \in [Sessions -> SessionRecords] /\ S[s] = row
        /\ \A x \in Sessions \ {s} : S[x] = d.session[x]
    BY <1>4, <2>4
  <2>. HIDE DEF S
  <2>6. /\ \A x \in Sessions \ {s} : S[x] = d.session[x] /\ SessionShows(d, x)
        /\ S[s].state = d.session[s].state /\ S[s].revision = d.session[s].revision + 1
        /\ S[s].tab \in {0, f} /\ S[s].terminal = 0
    BY <2>4, <2>5
  <2>7. 0 \in Nat
    OBVIOUS
  <2>. QED BY <2>3, <2>5, <2>6, <2>7, NewTabKeeps
<1>. QED BY <1>5, <1>6, <1>7, <1>8

LEMMA WithoutTabKeeps ==
  ASSUME NEW d, Sound(d), Visible(d), Unused(d.tab) # {}, NEW t \in Tabs, IsMade(d.tab[t]),
         NEW e, e = WithoutTab(d, t)
  PROVE  Sound(e) /\ Visible(e) /\ Follows(d, e) /\ OneMore(d, e)
<1>. DEFINE s == d.tab[t].session
            f == Fresh(d, "tab")
            closed == Closing(d, t)
            filled == IF OpenTabs(closed, s) # {} THEN closed
                      ELSE Refilled(closed, s, f)
            next == Foremost(filled, "tab", OpenTabs(filled, s))
<1>1. d \in Documents
  BY DEF Sound
<1>2. e = IF d.session[s].tab # t THEN filled
          ELSE Repointed(filled, s, next)
  BY DEF WithoutTab, Closing, Refilled, Repointed
<1>3. s \in Sessions /\ IsMade(d.session[s])
  BY DEF Sound, Made, OfSession, IsUnmade, IsMade
<1>4. SessionShows(d, s) /\ d.session[s].state # "none"
  BY <1>3 DEF Sound, IsMade
<1>5. CASE d.tab[t].state # "open"
  <2>1. /\ Sound(closed) /\ Follows(d, closed) /\ Kept(d, closed) /\ closed.session = d.session
        /\ \A x, y : IsTabOf(closed, x, y) <=> IsTabOf(d, x, y)
    BY <1>5, ClosedIsKept
  <2>2. d.session[s].tab # t
    <3>1. t # 0
      BY Numbers
    <3>. QED BY <1>4, <1>5, <3>1 DEF SessionShows, IsTabOf
  <2>3. \E x : x \in OpenTabs(closed, s)
    <3>1. closed \in Documents
      BY <2>1 DEF Sound
    <3>. HIDE DEF closed, s
    <3>. QED BY <1>4, <2>1, <3>1, Opened DEF SessionShows
  <2>. HIDE DEF closed
  <2>4. e = closed
    BY <1>2, <2>2, <2>3
  <2>5. Visible(closed)
    BY <2>1 DEF Visible
  <2>. QED BY <2>1, <2>4, <2>5, KeptIsOneMore
<1>6. CASE d.tab[t].state = "open"
  <2>1. /\ closed \in Documents /\ closed.session = d.session
        /\ \A x \in Tabs \ {t} : closed.tab[x] = d.tab[x]
        /\ \A x, y : IsTabOf(closed, x, y) <=> IsTabOf(d, x, y) /\ x # t
        /\ \A x \in Sessions \ {s} : SessionShows(closed, x)
        /\ \A x \in Tabs : TabShows(closed, x)
        /\ \A x \in Terms : Placed(closed, x)
        /\ Made(closed) /\ Follows(d, closed) /\ Kept(d, closed)
    <3>1. d.tab[t].session = s
      OBVIOUS
    <3>2. closed = Closing(d, t)
      OBVIOUS
    <3>. HIDE DEF s, closed
    <3>. QED BY <1>6, <3>1, <3>2, ClosingKeeps
  <2>. HIDE DEF closed
  <2>2. IsMade(closed.session[s]) /\ Visible(closed)
    BY <1>3, <2>1 DEF Visible
  <2>3. \A x : x \in OpenTabs(closed, s) <=> IsTabOf(closed, x, s)
    BY <2>1, Opened
  <2>4. f \in Tabs /\ IsUnmade(closed.tab[f])
    <3>1. f \in Tabs /\ d.tab[f].state = "none"
      BY <1>1, FreshTab
    <3>. HIDE DEF f
    <3>2. f # t /\ IsUnmade(d.tab[f])
      BY <3>1 DEF Sound, Made, OfSession, IsMade, IsUnmade
    <3>. QED BY <2>1, <3>1, <3>2
  <2>. HIDE DEF s, f
  <2>5. SoundBut(closed, s)
    BY <2>1, <2>2 DEF SoundBut
  <2>6. CASE OpenTabs(closed, s) # {}
    <3>1. filled = closed
      BY <2>6
    <3>2. CASE d.session[s].tab # t
      <4>1. e = closed
        BY <1>2, <3>1, <3>2
      <4>2. SessionShows(closed, s)
        <5>1. \E x \in Tabs : IsTabOf(closed, x, s)
          BY <2>3, <2>6 DEF IsTabOf
        <5>2. d.session[s].tab # 0 =>
                IsTabOf(closed, d.session[s].tab, s) /\ closed.tab[d.session[s].tab] = d.tab[d.session[s].tab]
          BY <1>4, <2>1, <3>2 DEF SessionShows, IsTabOf
        <5>. QED BY <1>4, <2>1, <5>1, <5>2 DEF SessionShows
      <4>3. \A x \in Sessions : SessionShows(closed, x)
        BY <2>1, <4>2
      <4>4. Sound(closed)
        BY <2>1, <4>3 DEF Sound
      <4>. QED BY <2>1, <2>2, <4>1, <4>4, KeptIsOneMore
    <3>3. CASE d.session[s].tab = t
      <4>. DEFINE n == Foremost(closed, "tab", OpenTabs(closed, s))
      <4>1. IsTabOf(closed, n, s) /\ n \in Tabs
        <5>1. OpenTabs(closed, s) \in SUBSET Tabs
          BY <2>3 DEF IsTabOf
        <5>2. n \in OpenTabs(closed, s)
          BY <2>1, <2>6, <5>1, ForemostTab
        <5>. QED BY <2>3, <5>1, <5>2
      <4>. HIDE DEF n
      <4>2. e = Repointed(closed, s, n)
        BY <1>2, <3>1, <3>3 DEF n
      <4>3. Sound(e) /\ Follows(closed, e) /\ Kept(closed, e) /\ (Visible(closed) => Visible(e))
        BY <1>3, <2>5, <4>1, <4>2, RepointingKeeps
      <4>4. e \in Documents
        BY <4>3 DEF Sound
      <4>5. Follows(d, e) /\ Kept(d, e)
        BY <2>1, <4>3, <4>4, FollowsThrough
      <4>. QED BY <2>2, <4>3, <4>5, KeptIsOneMore
    <3>. QED BY <3>2, <3>3
  <2>7. CASE OpenTabs(closed, s) = {}
    <3>1. filled = Refilled(closed, s, f)
      BY <2>7
    <3>2. \A x : ~IsTabOf(closed, x, s)
      BY <2>3, <2>7
    <3>. HIDE DEF filled
    <3>3. /\ \A x : x \in OpenTabs(filled, s) <=> x = f
          /\ filled \in Documents
          /\ closed.session[s].tab = 0 /\ closed.session[s].terminal = 0 =>
               /\ Sound(filled) /\ Follows(closed, filled) /\ OneMore(closed, filled)
               /\ Visible(closed) => Visible(filled)
          /\ \A x : x = Repointed(filled, s, f) =>
               Sound(x) /\ Follows(closed, x) /\ OneMore(closed, x) /\ (Visible(closed) => Visible(x))
      BY <1>3, <2>4, <2>5, <3>1, <3>2, RefillingKeeps
    <3>4. Sound(e) /\ Follows(closed, e) /\ OneMore(closed, e) /\ Visible(e)
      <4>1. CASE d.session[s].tab # t
        <5>1. d.session[s].tab = 0
          BY <1>4, <2>1, <3>2, <4>1 DEF SessionShows
        <5>2. d.session[s].terminal = 0
          BY <1>4, <5>1 DEF SessionShows
        <5>3. e = filled
          BY <1>2, <4>1
        <5>. QED BY <2>1, <2>2, <3>3, <5>1, <5>2, <5>3
      <4>2. CASE d.session[s].tab = t
        <5>1. next = f
          <6>1. OpenTabs(filled, s) \in SUBSET Tabs /\ f \in OpenTabs(filled, s)
            BY <2>4, <3>3
          <6>2. next \in OpenTabs(filled, s)
            BY <3>3, <6>1, ForemostTab
          <6>. QED BY <3>3, <6>2
        <5>. HIDE DEF next
        <5>2. e = Repointed(filled, s, f)
          BY <1>2, <4>2, <5>1
        <5>. QED BY <2>2, <3>3, <5>2
      <4>. QED BY <4>1, <4>2
    <3>5. e \in Documents
      BY <3>4 DEF Sound
    <3>6. Follows(d, e) /\ OneMore(d, e)
      BY <2>1, <3>4, <3>5, FollowsThrough
    <3>. QED BY <3>4, <3>6
  <2>. QED BY <2>6, <2>7
<1>. QED BY <1>5, <1>6

-----------------------------------------------------------------------------
(* What clients know of and ask for.                                             *)

LEMMA KnownIsMade ==
  ASSUME Sound(doc), SeenBefore
  PROVE  /\ \A s \in Known("session") : s \in Sessions /\ IsMade(doc.session[s])
         /\ \A t \in Known("tab") : t \in Tabs /\ IsMade(doc.tab[t])
         /\ \A m \in Known("terminal") : m \in Terms /\ IsMade(doc.terminal[m])
<1>1. doc \in Documents
  BY DEF Sound
<1>2. DOMAIN doc.session = Sessions /\ DOMAIN doc.tab = Tabs /\ DOMAIN doc.terminal = Terms
  BY <1>1, Typed
<1>3. /\ doc["session"] = doc.session /\ doc["tab"] = doc.tab /\ doc["terminal"] = doc.terminal
  OBVIOUS
<1>4. ASSUME NEW s \in Known("session") PROVE s \in Sessions /\ IsMade(doc.session[s])
  <2>1. s \in Sessions /\ seen["session"][s] > 0
    BY <1>2, <1>3 DEF Known
  <2>2. seen["session"][s] \in Nat /\ seen["session"][s] <= doc.session[s].revision
    BY <1>2, <1>3, <2>1 DEF SeenBefore, ToldOf, Kinds
  <2>3. doc.session[s].revision \in Nat
    BY <1>1, <2>1, Typed DEF SessionRecords
  <2>. QED BY <2>1, <2>2, <2>3 DEF Sound, Made, IsUnmade
<1>5. ASSUME NEW t \in Known("tab") PROVE t \in Tabs /\ IsMade(doc.tab[t])
  <2>1. t \in Tabs /\ seen["tab"][t] > 0
    BY <1>2, <1>3 DEF Known
  <2>2. seen["tab"][t] \in Nat /\ seen["tab"][t] <= doc.tab[t].revision
    BY <1>2, <1>3, <2>1 DEF SeenBefore, ToldOf, Kinds
  <2>3. doc.tab[t].revision \in Nat
    BY <1>1, <2>1, Typed DEF TabRecords
  <2>. QED BY <2>1, <2>2, <2>3 DEF Sound, Made, OfSession, IsUnmade
<1>6. ASSUME NEW m \in Known("terminal") PROVE m \in Terms /\ IsMade(doc.terminal[m])
  <2>1. m \in Terms /\ seen["terminal"][m] > 0
    BY <1>2, <1>3 DEF Known
  <2>2. seen["terminal"][m] \in Nat /\ seen["terminal"][m] <= doc.terminal[m].revision
    BY <1>2, <1>3, <2>1 DEF SeenBefore, ToldOf, Kinds
  <2>3. doc.terminal[m].revision \in Nat
    BY <1>1, <2>1, Typed DEF TermRecords
  <2>. QED BY <2>1, <2>2, <2>3 DEF Sound, Made, OfSession, IsUnmade
<1>. QED BY <1>4, <1>5, <1>6

NotLess(rows, later) ==
    /\ DOMAIN later = DOMAIN rows
    /\ \A i \in DOMAIN rows : /\ rows[i].revision \in Nat /\ later[i].revision \in Nat
                             /\ rows[i].revision <= later[i].revision
ToldMore(told, next, later) ==
    /\ DOMAIN next = DOMAIN told
    /\ \A i \in DOMAIN told : next[i] = told[i] \/ next[i] = Max({later[i].revision, told[i]})

LEMMA ToldRows ==
  ASSUME NEW told, NEW rows, ToldOf(told, rows), NEW later, NotLess(rows, later),
         NEW next, ToldMore(told, next, later)
  PROVE  ToldOf(next, later)
<1>. USE DEF NotLess, ToldMore
<1>1. ASSUME NEW i \in DOMAIN rows PROVE next[i] \in Nat /\ next[i] <= later[i].revision
  <2>1. told[i] \in Nat /\ told[i] <= rows[i].revision
    BY DEF ToldOf
  <2>2. told[i] <= later[i].revision /\ later[i].revision \in Nat
    BY <2>1
  <2>3. Max({later[i].revision, told[i]}) \in {later[i].revision, told[i]}
    BY <2>1, <2>2, GreatestOf
  <2>4. next[i] \in {later[i].revision, told[i]}
    BY <2>3 DEF ToldOf
  <2>. QED BY <2>1, <2>2, <2>4
<1>. QED BY <1>1 DEF ToldOf

LEMMA TellKeeps ==
  ASSUME SeenBefore, Sound(doc), doc' \in Documents, Follows(doc, doc'), NEW es, Tell(doc', es)
  PROVE  SeenBefore'
<1>1. doc \in Documents
  BY DEF Sound
<1>2. /\ DOMAIN doc.session = Sessions /\ DOMAIN doc.tab = Tabs /\ DOMAIN doc.terminal = Terms
      /\ DOMAIN doc'.session = Sessions /\ DOMAIN doc'.tab = Tabs /\ DOMAIN doc'.terminal = Terms
  BY <1>1, Typed
<1>3. DOMAIN seen' = Kinds
  BY DEF Tell, SeenBefore
<1>4. ASSUME NEW k \in Kinds
      PROVE  ToldMore(seen[k], seen'[k], doc'[k])
  BY DEF Tell, SeenBefore, ToldMore
<1>5. ASSUME NEW k \in Kinds
      PROVE  NotLess(doc[k], doc'[k])
  <2>1. CASE k = "session"
    <3>1. doc[k] = doc.session /\ doc'[k] = doc'.session
      BY <2>1
    <3>. QED BY <1>1, <1>2, <3>1, Typed DEF NotLess, Follows, SessionRecords
  <2>2. CASE k = "tab"
    <3>1. doc[k] = doc.tab /\ doc'[k] = doc'.tab
      BY <2>2
    <3>. QED BY <1>1, <1>2, <3>1, Typed DEF NotLess, Follows, TabRecords
  <2>3. CASE k = "terminal"
    <3>1. doc[k] = doc.terminal /\ doc'[k] = doc'.terminal
      BY <2>3
    <3>. QED BY <1>1, <1>2, <3>1, Typed DEF NotLess, Follows, TermRecords
  <2>. QED BY <2>1, <2>2, <2>3 DEF Kinds
<1>6. ASSUME NEW k \in Kinds PROVE ToldOf(seen'[k], doc'[k])
  <2>1. ToldOf(seen[k], doc[k])
    BY DEF SeenBefore
  <2>. QED BY <1>4, <1>5, <2>1, ToldRows
<1>. QED BY <1>3, <1>6 DEF SeenBefore

LEMMA MadeStays ==
  ASSUME NEW d, Sound(d), NEW e, Sound(e), Follows(d, e)
  PROVE  /\ \A s \in Sessions : IsMade(d.session[s]) => IsMade(e.session[s])
         /\ \A t \in Tabs : IsMade(d.tab[t]) => IsMade(e.tab[t])
         /\ \A m \in Terms : IsMade(d.terminal[m]) =>
                IsMade(e.terminal[m]) /\ e.terminal[m].session = d.terminal[m].session
<1>1. d \in Documents /\ e \in Documents
  BY DEF Sound
<1>2. \A s \in Sessions : IsMade(d.session[s]) => IsMade(e.session[s])
  BY <1>1, Typed DEF Follows, Sound, Made, IsMade, IsUnmade, SessionRecords
<1>3. \A t \in Tabs : IsMade(d.tab[t]) => IsMade(e.tab[t])
  BY <1>1, Typed DEF Follows, Sound, Made, OfSession, IsMade, IsUnmade, TabRecords
<1>4. \A m \in Terms : IsMade(d.terminal[m]) => IsMade(e.terminal[m])
  BY <1>1, Typed DEF Follows, Sound, Made, OfSession, IsMade, IsUnmade, TermRecords
<1>. QED BY <1>2, <1>3, <1>4 DEF Follows

LEMMA FitsLater ==
  ASSUME NEW d, Sound(d), NEW e, Sound(e), Follows(d, e), NEW r, Fits(d, r)
  PROVE  Fits(e, r)
BY MadeStays DEF Fits

LEMMA UnusedCounts ==
  ASSUME NEW d \in Documents
  PROVE  /\ IsFiniteSet(Unused(d.session)) /\ Cardinality(Unused(d.session)) \in Nat
         /\ IsFiniteSet(Unused(d.tab)) /\ Cardinality(Unused(d.tab)) \in Nat
         /\ IsFiniteSet(Unused(d.terminal)) /\ Cardinality(Unused(d.terminal)) \in Nat
<1>1. /\ Unused(d.session) \subseteq Sessions /\ Unused(d.tab) \subseteq Tabs
      /\ Unused(d.terminal) \subseteq Terms
  BY UnusedRows
<1>2. IsFiniteSet(Unused(d.session)) /\ IsFiniteSet(Unused(d.tab)) /\ IsFiniteSet(Unused(d.terminal))
  BY <1>1, Numbers, FS_Subset
<1>. QED BY <1>2, FS_CardinalityType

LEMMA SubsetCount ==
  ASSUME NEW A, NEW B, IsFiniteSet(B), A \subseteq B
  PROVE  Cardinality(A) <= Cardinality(B)
BY FS_Subset

LEMMA OneMoreCount ==
  ASSUME NEW A, NEW B, IsFiniteSet(B), NEW i, A \subseteq B \cup {i}
  PROVE  Cardinality(A) <= Cardinality(B) + 1
<1>1. IsFiniteSet(B \cup {i}) /\ Cardinality(B \cup {i}) <= Cardinality(B) + 1
  <2>1. Cardinality(B) \in Nat
    BY FS_CardinalityType
  <2>. QED BY <2>1, FS_AddElement
<1>2. Cardinality(A) <= Cardinality(B \cup {i})
  BY <1>1, SubsetCount
<1>3. Cardinality(A) \in Nat /\ Cardinality(B) \in Nat /\ Cardinality(B \cup {i}) \in Nat
  <2>1. IsFiniteSet(A)
    BY <1>1, FS_Subset
  <2>. QED BY <1>1, <2>1, FS_CardinalityType
<1>. QED BY <1>1, <1>2, <1>3

(* What an operation does to the ids that are left.                               *)
LEMMA UnusedKept ==
  ASSUME NEW d \in Documents, NEW e \in Documents, Kept(d, e)
  PROVE  /\ Cardinality(Unused(d.session)) <= Cardinality(Unused(e.session))
         /\ Cardinality(Unused(d.tab)) <= Cardinality(Unused(e.tab))
         /\ Cardinality(Unused(d.terminal)) <= Cardinality(Unused(e.terminal))
BY UnusedCounts, SubsetCount DEF Kept

LEMMA UnusedOneMore ==
  ASSUME NEW d \in Documents, NEW e \in Documents, OneMore(d, e)
  PROVE  /\ Cardinality(Unused(d.session)) <= Cardinality(Unused(e.session)) + 1
         /\ Cardinality(Unused(d.tab)) <= Cardinality(Unused(e.tab)) + 1
         /\ Cardinality(Unused(d.terminal)) <= Cardinality(Unused(e.terminal)) + 1
BY UnusedCounts, OneMoreCount DEF OneMore, Fewer

LEMMA AskedCount ==
  IsFiniteSet(Asked) /\ Cardinality(Asked) \in Nat
<1>1. IsFiniteSet(Asked)
  BY Numbers, FS_Subset DEF Asked
<1>. QED BY <1>1, FS_CardinalityType

(* A command that is under way has an id left of every kind.                       *)
LEMMA IdsLeft ==
  ASSUME CatalogueInv, NEW c \in Clients, request[c].at = "asked"
  PROVE  /\ Unused(doc.session) # {} /\ Unused(doc.tab) # {} /\ Unused(doc.terminal) # {}
         /\ Cardinality(Asked) >= 1
<1>1. doc \in Documents /\ MaxEdits \in Nat /\ edits \in 0..MaxEdits
  BY Numbers DEF CatalogueInv, Sound, Room
<1>2. Asked # {}
  BY DEF Asked
<1>3. Cardinality(Asked) >= 1
  <2>1. Cardinality(Asked) # 0
    BY <1>2, AskedCount, FS_EmptySet
  <2>. QED BY <2>1, AskedCount
<1>4. /\ Cardinality(Unused(doc.session)) # 0 /\ Cardinality(Unused(doc.tab)) # 0
      /\ Cardinality(Unused(doc.terminal)) # 0
  BY <1>1, <1>3, AskedCount, UnusedCounts DEF CatalogueInv, Room, Left
<1>. QED BY <1>3, <1>4, FS_EmptySet

-----------------------------------------------------------------------------
(* The steps.                                                                   *)

LEMMA AtOnceKeeps ==
  ASSUME CatalogueInv, NEW c \in Clients, NEW d, NEW es, AtOnce(c, d, es),
         Sound(d), Visible(d), Follows(doc, d), Kept(doc, d)
  PROVE  CatalogueInv'
<1>1. doc' = d /\ Tell(d, es) /\ request' = request /\ edits' = edits + 1 /\ edits < MaxEdits
  BY DEF AtOnce, May
<1>2. doc \in Documents /\ Sound(doc) /\ d \in Documents
  BY DEF CatalogueInv, Sound
<1>3. SeenBefore'
  BY <1>1, <1>2, TellKeeps DEF CatalogueInv
<1>4. RequestsFit'
  <2>1. ASSUME NEW x \in Clients
        PROVE  /\ IsRequest(request'[x])
               /\ request'[x].at = "asked" => request'[x].op \in Operations /\ Fits(doc', request'[x])
    BY <1>1, <1>2, FitsLater DEF CatalogueInv, RequestsFit
  <2>. QED BY <1>1, <2>1 DEF CatalogueInv, RequestsFit
<1>5. Room'
  <2>1. Asked' = Asked
    BY <1>1 DEF Asked
  <2>2. /\ Cardinality(Unused(doc.session)) <= Cardinality(Unused(d.session))
        /\ Cardinality(Unused(doc.tab)) <= Cardinality(Unused(d.tab))
        /\ Cardinality(Unused(doc.terminal)) <= Cardinality(Unused(d.terminal))
    BY <1>2, UnusedKept
  <2>3. MaxEdits \in Nat /\ edits \in Nat /\ edits + 1 \in 0..MaxEdits
    BY <1>1, Numbers DEF CatalogueInv, Room
  <2>4. /\ MaxEdits + Cardinality(Asked) <= Cardinality(Unused(d.session)) + edits'
        /\ MaxEdits + Cardinality(Asked) <= Cardinality(Unused(d.tab)) + edits'
        /\ MaxEdits + Cardinality(Asked) <= Cardinality(Unused(d.terminal)) + edits'
    BY <1>1, <1>2, <2>2, <2>3, AskedCount, UnusedCounts DEF CatalogueInv, Room, Left
  <2>. QED BY <1>1, <2>1, <2>3, <2>4 DEF Room, Left
<1>. QED BY <1>1, <1>3, <1>4, <1>5 DEF CatalogueInv

LEMMA AskKeeps ==
  ASSUME CatalogueInv, NEW c \in Clients, NEW op \in Operations, NEW on, NEW to, NEW es,
         Ask(c, op, on, to, es),
         \A r : r.op = op /\ r.on = on /\ r.to = to => Fits(doc, r)
  PROVE  CatalogueInv'
<1>. DEFINE new == [at |-> "asked", op |-> op, on |-> on, to |-> to,
                    before |-> [e \in es |-> Rev(doc, e)], look |-> <<>>]
<1>1. /\ request[c] = Idle /\ edits' = edits + 1 /\ edits < MaxEdits
      /\ request' = [request EXCEPT ![c] = new]
      /\ doc' = doc /\ seen' = seen
  BY DEF Ask, May
<1>2. new.at = "asked" /\ new.op = op /\ new.on = on /\ new.to = to /\ IsRequest(new)
  BY DEF IsRequest
<1>. HIDE DEF new
<1>3. DOMAIN request = Clients
  BY DEF CatalogueInv, RequestsFit
<1>4. /\ DOMAIN request' = Clients /\ request'[c] = new
      /\ \A x \in Clients \ {c} : request'[x] = request[x]
  BY <1>1, <1>3
<1>5. RequestsFit'
  <2>1. ASSUME NEW x \in Clients
        PROVE  /\ IsRequest(request'[x])
               /\ request'[x].at = "asked" => request'[x].op \in Operations /\ Fits(doc', request'[x])
    BY <1>1, <1>2, <1>4 DEF CatalogueInv, RequestsFit
  <2>. QED BY <1>4, <2>1 DEF RequestsFit
<1>6. SeenBefore' /\ Sound(doc') /\ Visible(doc')
  BY <1>1 DEF CatalogueInv, SeenBefore, ToldOf
<1>7. Room'
  <2>1. Asked' = Asked \cup {c}
    <3>1. \A x : x \in Asked' <=> x \in Asked \/ x = c
      BY <1>2, <1>4 DEF Asked
    <3>. QED BY <3>1
  <2>2. Cardinality(Asked') <= Cardinality(Asked) + 1 /\ Cardinality(Asked') \in Nat
    <3>1. IsFiniteSet(Asked)
      BY AskedCount
    <3>2. Cardinality(Asked \cup {c}) <= Cardinality(Asked) + 1
      BY <3>1, OneMoreCount
    <3>3. IsFiniteSet(Asked \cup {c}) /\ Cardinality(Asked \cup {c}) \in Nat
      BY <3>1, FS_AddElement, FS_CardinalityType
    <3>. QED BY <2>1, <3>2, <3>3
  <2>3. MaxEdits \in Nat /\ edits \in Nat /\ edits + 1 \in 0..MaxEdits /\ doc \in Documents
    BY <1>1, Numbers DEF CatalogueInv, Room, Sound
  <2>4. /\ MaxEdits + Cardinality(Asked') <= Cardinality(Unused(doc.session)) + edits'
        /\ MaxEdits + Cardinality(Asked') <= Cardinality(Unused(doc.tab)) + edits'
        /\ MaxEdits + Cardinality(Asked') <= Cardinality(Unused(doc.terminal)) + edits'
    BY <1>1, <2>2, <2>3, AskedCount, UnusedCounts DEF CatalogueInv, Room, Left
  <2>. QED BY <1>1, <2>3, <2>4 DEF Room, Left
<1>. QED BY <1>5, <1>6, <1>7 DEF CatalogueInv

(* A request goes on, with something to look at or nothing.                       *)
LEMMA ContinueKeeps ==
  ASSUME RequestsFit, Sound(doc), NEW c \in Clients, NEW l, Continue(c, l),
         Sound(doc'), Follows(doc, doc')
  PROVE  RequestsFit' /\ Asked' = Asked \ {c}
<1>. DEFINE new == IF l = <<>> THEN Idle ELSE [request[c] EXCEPT !.at = "look", !.look = l]
<1>1. DOMAIN request = Clients /\ request' = [request EXCEPT ![c] = new]
  BY DEF RequestsFit, Continue
<1>2. IsRequest(new) /\ new.at # "asked"
  <2>1. IsRequest(Idle) /\ Idle.at # "asked"
    BY DEF IsRequest, Idle
  <2>2. IsRequest(request[c])
    BY DEF RequestsFit
  <2>3. /\ IsRequest([request[c] EXCEPT !.at = "look", !.look = l])
        /\ [request[c] EXCEPT !.at = "look", !.look = l].at # "asked"
    BY <2>2 DEF IsRequest
  <2>. QED BY <2>1, <2>3
<1>. HIDE DEF new
<1>3. /\ DOMAIN request' = Clients /\ request'[c] = new
      /\ \A x \in Clients \ {c} : request'[x] = request[x]
  BY <1>1
<1>4. RequestsFit'
  <2>1. ASSUME NEW x \in Clients
        PROVE  /\ IsRequest(request'[x])
               /\ request'[x].at = "asked" => request'[x].op \in Operations /\ Fits(doc', request'[x])
    <3>1. CASE x = c
      BY <1>2, <1>3, <3>1
    <3>2. CASE x # c
      BY <1>3, <3>2, FitsLater DEF RequestsFit
    <3>. QED BY <3>1, <3>2
  <2>. QED BY <1>3, <2>1 DEF RequestsFit
<1>5. Asked' = Asked \ {c}
  <2>1. \A x : x \in Asked' <=> x \in Asked /\ x # c
    BY <1>2, <1>3 DEF Asked
  <2>. QED BY <2>1
<1>. QED BY <1>4, <1>5

LEMMA SameKeeps ==
  ASSUME NEW d, Sound(d)
  PROVE  Follows(d, d) /\ Kept(d, d) /\ OneMore(d, d)
<1>1. d \in Documents
  BY DEF Sound
<1>2. Follows(d, d) /\ Kept(d, d)
  BY <1>1, AlikeItself, AlikeKeeps
<1>. QED BY <1>2, KeptIsOneMore

(* Every operation's document is sound.                                           *)
LEMMA OutcomeKeeps ==
  ASSUME Sound(doc), Visible(doc), NEW r, r.op \in Operations, Fits(doc, r),
         Unused(doc.session) # {}, Unused(doc.tab) # {}, Unused(doc.terminal) # {}
  PROVE  Sound(Outcome(r).doc) /\ Visible(Outcome(r).doc) /\ Follows(doc, Outcome(r).doc)
         /\ OneMore(doc, Outcome(r).doc)
<1>. DEFINE Good(d) == Sound(d) /\ Visible(d) /\ Follows(doc, d) /\ OneMore(doc, d)
<1>1. Good(doc) /\ Error.doc = doc
  BY SameKeeps DEF Error, Done
<1>2. doc \in Documents
  BY DEF Sound
<1>3. CASE r.op = "createSession"
  <2>1. Good(WithSession(doc))
    BY WithSessionKeeps
  <2>. QED BY <1>3, <2>1 DEF Outcome, CreateSession, Done
<1>4. CASE r.op = "createTab"
  <2>1. r.on \in Sessions /\ IsMade(doc.session[r.on])
    BY <1>4 DEF Fits
  <2>2. Good(WithTab(doc, r.on))
    BY <2>1, WithTabKeeps
  <2>. QED BY <1>1, <1>4, <2>2 DEF Outcome, CreateTab, Done
<1>5. CASE r.op = "createTerminal"
  <2>. DEFINE t == IF r.to = 0 THEN doc.session[r.on].tab ELSE r.to
  <2>1. r.on \in Sessions /\ IsMade(doc.session[r.on])
    BY <1>5 DEF Fits
  <2>2. t \in OpenTabs(doc, r.on) => Good(WithTerm(doc, r.on, t))
    <3>. HIDE DEF t
    <3>1. t \in OpenTabs(doc, r.on) => t \in Tabs /\ IsTabOf(doc, t, r.on)
      BY <1>2, Opened DEF IsTabOf
    <3>. QED BY <2>1, <3>1, WithTermKeeps
  <2>. QED BY <1>1, <1>5, <2>2 DEF Outcome, CreateTerminal, Done
<1>6. CASE r.op = "moveTerminal"
  <2>1. r.on \in Terms
    BY <1>6 DEF Fits
  <2>2. doc.terminal[r.on].state = "open" /\ r.to \in OpenTabs(doc, doc.terminal[r.on].session) =>
          Good(MovedTerm(doc, r.on, r.to))
    <3>1. r.to \in OpenTabs(doc, doc.terminal[r.on].session) =>
            r.to \in Tabs /\ IsTabOf(doc, r.to, doc.terminal[r.on].session)
      BY <1>2, Opened DEF IsTabOf
    <3>. QED BY <2>1, <3>1, MovedTermKeeps, KeptIsOneMore
  <2>. QED BY <1>1, <1>6, <2>2 DEF Outcome, MoveTerminal, Done
<1>7. CASE r.op = "selectTerminal"
  <2>1. r.on \in Sessions /\ IsMade(doc.session[r.on])
    BY <1>7 DEF Fits
  <2>2. CASE r.to = 0
    <3>. DEFINE none == [doc EXCEPT !.session[r.on] = [Revised(@) EXCEPT !.terminal = 0]]
    <3>1. Outcome(r).doc = none
      BY <1>7, <2>2 DEF Outcome, SelectTerminal, Done
    <3>2. Good(none)
      BY <2>1, SelectNoneKeeps, KeptIsOneMore
    <3>. QED BY <3>1, <3>2
  <2>3. CASE r.to # 0
    <3>1. r.to \in Terms /\ doc.terminal[r.to].session = r.on
      BY <1>7, <2>3 DEF Fits
    <3>2. CASE doc.terminal[r.to].state = "open"
      <4>1. Outcome(r).doc = SelectIn(doc, r.on, r.to)
        BY <1>7, <2>3, <3>2 DEF Outcome, SelectTerminal, Done
      <4>. DEFINE t == doc.terminal[r.to].tab
      <4>2. IsTermOf(doc, r.to, t) /\ IsTabOf(doc, t, r.on) /\ t \in Tabs
        BY <3>1, <3>2 DEF Sound, Placed, IsTermOf, IsTabOf
      <4>. HIDE DEF t
      <4>3. SoundButShown(doc, r.on, t)
        BY <2>1 DEF Sound, SoundButShown
      <4>4. ASSUME NEW e, e = SelectIn(doc, r.on, r.to) PROVE Good(e)
        <5>1. Sound(e) /\ Follows(doc, e) /\ Kept(doc, e) /\ (Visible(doc) => Visible(e))
          BY <2>1, <3>1, <4>2, <4>3, <4>4, SelectInKeeps
        <5>. QED BY <5>1, KeptIsOneMore
      <4>. QED BY <4>1, <4>4
    <3>3. CASE doc.terminal[r.to].state # "open"
      <4>1. Outcome(r) = Error
        BY <1>7, <2>3, <3>3 DEF Outcome, SelectTerminal
      <4>. QED BY <1>1, <4>1
    <3>. QED BY <3>2, <3>3
  <2>. QED BY <2>2, <2>3
<1>8. CASE r.op = "closeTerminal"
  <2>1. r.on \in Terms /\ IsMade(doc.terminal[r.on])
    BY <1>8 DEF Fits
  <2>2. Good(WithoutTerm(doc, r.on))
    BY <2>1, WithoutTermKeeps, KeptIsOneMore
  <2>. QED BY <1>8, <2>2 DEF Outcome, CloseTerminal, Done
<1>9. CASE r.op = "archiveTab"
  <2>1. r.on \in Tabs /\ IsMade(doc.tab[r.on])
    BY <1>9 DEF Fits
  <2>2. Good(WithoutTab(doc, r.on))
    BY <2>1, WithoutTabKeeps
  <2>. QED BY <1>9, <2>2 DEF Outcome, ArchiveTab, Done
<1>10. CASE r.op = "archiveSession"
  <2>1. r.on \in Sessions /\ IsMade(doc.session[r.on])
    BY <1>10 DEF Fits
  <2>2. Good(ArchivedSession(doc, r.on))
    BY <2>1, ArchivedSessionKeeps
  <2>. QED BY <1>10, <2>2 DEF Outcome, ArchiveSession, Done
<1>. QED BY <1>3, <1>4, <1>5, <1>6, <1>7, <1>8, <1>9, <1>10 DEF Operations

LEMMA ChangeKeeps ==
  ASSUME CatalogueInv, NEW c \in Clients, Change(c)
  PROVE  CatalogueInv'
<1>. DEFINE r == request[c]
            o == Outcome(r)
            told == o.told \cup {e \in o.compared : Differs(o.doc, r, e)}
<1>1. /\ r.at = "asked" /\ doc' = o.doc /\ Tell(doc', told) /\ Continue(c, o.look) /\ edits' = edits
  BY DEF Change
<1>2. /\ Sound(doc) /\ Visible(doc) /\ r.op \in Operations /\ Fits(doc, r)
      /\ Unused(doc.session) # {} /\ Unused(doc.tab) # {} /\ Unused(doc.terminal) # {}
      /\ Cardinality(Asked) >= 1
  BY <1>1, IdsLeft DEF CatalogueInv, RequestsFit
<1>3. Sound(doc') /\ Visible(doc') /\ Follows(doc, doc') /\ OneMore(doc, doc')
  <2>. HIDE DEF r
  <2>. QED BY <1>1, <1>2, OutcomeKeeps
<1>. HIDE DEF o, told, r
<1>4. doc \in Documents /\ doc' \in Documents
  BY <1>2, <1>3 DEF Sound
<1>5. SeenBefore'
  BY <1>1, <1>2, <1>3, <1>4, TellKeeps DEF CatalogueInv
<1>6. RequestsFit' /\ Asked' = Asked \ {c}
  BY <1>1, <1>2, <1>3, ContinueKeeps DEF CatalogueInv
<1>7. Room'
  <2>1. Cardinality(Asked') = Cardinality(Asked) - 1
    <3>1. c \in Asked
      BY <1>1 DEF Asked, r
    <3>. QED BY <1>6, <3>1, AskedCount, FS_RemoveElement
  <2>2. /\ Cardinality(Unused(doc.session)) <= Cardinality(Unused(doc'.session)) + 1
        /\ Cardinality(Unused(doc.tab)) <= Cardinality(Unused(doc'.tab)) + 1
        /\ Cardinality(Unused(doc.terminal)) <= Cardinality(Unused(doc'.terminal)) + 1
    BY <1>3, <1>4, UnusedOneMore
  <2>3. MaxEdits \in Nat /\ edits \in Nat /\ edits \in 0..MaxEdits
    BY Numbers DEF CatalogueInv, Room
  <2>4. /\ MaxEdits + Cardinality(Asked') <= Cardinality(Unused(doc'.session)) + edits
        /\ MaxEdits + Cardinality(Asked') <= Cardinality(Unused(doc'.tab)) + edits
        /\ MaxEdits + Cardinality(Asked') <= Cardinality(Unused(doc'.terminal)) + edits
    BY <1>4, <2>1, <2>2, <2>3, AskedCount, UnusedCounts DEF CatalogueInv, Room, Left
  <2>. QED BY <1>1, <2>3, <2>4 DEF Room, Left
<1>. QED BY <1>3, <1>5, <1>6, <1>7 DEF CatalogueInv

LEMMA FailKeeps ==
  ASSUME CatalogueInv, NEW c \in Clients, Fail(c)
  PROVE  CatalogueInv'
<1>1. request[c].at = "asked" /\ Continue(c, <<>>) /\ doc' = doc /\ seen' = seen /\ edits' = edits
  BY DEF Fail
<1>2. Sound(doc) /\ Visible(doc) /\ Follows(doc, doc) /\ doc \in Documents
  BY SameKeeps DEF CatalogueInv, Sound
<1>3. RequestsFit' /\ Asked' = Asked \ {c}
  BY <1>1, <1>2, ContinueKeeps DEF CatalogueInv
<1>4. SeenBefore'
  BY <1>1 DEF CatalogueInv, SeenBefore, ToldOf
<1>5. Room'
  <2>1. Cardinality(Asked') = Cardinality(Asked) - 1
    <3>1. c \in Asked
      BY <1>1 DEF Asked
    <3>. QED BY <1>3, <3>1, AskedCount, FS_RemoveElement
  <2>2. MaxEdits \in Nat /\ edits \in 0..MaxEdits
    BY Numbers DEF CatalogueInv, Room
  <2>3. /\ MaxEdits + Cardinality(Asked') <= Cardinality(Unused(doc.session)) + edits
        /\ MaxEdits + Cardinality(Asked') <= Cardinality(Unused(doc.tab)) + edits
        /\ MaxEdits + Cardinality(Asked') <= Cardinality(Unused(doc.terminal)) + edits
    BY <1>2, <2>1, <2>2, AskedCount, UnusedCounts DEF CatalogueInv, Room, Left
  <2>. QED BY <1>1, <2>2, <2>3 DEF Room, Left
<1>. QED BY <1>1, <1>2, <1>3, <1>4, <1>5 DEF CatalogueInv

LEMMA LookKeeps ==
  ASSUME CatalogueInv, NEW c \in Clients, Look(c)
  PROVE  CatalogueInv'
<1>1. /\ request[c].at = "look" /\ Continue(c, Tail(request[c].look)) /\ doc' = doc /\ edits' = edits
      /\ \E told : Tell(doc, told)
  BY DEF Look
<1>2. Sound(doc) /\ Visible(doc) /\ Follows(doc, doc) /\ doc \in Documents
  BY SameKeeps DEF CatalogueInv, Sound
<1>3. RequestsFit' /\ Asked' = Asked \ {c}
  BY <1>1, <1>2, ContinueKeeps DEF CatalogueInv
<1>4. Asked' = Asked
  BY <1>1, <1>3 DEF Asked
<1>5. SeenBefore'
  <2>1. PICK told : Tell(doc', told)
    BY <1>1
  <2>. QED BY <1>1, <1>2, <2>1, TellKeeps DEF CatalogueInv
<1>6. Room'
  BY <1>1, <1>4 DEF CatalogueInv, Room, Left
<1>. QED BY <1>1, <1>2, <1>3, <1>5, <1>6 DEF CatalogueInv

(* The commands that go straight to the store.                                    *)
LEMMA RenamesKeep ==
  ASSUME CatalogueInv, NEW c \in Clients,
         RenameSession(c) \/ RenameTab(c) \/ SaveTabLayout(c) \/ RenameTerminal(c)
  PROVE  CatalogueInv'
<1>. USE DEF CatalogueInv
<1>1. CASE RenameSession(c)
  <2>1. PICK s \in Known("session") : AtOnce(c, Touch(doc, "session", s), {<<"session", s>>})
    BY <1>1 DEF RenameSession
  <2>2. ASSUME NEW d, d = Touch(doc, "session", s) PROVE CatalogueInv'
    <3>1. s \in Sessions /\ IsMade(doc.session[s])
      BY KnownIsMade
    <3>2. Sound(d) /\ Visible(d) /\ Follows(doc, d) /\ Kept(doc, d)
      BY <2>2, <3>1, TouchSessionKeeps
    <3>. QED BY <2>1, <2>2, <3>2, AtOnceKeeps
  <2>. QED BY <2>2
<1>2. CASE RenameTab(c) \/ SaveTabLayout(c)
  <2>1. PICK t \in Known("tab") : AtOnce(c, Touch(doc, "tab", t), {<<"tab", t>>})
    BY <1>2 DEF RenameTab, SaveTabLayout
  <2>2. ASSUME NEW d, d = Touch(doc, "tab", t) PROVE CatalogueInv'
    <3>1. t \in Tabs /\ IsMade(doc.tab[t])
      BY KnownIsMade
    <3>2. Sound(d) /\ Visible(d) /\ Follows(doc, d) /\ Kept(doc, d)
      BY <2>2, <3>1, TouchTabKeeps
    <3>. QED BY <2>1, <2>2, <3>2, AtOnceKeeps
  <2>. QED BY <2>2
<1>3. CASE RenameTerminal(c)
  <2>1. PICK m \in Known("terminal") : AtOnce(c, Touch(doc, "terminal", m), {<<"terminal", m>>})
    BY <1>3 DEF RenameTerminal
  <2>2. ASSUME NEW d, d = Touch(doc, "terminal", m) PROVE CatalogueInv'
    <3>1. m \in Terms /\ IsMade(doc.terminal[m])
      BY KnownIsMade
    <3>2. Sound(d) /\ Visible(d) /\ Follows(doc, d) /\ Kept(doc, d)
      BY <2>2, <3>1, TouchTermKeeps
    <3>. QED BY <2>1, <2>2, <3>2, AtOnceKeeps
  <2>. QED BY <2>2
<1>. QED BY <1>1, <1>2, <1>3

LEMMA ReordersKeep ==
  ASSUME CatalogueInv, NEW c \in Clients, ReorderSessions(c) \/ ReorderTabs(c) \/ ReorderTerminals(c)
  PROVE  CatalogueInv'
<1>. USE DEF CatalogueInv
<1>1. \A kind, ids : Reorder(c, kind, ids) =>
        /\ ids \subseteq Known(kind)
        /\ \E o \in [ids -> Nat] : AtOnce(c, Reordered(doc, kind, o), All(kind, ids))
  <2>1. \A ids : Orders(ids) \subseteq [ids -> 0..Cardinality(ids) - 1]
    BY DEF Orders
  <2>2. \A ids, o : o \in [ids -> 0..Cardinality(ids) - 1] => o \in [ids -> Nat]
    OBVIOUS
  <2>. QED BY <2>1, <2>2 DEF Reorder
<1>2. CASE ReorderSessions(c)
  <2>. DEFINE ids == Open(doc, "session")
  <2>1. ids \subseteq Known("session")
        /\ \E o \in [ids -> Nat] : AtOnce(c, Reordered(doc, "session", o), All("session", ids))
    BY <1>1, <1>2 DEF ReorderSessions
  <2>. HIDE DEF ids
  <2>2. PICK o \in [ids -> Nat] : AtOnce(c, Reordered(doc, "session", o), All("session", ids))
    BY <2>1
  <2>3. ids \in SUBSET Sessions /\ \A s \in ids : IsMade(doc.session[s])
    BY <2>1, KnownIsMade
  <2>4. ASSUME NEW d, d = Reordered(doc, "session", o) PROVE CatalogueInv'
    <3>1. Sound(d) /\ Visible(d) /\ Follows(doc, d) /\ Kept(doc, d)
      BY <2>3, <2>4, ReorderSessionsKeeps
    <3>. QED BY <2>2, <2>4, <3>1, AtOnceKeeps
  <2>. QED BY <2>4
<1>3. CASE ReorderTabs(c)
  <2>1. PICK ids :
            ids \subseteq Known("tab")
            /\ \E o \in [ids -> Nat] : AtOnce(c, Reordered(doc, "tab", o), All("tab", ids))
    BY <1>1, <1>3 DEF ReorderTabs
  <2>2. PICK o \in [ids -> Nat] : AtOnce(c, Reordered(doc, "tab", o), All("tab", ids))
    BY <2>1
  <2>3. ids \in SUBSET Tabs /\ \A t \in ids : IsMade(doc.tab[t])
    BY <2>1, KnownIsMade
  <2>4. ASSUME NEW d, d = Reordered(doc, "tab", o) PROVE CatalogueInv'
    <3>1. Sound(d) /\ Visible(d) /\ Follows(doc, d) /\ Kept(doc, d)
      BY <2>3, <2>4, ReorderTabsKeeps
    <3>. QED BY <2>2, <2>4, <3>1, AtOnceKeeps
  <2>. QED BY <2>4
<1>4. CASE ReorderTerminals(c)
  <2>1. PICK ids :
            ids \subseteq Known("terminal")
            /\ \E o \in [ids -> Nat] : AtOnce(c, Reordered(doc, "terminal", o), All("terminal", ids))
    BY <1>1, <1>4 DEF ReorderTerminals
  <2>2. PICK o \in [ids -> Nat] : AtOnce(c, Reordered(doc, "terminal", o), All("terminal", ids))
    BY <2>1
  <2>3. ids \in SUBSET Terms /\ \A m \in ids : IsMade(doc.terminal[m])
    BY <2>1, KnownIsMade
  <2>4. ASSUME NEW d, d = Reordered(doc, "terminal", o) PROVE CatalogueInv'
    <3>1. Sound(d) /\ Visible(d) /\ Follows(doc, d) /\ Kept(doc, d)
      BY <2>3, <2>4, ReorderTermsKeeps
    <3>. QED BY <2>2, <2>4, <3>1, AtOnceKeeps
  <2>. QED BY <2>4
<1>. QED BY <1>2, <1>3, <1>4

LEMMA RestoreSessionKeeps ==
  ASSUME CatalogueInv, NEW c \in Clients, RestoreSession(c)
  PROVE  CatalogueInv'
<1>. USE DEF CatalogueInv
<1>1. PICK s \in Known("session") :
        AtOnce(c, [doc EXCEPT !.session[s] = [Revised(@) EXCEPT !.state = "open"]], {<<"session", s>>})
  BY DEF RestoreSession
<1>2. ASSUME NEW d, d = [doc EXCEPT !.session[s] = [Revised(@) EXCEPT !.state = "open"]]
      PROVE  CatalogueInv'
  <2>1. s \in Sessions /\ IsMade(doc.session[s])
    BY KnownIsMade
  <2>2. Sound(d) /\ Visible(d) /\ Follows(doc, d) /\ Kept(doc, d)
    BY <1>2, <2>1, RestoreKeeps
  <2>. QED BY <1>1, <1>2, <2>2, AtOnceKeeps
<1>. QED BY <1>2

LEMMA SelectTabStepKeeps ==
  ASSUME CatalogueInv, NEW c \in Clients, SelectTab(c)
  PROVE  CatalogueInv'
<1>. USE DEF CatalogueInv
<1>. DEFINE Selected(s, t) ==
              [doc EXCEPT !.session[s] = [Revised(@) EXCEPT !.tab = t,
                                            !.terminal = IF t = 0 THEN 0 ELSE doc.tab[t].terminal]]
<1>1. PICK s \in Known("session") :
        \E t \in (OpenTabs(doc, s) \cap Known("tab")) \cup {0} :
          AtOnce(c, Selected(s, t), {<<"session", s>>})
  BY DEF SelectTab
<1>2. PICK t \in (OpenTabs(doc, s) \cap Known("tab")) \cup {0} :
        AtOnce(c, Selected(s, t), {<<"session", s>>})
  BY <1>1
<1>3. ASSUME NEW d, d = Selected(s, t) PROVE CatalogueInv'
  <2>1. s \in Sessions /\ IsMade(doc.session[s])
    BY KnownIsMade
  <2>2. t = 0 \/ IsTabOf(doc, t, s)
    <3>1. doc \in Documents
      BY DEF Sound
    <3>. QED BY <3>1, Opened
  <2>3. Sound(d) /\ Visible(d) /\ Follows(doc, d) /\ Kept(doc, d)
    BY <1>3, <2>1, <2>2, SelectTabKeeps
  <2>. HIDE DEF Selected
  <2>. QED BY <1>2, <1>3, <2>3, AtOnceKeeps
<1>. QED BY <1>3

(* The commands that read first.                                                  *)
LEMMA AsksKeep ==
  ASSUME CatalogueInv, NEW c \in Clients,
         \/ AskCreateSession(c) \/ AskCreateTab(c) \/ AskCreateTerminal(c) \/ AskMoveTerminal(c)
         \/ AskSelectTerminal(c) \/ AskCloseTerminal(c) \/ AskArchiveTab(c) \/ AskArchiveSession(c)
  PROVE  CatalogueInv'
<1>1. /\ \A s \in Known("session") : s \in Sessions /\ IsMade(doc.session[s])
      /\ \A t \in Known("tab") : t \in Tabs /\ IsMade(doc.tab[t])
      /\ \A m \in Known("terminal") : m \in Terms /\ IsMade(doc.terminal[m])
  BY KnownIsMade DEF CatalogueInv
<1>2. CASE AskCreateSession(c)
  <2>1. Ask(c, "createSession", 0, 0, {}) /\ "createSession" \in Operations
    BY <1>2 DEF AskCreateSession, Operations
  <2>2. \A r : r.op = "createSession" => Fits(doc, r)
    BY DEF Fits
  <2>. QED BY <2>1, <2>2, AskKeeps
<1>3. CASE AskCreateTab(c)
  <2>1. PICK s \in Known("session") : Ask(c, "createTab", s, 0, {<<"session", s>>})
    BY <1>3 DEF AskCreateTab
  <2>2. \A r : r.op = "createTab" /\ r.on = s => Fits(doc, r)
    BY <1>1 DEF Fits
  <2>3. "createTab" \in Operations
    BY DEF Operations
  <2>. QED BY <2>1, <2>2, <2>3, AskKeeps
<1>4. CASE AskCreateTerminal(c)
  <2>1. PICK s \in Known("session") : \E t, es : Ask(c, "createTerminal", s, t, es)
    BY <1>4 DEF AskCreateTerminal
  <2>2. PICK t, es : Ask(c, "createTerminal", s, t, es)
    BY <2>1
  <2>3. \A r : r.op = "createTerminal" /\ r.on = s => Fits(doc, r)
    BY <1>1 DEF Fits
  <2>4. "createTerminal" \in Operations
    BY DEF Operations
  <2>. QED BY <2>2, <2>3, <2>4, AskKeeps
<1>5. CASE AskMoveTerminal(c)
  <2>1. PICK m \in Known("terminal") : \E t, es : Ask(c, "moveTerminal", m, t, es)
    BY <1>5 DEF AskMoveTerminal
  <2>2. PICK t, es : Ask(c, "moveTerminal", m, t, es)
    BY <2>1
  <2>3. \A r : r.op = "moveTerminal" /\ r.on = m => Fits(doc, r)
    BY <1>1 DEF Fits
  <2>4. "moveTerminal" \in Operations
    BY DEF Operations
  <2>. QED BY <2>2, <2>3, <2>4, AskKeeps
<1>6. CASE AskSelectTerminal(c)
  <2>1. PICK s \in Known("session") :
          \E m \in {n \in Known("terminal") : doc.terminal[n].session = s} \cup {0} :
            \E es : Ask(c, "selectTerminal", s, m, es)
    BY <1>6 DEF AskSelectTerminal
  <2>2. PICK m \in {n \in Known("terminal") : doc.terminal[n].session = s} \cup {0} :
          \E es : Ask(c, "selectTerminal", s, m, es)
    BY <2>1
  <2>3. PICK es : Ask(c, "selectTerminal", s, m, es)
    BY <2>2
  <2>4. \A r : r.op = "selectTerminal" /\ r.on = s /\ r.to = m => Fits(doc, r)
    BY <1>1 DEF Fits
  <2>5. "selectTerminal" \in Operations
    BY DEF Operations
  <2>. QED BY <2>3, <2>4, <2>5, AskKeeps
<1>7. CASE AskCloseTerminal(c)
  <2>1. PICK m \in Known("terminal") : \E es : Ask(c, "closeTerminal", m, 0, es)
    BY <1>7 DEF AskCloseTerminal
  <2>2. PICK es : Ask(c, "closeTerminal", m, 0, es)
    BY <2>1
  <2>3. \A r : r.op = "closeTerminal" /\ r.on = m => Fits(doc, r)
    BY <1>1 DEF Fits
  <2>4. "closeTerminal" \in Operations
    BY DEF Operations
  <2>. QED BY <2>2, <2>3, <2>4, AskKeeps
<1>8. CASE AskArchiveTab(c)
  <2>1. PICK t \in Known("tab") : Ask(c, "archiveTab", t, 0, {})
    BY <1>8 DEF AskArchiveTab
  <2>2. \A r : r.op = "archiveTab" /\ r.on = t => Fits(doc, r)
    BY <1>1 DEF Fits
  <2>3. "archiveTab" \in Operations
    BY DEF Operations
  <2>. QED BY <2>1, <2>2, <2>3, AskKeeps
<1>9. CASE AskArchiveSession(c)
  <2>1. PICK s \in Known("session") : \E es : Ask(c, "archiveSession", s, 0, es)
    BY <1>9 DEF AskArchiveSession
  <2>2. PICK es : Ask(c, "archiveSession", s, 0, es)
    BY <2>1
  <2>3. \A r : r.op = "archiveSession" /\ r.on = s => Fits(doc, r)
    BY <1>1 DEF Fits
  <2>4. "archiveSession" \in Operations
    BY DEF Operations
  <2>. QED BY <2>2, <2>3, <2>4, AskKeeps
<1>. QED BY <1>2, <1>3, <1>4, <1>5, <1>6, <1>7, <1>8, <1>9

LEMMA StepKeeps ==
  ASSUME CatalogueInv, CatalogueNext
  PROVE  CatalogueInv'
<1>. PICK c \in Clients :
        \/ RenameSession(c) \/ RestoreSession(c) \/ RenameTab(c) \/ SaveTabLayout(c)
        \/ RenameTerminal(c) \/ ReorderSessions(c) \/ ReorderTabs(c) \/ ReorderTerminals(c)
        \/ SelectTab(c)
        \/ AskCreateSession(c) \/ AskCreateTab(c) \/ AskCreateTerminal(c) \/ AskMoveTerminal(c)
        \/ AskSelectTerminal(c) \/ AskCloseTerminal(c) \/ AskArchiveTab(c) \/ AskArchiveSession(c)
        \/ Change(c) \/ Fail(c) \/ Look(c)
  BY DEF CatalogueNext
<1>1. CASE RenameSession(c) \/ RenameTab(c) \/ SaveTabLayout(c) \/ RenameTerminal(c)
  BY <1>1, RenamesKeep
<1>2. CASE ReorderSessions(c) \/ ReorderTabs(c) \/ ReorderTerminals(c)
  BY <1>2, ReordersKeep
<1>3. CASE RestoreSession(c)
  BY <1>3, RestoreSessionKeeps
<1>4. CASE SelectTab(c)
  BY <1>4, SelectTabStepKeeps
<1>5. CASE \/ AskCreateSession(c) \/ AskCreateTab(c) \/ AskCreateTerminal(c) \/ AskMoveTerminal(c)
           \/ AskSelectTerminal(c) \/ AskCloseTerminal(c) \/ AskArchiveTab(c) \/ AskArchiveSession(c)
  BY <1>5, AsksKeep
<1>6. CASE Change(c)
  BY <1>6, ChangeKeeps
<1>7. CASE Fail(c)
  BY <1>7, FailKeeps
<1>8. CASE Look(c)
  BY <1>8, LookKeeps
<1>. QED BY <1>1, <1>2, <1>3, <1>4, <1>5, <1>6, <1>7, <1>8

LEMMA StillKeeps ==
  ASSUME CatalogueInv, UNCHANGED catalogueVars
  PROVE  CatalogueInv'
<1>1. doc' = doc /\ seen' = seen /\ request' = request /\ edits' = edits
  BY DEF catalogueVars
<1>2. Asked' = Asked
  BY <1>1 DEF Asked
<1>3. RequestsFit' /\ SeenBefore' /\ Room'
  BY <1>1, <1>2 DEF CatalogueInv, RequestsFit, SeenBefore, ToldOf, Room, Left
<1>. QED BY <1>1, <1>3 DEF CatalogueInv

(* One session with two tabs and a terminal in each.                               *)
LEMMA StartKeeps ==
  ASSUME CatalogueInit
  PROVE  CatalogueInv
<1>1. MaxEdits \in Nat
  BY Numbers
<1>2. /\ DOMAIN doc.session = Sessions /\ DOMAIN doc.tab = Tabs /\ DOMAIN doc.terminal = Terms
      /\ DOMAIN doc = Kinds /\ doc \in [session : {doc.session}, tab : {doc.tab}, terminal : {doc.terminal}]
  BY DEF CatalogueInit, Kinds
<1>3. /\ 1 \in Sessions /\ {1, 2} \subseteq Tabs /\ {1, 2} \subseteq Terms
      /\ \A s \in Sessions : s \in Nat \ {0}
      /\ \A t \in Tabs : t \in Nat \ {0} /\ (t <= 2 <=> t \in {1, 2})
      /\ \A m \in Terms : m \in Nat \ {0} /\ (m <= 2 <=> m \in {1, 2})
  BY <1>1 DEF Sessions, Tabs, Terms
<1>4. /\ doc.session[1] = [state |-> "open", position |-> 0, tab |-> 2, terminal |-> 2, revision |-> 4]
      /\ \A s \in Sessions : s # 1 => doc.session[s] =
            [state |-> "none", position |-> 0, tab |-> 0, terminal |-> 0, revision |-> 0]
  BY <1>3 DEF CatalogueInit
<1>5. /\ \A t \in {1, 2} : doc.tab[t] =
            [state |-> "open", session |-> 1, position |-> t - 1, terminal |-> t, revision |-> 2]
      /\ \A t \in Tabs \ {1, 2} : doc.tab[t] =
            [state |-> "none", session |-> 0, position |-> 0, terminal |-> 0, revision |-> 0]
  BY <1>3 DEF CatalogueInit, NewTab
<1>6. /\ \A m \in {1, 2} : doc.terminal[m] =
            [state |-> "open", session |-> 1, tab |-> m, position |-> 0, revision |-> 3]
      /\ \A m \in Terms \ {1, 2} : doc.terminal[m] =
            [state |-> "none", session |-> 0, tab |-> 0, position |-> 0, revision |-> 0]
  BY <1>3 DEF CatalogueInit
<1>7. doc \in Documents
  <2>1. ASSUME NEW s \in Sessions PROVE doc.session[s] \in SessionRecords
    BY <1>3, <1>4 DEF SessionRecords, States
  <2>2. ASSUME NEW t \in Tabs PROVE doc.tab[t] \in TabRecords
    BY <1>3, <1>5 DEF TabRecords, States
  <2>3. ASSUME NEW m \in Terms PROVE doc.terminal[m] \in TermRecords
    BY <1>3, <1>6 DEF TermRecords, States
  <2>4. /\ doc.session = [s \in Sessions |-> doc.session[s]]
        /\ doc.tab = [t \in Tabs |-> doc.tab[t]]
        /\ doc.terminal = [m \in Terms |-> doc.terminal[m]]
    BY DEF CatalogueInit
  <2>5. /\ doc.session \in [Sessions -> SessionRecords] /\ doc.tab \in [Tabs -> TabRecords]
        /\ doc.terminal \in [Terms -> TermRecords]
    BY <2>1, <2>2, <2>3, <2>4
  <2>. QED BY <1>2, <2>5 DEF Documents
<1>8. /\ \A t \in {1, 2} : IsTabOf(doc, t, 1)
      /\ \A m \in {1, 2} : IsTermOf(doc, m, m)
      /\ \A t : \A m \in {1, 2} : IsTermOf(doc, m, t) => t = m
  BY <1>3, <1>5, <1>6 DEF IsTabOf, IsTermOf
<1>9. Sound(doc) /\ Visible(doc)
  <2>1. ASSUME NEW s \in Sessions PROVE SessionShows(doc, s)
    BY <1>3, <1>4, <1>5, <1>8 DEF SessionShows
  <2>2. ASSUME NEW t \in Tabs PROVE TabShows(doc, t)
    BY <1>3, <1>5, <1>8 DEF TabShows
  <2>3. ASSUME NEW m \in Terms PROVE Placed(doc, m)
    BY <1>3, <1>6, <1>8 DEF Placed
  <2>4. Made(doc)
    <3>1. ASSUME NEW s \in Sessions PROVE IsMade(doc.session[s]) \/ IsUnmade(doc.session[s])
      BY <1>3, <1>4 DEF IsMade, IsUnmade
    <3>2. IsMade(doc.session[1])
      BY <1>4 DEF IsMade
    <3>3. ASSUME NEW t \in Tabs PROVE OfSession(doc, doc.tab[t])
      BY <1>3, <1>5, <3>2 DEF IsMade, IsUnmade, OfSession
    <3>4. ASSUME NEW m \in Terms PROVE OfSession(doc, doc.terminal[m])
      BY <1>3, <1>6, <3>2 DEF IsMade, IsUnmade, OfSession
    <3>. QED BY <3>1, <3>3, <3>4 DEF Made
  <2>5. Visible(doc)
    BY <1>3, <1>4 DEF Visible
  <2>. QED BY <1>7, <2>1, <2>2, <2>3, <2>4, <2>5 DEF Sound
<1>10. Asked = {} /\ RequestsFit
  BY DEF CatalogueInit, Asked, Idle, RequestsFit, IsRequest
<1>11. SeenBefore
  <2>1. seen = [k \in DOMAIN doc |-> [i \in DOMAIN doc[k] |-> doc[k][i].revision]]
    BY DEF CatalogueInit, Revisions
  <2>2. ASSUME NEW k \in Kinds, NEW i \in DOMAIN doc[k] PROVE doc[k][i].revision \in Nat
    <3>1. doc["session"] = doc.session /\ doc["tab"] = doc.tab /\ doc["terminal"] = doc.terminal
      OBVIOUS
    <3>. QED BY <1>2, <1>7, <3>1, Typed DEF Kinds, SessionRecords, TabRecords, TermRecords
  <2>. QED BY <1>2, <2>1, <2>2 DEF SeenBefore, ToldOf
<1>12. Room
  <2>1. /\ Unused(doc.session) = 2..MaxEdits + 1
        /\ Unused(doc.tab) = 3..MaxEdits + 2
        /\ Unused(doc.terminal) = 3..MaxEdits + 2
    <3>1. \A s : s \in Unused(doc.session) <=> s \in Sessions \ {1}
      BY <1>3, <1>4, <1>7, UnusedRows
    <3>2. \A t : t \in Unused(doc.tab) <=> t \in Tabs \ {1, 2}
      BY <1>3, <1>5, <1>7, UnusedRows
    <3>3. \A m : m \in Unused(doc.terminal) <=> m \in Terms \ {1, 2}
      BY <1>3, <1>6, <1>7, UnusedRows
    <3>4. /\ \A i : i \in Sessions \ {1} <=> i \in 2..MaxEdits + 1
          /\ \A i : i \in Tabs \ {1, 2} <=> i \in 3..MaxEdits + 2
          /\ \A i : i \in Terms \ {1, 2} <=> i \in 3..MaxEdits + 2
      BY <1>1 DEF Sessions, Tabs, Terms
    <3>. QED BY <3>1, <3>2, <3>3, <3>4
  <2>2. Cardinality(2..MaxEdits + 1) = MaxEdits /\ Cardinality(3..MaxEdits + 2) = MaxEdits
    <3>1. \A a, b \in Int : Cardinality(a..b) = IF a <= b THEN b - a + 1 ELSE 0
      BY FS_Interval
    <3>. QED BY <1>1, <3>1
  <2>3. Cardinality(Asked) = 0
    BY <1>10, FS_EmptySet
  <2>4. edits = 0
    BY DEF CatalogueInit
  <2>. QED BY <1>1, <2>1, <2>2, <2>3, <2>4 DEF Room, Left
<1>. QED BY <1>9, <1>10, <1>11, <1>12 DEF CatalogueInv

LEMMA InvIsSound ==
  ASSUME CatalogueInv
  PROVE  CatalogueSound
<1>1. doc \in Documents /\ Sound(doc) /\ Visible(doc)
  BY DEF CatalogueInv, Sound
<1>2. /\ \A s : s \in Open(doc, "session") <=> s \in Sessions /\ doc.session[s].state = "open"
      /\ \A s, t : t \in OpenTabs(doc, s) <=> IsTabOf(doc, t, s)
      /\ \A t, m : m \in OpenTerms(doc, t) <=> IsTermOf(doc, m, t)
      /\ \A m : m \in Open(doc, "terminal") <=> m \in Terms /\ doc.terminal[m].state = "open"
  BY <1>1, Opened DEF Documents, Open
<1>3. Open(doc, "session") # {}
  BY <1>1, <1>2 DEF Visible
<1>4. ASSUME NEW s \in Sessions, doc.session[s].state # "none"
      PROVE  /\ OpenTabs(doc, s) # {}
             /\ doc.session[s].tab \in OpenTabs(doc, s) \cup {0}
             /\ doc.session[s].terminal # 0 =>
                  /\ doc.session[s].tab # 0
                  /\ doc.session[s].terminal = doc.tab[doc.session[s].tab].terminal
  <2>1. SessionShows(doc, s)
    BY <1>1 DEF Sound
  <2>. QED BY <1>2, <1>4, <2>1 DEF SessionShows
<1>5. ASSUME NEW t \in Tabs, doc.tab[t].state = "open"
      PROVE  IF OpenTerms(doc, t) = {} THEN doc.tab[t].terminal = 0
             ELSE doc.tab[t].terminal \in OpenTerms(doc, t)
  <2>1. TabShows(doc, t)
    BY <1>1 DEF Sound
  <2>2. (\A m \in Terms : ~IsTermOf(doc, m, t)) => OpenTerms(doc, t) = {}
    BY <1>2 DEF IsTermOf
  <2>. QED BY <1>2, <1>5, <2>1, <2>2 DEF TabShows
<1>6. ASSUME NEW m \in Open(doc, "terminal")
      PROVE  doc.terminal[m].tab \in OpenTabs(doc, doc.terminal[m].session)
  <2>1. m \in Terms /\ doc.terminal[m].state = "open"
    BY <1>2
  <2>2. Placed(doc, m)
    BY <1>1, <2>1 DEF Sound
  <2>. QED BY <1>2, <2>1, <2>2 DEF Placed
<1>. QED BY <1>3, <1>4, <1>5, <1>6 DEF CatalogueSound

-----------------------------------------------------------------------------
(* For any clients and any number of commands, no order of creates, moves,       *)
(* closes, archives and selections leaves the document of store.rs inconsistent: *)
(* a session is open; every session, an archived one too, has an open tab; what  *)
(* a session shows is an open tab of it and that tab's terminal; a tab shows a   *)
(* terminal of its own, and one if it has any; a closed tab has none.            *)
THEOREM CatalogueHolds == CatalogueSpec => []CatalogueSound
<1>1. CatalogueInit => CatalogueInv
  BY StartKeeps
<1>2. CatalogueInv /\ [CatalogueNext]_catalogueVars => CatalogueInv'
  BY StepKeeps, StillKeeps
<1>3. CatalogueInv => CatalogueSound
  BY InvIsSound
<1>. QED BY <1>1, <1>2, <1>3, PTL DEF CatalogueSpec

-----------------------------------------------------------------------------
(* Everybody is told.  What is not told, and not left untold for good, will be   *)
(* found by a client that looks again.                                          *)

Told(told, s) == s \in Sessions /\ told["session"][s] > 0
OpenTabOf(d, s, x) == x[1] = "tab" /\ IsTabOf(d, x[2], s)
Newer(d, r, x) == x \in DOMAIN r.before => Rev(d, x) > r.before[x]

(* A session that the request did not read, and nobody was told of, ...           *)
Others(d, told, r, s) ==
    /\ s \in Sessions /\ d.session[s].state = "open" /\ told["session"][s] = 0
    /\ <<"session", s>> \notin DOMAIN r.before
(* ... and what an entry of what is looked at finds.                              *)
Covers(d, told, r, l, x) ==
    \/ l = x /\ Newer(d, r, x)
    \/ l[1] = "tabs" /\ OpenTabOf(d, l[2], x)
    \/ l[1] = "snapshot" /\ Newer(d, r, x) /\ (x = <<"session", l[2]>> \/ OpenTabOf(d, l[2], x))
    \/ l[1] = "others" /\ \E s : Others(d, told, r, s) /\ (x = <<"session", s>> \/ OpenTabOf(d, s, x))
Owed(d, told, r, x) == r.at = "look" /\ \E i \in DOMAIN r.look : Covers(d, told, r, r.look[i], x)

(* A request compares the session it is about with itself, and a tab with itself  *)
(* or with nothing; its session is one that clients know.                        *)
OneOf(r, kind) == \A x, y \in DOMAIN r.before : x[1] = kind /\ y[1] = kind => x = y
ReadOnly(r, s) == <<"session", s>> \in DOMAIN r.before /\ OneOf(r, "session")
OnSession(told, r, s) == Told(told, s) /\ ReadOnly(r, s) /\ OneOf(r, "tab")
AskFits(d, told, r) ==
    /\ r.op \in {"createTab", "createTerminal", "selectTerminal"} => OnSession(told, r, r.on)
    /\ r.op = "closeTerminal" => OnSession(told, r, d.terminal[r.on].session)
    /\ r.op = "moveTerminal" =>
         /\ Told(told, d.terminal[r.on].session)
         /\ <<"session", d.terminal[r.on].session>> \in DOMAIN r.before
    /\ r.op = "archiveTab" => Told(told, d.tab[r.on].session)
    /\ r.op = "archiveSession" => Told(told, r.on)
LookKinds == {"tab", "session", "tabs", "snapshot", "others"}
LookFits(d, told, r, l) ==
    /\ l[1] \in LookKinds /\ l = <<l[1], l[2]>>
    /\ l[1] = "tab" =>
         l[2] \in Tabs /\ IsMade(d.tab[l[2]]) /\ Told(told, d.tab[l[2]].session) /\ OneOf(r, "tab")
    /\ l[1] = "session" => Told(told, l[2]) /\ ReadOnly(r, l[2])
    /\ l[1] = "tabs" => Told(told, l[2])
    /\ l[1] = "snapshot" => Told(told, l[2]) /\ <<"session", l[2]>> \in DOMAIN r.before
RequestTells(d, told, r) ==
    /\ \A x \in DOMAIN r.before : x \in Entities /\ r.before[x] \in Nat /\ r.before[x] <= Rev(d, x)
                                  /\ Rev(d, x) # 0
    /\ r.at = "asked" => AskFits(d, told, r)
    /\ r.at = "look" =>
         /\ r.look \in Seq(LookKinds \X Nat) /\ r.look # <<>>
         /\ \A i \in DOMAIN r.look : LookFits(d, told, r, r.look[i])

RequestsTell == \A c \in Clients : RequestTells(doc, seen, request[c])
SessionsTold ==
    /\ \A t \in Tabs : seen["tab"][t] > 0 => Told(seen, doc.tab[t].session)
    /\ \A m \in Terms : seen["terminal"][m] > 0 => Told(seen, doc.terminal[m].session)
Heard(told, x) == told[x[1]][x[2]]
AllOwed ==
    \A x \in Entities \ untold : Heard(seen, x) # Rev(doc, x) =>
        \E c \in Clients : Owed(doc, seen, request[c], x)

(* A terminal, also a closed one, is of a tab of its session.                     *)
Homes(d) ==
    \A m \in Terms : IsMade(d.terminal[m]) =>
        LET t == d.terminal[m].tab IN
        t \in Tabs /\ IsMade(d.tab[t]) /\ d.tab[t].session = d.terminal[m].session

ToldInv == CatalogueInv /\ RequestsTell /\ SessionsTold /\ AllOwed /\ Homes(doc)

(* What a step does to the document and tells leaves what is owed findable: a tab *)
(* closes only if that is told, a session nobody knows stays so or is told with   *)
(* its tabs, and nothing is told of before its session.                          *)
Announced(told, e, es, s) ==
    s \in Sessions /\ (told["session"][s] > 0 \/ (<<"session", s>> \in es /\ IsMade(e.session[s])))
TabsGo(d, e, es) == \A t, s : IsTabOf(d, t, s) => IsTabOf(e, t, s) \/ <<"tab", t>> \in es
OthersGo(d, told, e, es) ==
    \A s \in Sessions : d.session[s].state = "open" /\ told["session"][s] = 0 =>
        /\ e.session[s].state = "open"
        /\ <<"session", s>> \in es => \A t : IsTabOf(e, t, s) => <<"tab", t>> \in es
TabsStay(d, e) == \A t \in Tabs : IsMade(d.tab[t]) => e.tab[t].session = d.tab[t].session
AllAnnounced(told, e, es) ==
    /\ \A t \in Tabs : <<"tab", t>> \in es => Announced(told, e, es, e.tab[t].session)
    /\ \A m \in Terms : <<"terminal", m>> \in es => Announced(told, e, es, e.terminal[m].session)
TermsGo(d, e) ==
    \A m \in Terms :
        \/ e.terminal[m].state = "open"
        \/ IsUnmade(e.terminal[m])
        \/ IsMade(d.terminal[m]) /\ e.terminal[m].tab = d.terminal[m].tab
Goes(d, told, e, es) ==
    /\ TabsStay(d, e) /\ TabsGo(d, e, es) /\ TermsGo(d, e)
    /\ OthersGo(d, told, e, es) /\ AllAnnounced(told, e, es)

LEMMA EntityKinds ==
  ASSUME NEW x \in Entities
  PROVE  /\ x = <<x[1], x[2]>>
         /\ \/ x[1] = "session" /\ x[2] \in Sessions
            \/ x[1] = "tab" /\ x[2] \in Tabs
            \/ x[1] = "terminal" /\ x[2] \in Terms
BY DEF Entities

LEMMA EntitiesAre ==
  /\ \A s \in Sessions : <<"session", s>> \in Entities
  /\ \A t \in Tabs : <<"tab", t>> \in Entities
  /\ \A m \in Terms : <<"terminal", m>> \in Entities
BY DEF Entities

LEMMA RevOf ==
  ASSUME NEW d \in Documents, NEW x \in Entities
  PROVE  /\ Rev(d, x) \in Nat
         /\ x[1] = "session" => Rev(d, x) = d.session[x[2]].revision
         /\ x[1] = "tab" => Rev(d, x) = d.tab[x[2]].revision
         /\ x[1] = "terminal" => Rev(d, x) = d.terminal[x[2]].revision
<1>1. CASE x[1] = "session" /\ x[2] \in Sessions
  <2>1. d[x[1]] = d.session
    BY <1>1
  <2>2. d.session[x[2]] \in SessionRecords
    BY <1>1, Typed
  <2>. QED BY <1>1, <2>1, <2>2 DEF Rev, SessionRecords
<1>2. CASE x[1] = "tab" /\ x[2] \in Tabs
  <2>1. d[x[1]] = d.tab
    BY <1>2
  <2>2. d.tab[x[2]] \in TabRecords
    BY <1>2, Typed
  <2>. QED BY <1>2, <2>1, <2>2 DEF Rev, TabRecords
<1>3. CASE x[1] = "terminal" /\ x[2] \in Terms
  <2>1. d[x[1]] = d.terminal
    BY <1>3
  <2>2. d.terminal[x[2]] \in TermRecords
    BY <1>3, Typed
  <2>. QED BY <1>3, <2>1, <2>2 DEF Rev, TermRecords
<1>. QED BY <1>1, <1>2, <1>3, EntityKinds

LEMMA RevGrows ==
  ASSUME NEW d \in Documents, NEW e \in Documents, Follows(d, e), NEW x \in Entities
  PROVE  Rev(d, x) <= Rev(e, x) /\ Rev(d, x) \in Nat /\ Rev(e, x) \in Nat
<1>1. Rev(d, x) \in Nat /\ Rev(e, x) \in Nat
  BY RevOf
<1>. QED BY <1>1, EntityKinds, RevOf DEF Follows

LEMMA HeardOf ==
  ASSUME Sound(doc), SeenBefore, NEW x \in Entities
  PROVE  Heard(seen, x) \in Nat /\ Heard(seen, x) <= Rev(doc, x) /\ x[1] \in DOMAIN seen
         /\ x[2] \in DOMAIN seen[x[1]]
<1>1. x[1] \in Kinds
  BY EntityKinds DEF Kinds
<1>2. ToldOf(seen[x[1]], doc[x[1]])
  BY <1>1 DEF SeenBefore
<1>3. x[2] \in DOMAIN doc[x[1]]
  <2>1. doc \in Documents
    BY DEF Sound
  <2>2. CASE x[1] = "session" /\ x[2] \in Sessions
    BY <2>1, <2>2, Typed
  <2>3. CASE x[1] = "tab" /\ x[2] \in Tabs
    BY <2>1, <2>3, Typed
  <2>4. CASE x[1] = "terminal" /\ x[2] \in Terms
    BY <2>1, <2>4, Typed
  <2>. QED BY <2>2, <2>3, <2>4, EntityKinds
<1>. QED BY <1>1, <1>2, <1>3 DEF Heard, ToldOf, Rev, SeenBefore

(* What is told after a step.                                                    *)
HeardNext(es) ==
    \A x \in Entities : Heard(seen', x) = IF x \in es THEN Rev(doc', x) ELSE Heard(seen, x)

LEMMA TellHeard ==
  ASSUME Sound(doc), SeenBefore, doc' \in Documents, Follows(doc, doc'), NEW es, Tell(doc', es)
  PROVE  HeardNext(es)
<1>1. doc \in Documents
  BY DEF Sound
<1>2. ASSUME NEW x \in Entities
      PROVE  Heard(seen', x) = IF x \in es THEN Rev(doc', x) ELSE Heard(seen, x)
  <2>1. /\ Heard(seen, x) \in Nat /\ Heard(seen, x) <= Rev(doc, x) /\ x[1] \in DOMAIN seen
        /\ x[2] \in DOMAIN seen[x[1]]
    BY HeardOf
  <2>2. Rev(doc, x) <= Rev(doc', x) /\ Rev(doc, x) \in Nat /\ Rev(doc', x) \in Nat
    BY <1>1, RevGrows
  <2>3. x = <<x[1], x[2]>>
    BY EntityKinds
  <2>4. Heard(seen', x) = IF x \in es THEN Max({Rev(doc', x), Heard(seen, x)}) ELSE Heard(seen, x)
    BY <2>1, <2>3 DEF Tell, Heard, Rev
  <2>5. /\ Max({Rev(doc', x), Heard(seen, x)}) \in {Rev(doc', x), Heard(seen, x)}
        /\ Max({Rev(doc', x), Heard(seen, x)}) >= Rev(doc', x)
    BY <2>1, <2>2, GreatestOf
  <2>6. Max({Rev(doc', x), Heard(seen, x)}) = Rev(doc', x)
    BY <2>1, <2>2, <2>5
  <2>. QED BY <2>4, <2>6
<1>. QED BY <1>2 DEF HeardNext

LEMMA SameHeard ==
  ASSUME seen' = seen
  PROVE  HeardNext({})
BY DEF HeardNext, Heard

(* What is told of a session, and that it is told of, is known at once.            *)
LEMMA ToldNext ==
  ASSUME Sound(doc), SeenBefore, Sound(doc'), Follows(doc, doc'), NEW es, HeardNext(es),
         NEW s \in Sessions
  PROVE  /\ Told(seen, s) => Told(seen', s)
         /\ <<"session", s>> \in es /\ IsMade(doc'.session[s]) => Told(seen', s)
         /\ <<"session", s>> \notin es => seen'["session"][s] = seen["session"][s]
<1>. DEFINE x == <<"session", s>>
<1>1. x \in Entities /\ x[1] = "session" /\ x[2] = s
  BY EntitiesAre
<1>2. doc \in Documents /\ doc' \in Documents
  BY DEF Sound
<1>3. Rev(doc, x) <= Rev(doc', x) /\ Rev(doc, x) \in Nat /\ Rev(doc', x) \in Nat
  <2>. HIDE DEF x
  <2>. QED BY <1>1, <1>2, RevGrows
<1>4. Heard(seen, x) \in Nat /\ Heard(seen, x) <= Rev(doc, x)
  <2>. HIDE DEF x
  <2>. QED BY <1>1, HeardOf
<1>5. Rev(doc', x) = doc'.session[s].revision
  <2>. HIDE DEF x
  <2>. QED BY <1>1, <1>2, RevOf
<1>6. Heard(seen, x) = seen["session"][s] /\ Heard(seen', x) = seen'["session"][s]
  BY DEF Heard
<1>7. Heard(seen', x) = IF x \in es THEN Rev(doc', x) ELSE Heard(seen, x)
  <2>. HIDE DEF x
  <2>. QED BY <1>1 DEF HeardNext
<1>. HIDE DEF x
<1>8. Told(seen, s) => Told(seen', s)
  BY <1>3, <1>4, <1>6, <1>7 DEF Told
<1>9. x \in es /\ IsMade(doc'.session[s]) => Told(seen', s)
  BY <1>3, <1>5, <1>6, <1>7 DEF Told, IsMade
<1>10. x \notin es => seen'["session"][s] = seen["session"][s]
  BY <1>6, <1>7
<1>. QED BY <1>8, <1>9, <1>10 DEF x

LEMMA OpenTabStays ==
  ASSUME NEW d, NEW e, NEW es, TabsGo(d, e, es), NEW x \in Entities, x \notin es
  PROVE  \A s : OpenTabOf(d, s, x) => OpenTabOf(e, s, x)
<1>1. x = <<x[1], x[2]>>
  BY EntityKinds
<1>2. ASSUME NEW s, OpenTabOf(d, s, x) PROVE OpenTabOf(e, s, x)
  <2>1. x = <<"tab", x[2]>> /\ x[1] = "tab"
    BY <1>1, <1>2 DEF OpenTabOf
  <2>2. IsTabOf(d, x[2], s)
    BY <1>2 DEF OpenTabOf
  <2>. QED BY <2>1, <2>2 DEF OpenTabOf, TabsGo
<1>. QED BY <1>2

LEMMA OthersStay ==
  ASSUME Sound(doc), SeenBefore, Sound(doc'), Follows(doc, doc'), NEW es, HeardNext(es),
         Goes(doc, seen, doc', es), NEW x \in Entities, x \notin es, NEW r, NEW s,
         Others(doc, seen, r, s), x = <<"session", s>> \/ OpenTabOf(doc, s, x)
  PROVE  Others(doc', seen', r, s) /\ (x = <<"session", s>> \/ OpenTabOf(doc', s, x))
<1>1. s \in Sessions /\ doc.session[s].state = "open" /\ seen["session"][s] = 0
  BY DEF Others
<1>2. /\ doc'.session[s].state = "open"
      /\ <<"session", s>> \in es => \A t : IsTabOf(doc', t, s) => <<"tab", t>> \in es
  BY <1>1 DEF Goes, OthersGo
<1>3. x = <<"session", s>> \/ OpenTabOf(doc', s, x)
  <2>1. TabsGo(doc, doc', es)
    BY DEF Goes
  <2>. QED BY <2>1, OpenTabStays
<1>4. <<"session", s>> \notin es
  <2>1. CASE OpenTabOf(doc', s, x)
    <3>1. x = <<"tab", x[2]>> /\ IsTabOf(doc', x[2], s)
      BY <2>1, EntityKinds DEF OpenTabOf
    <3>. QED BY <1>2, <3>1
  <2>. QED BY <1>3, <2>1
<1>5. seen'["session"][s] = seen["session"][s]
  BY <1>1, <1>4, ToldNext
<1>. QED BY <1>1, <1>2, <1>3, <1>5 DEF Others

(* What an entry finds it still finds, if that is not told meanwhile.              *)
LEMMA CoversStay ==
  ASSUME Sound(doc), SeenBefore, Sound(doc'), Follows(doc, doc'), NEW es, HeardNext(es),
         Goes(doc, seen, doc', es), NEW x \in Entities, x \notin es, Rev(doc', x) = Rev(doc, x),
         NEW r, NEW l, Covers(doc, seen, r, l, x)
  PROVE  Covers(doc', seen', r, l, x)
<1>1. Newer(doc, r, x) => Newer(doc', r, x)
  BY DEF Newer
<1>2. \A s : OpenTabOf(doc, s, x) => OpenTabOf(doc', s, x)
  <2>1. TabsGo(doc, doc', es)
    BY DEF Goes
  <2>. QED BY <2>1, OpenTabStays
<1>3. CASE l[1] = "others" /\ \E s : Others(doc, seen, r, s) /\ (x = <<"session", s>> \/ OpenTabOf(doc, s, x))
  <2>1. PICK s : Others(doc, seen, r, s) /\ (x = <<"session", s>> \/ OpenTabOf(doc, s, x))
    BY <1>3
  <2>2. Others(doc', seen', r, s) /\ (x = <<"session", s>> \/ OpenTabOf(doc', s, x))
    BY <2>1, OthersStay
  <2>. QED BY <1>3, <2>2 DEF Covers
<1>4. CASE l = x /\ Newer(doc, r, x)
  BY <1>1, <1>4 DEF Covers
<1>5. CASE l[1] = "tabs" /\ OpenTabOf(doc, l[2], x)
  BY <1>2, <1>5 DEF Covers
<1>6. CASE l[1] = "snapshot" /\ Newer(doc, r, x) /\ (x = <<"session", l[2]>> \/ OpenTabOf(doc, l[2], x))
  BY <1>1, <1>2, <1>6 DEF Covers
<1>. QED BY <1>3, <1>4, <1>5, <1>6 DEF Covers

LEMMA OwedStays ==
  ASSUME Sound(doc), SeenBefore, Sound(doc'), Follows(doc, doc'), NEW es, HeardNext(es),
         Goes(doc, seen, doc', es), NEW x \in Entities, x \notin es, Rev(doc', x) = Rev(doc, x),
         NEW r, Owed(doc, seen, r, x)
  PROVE  Owed(doc', seen', r, x)
<1>1. PICK i \in DOMAIN r.look : Covers(doc, seen, r, r.look[i], x)
  BY DEF Owed
<1>2. Covers(doc', seen', r, r.look[i], x)
  BY <1>1, CoversStay
<1>. QED BY <1>2 DEF Owed

(* Requests go on fitting what they are about.                                    *)
LEMMA SessionsOf ==
  ASSUME Sound(doc), TabsStay(doc, doc'), Follows(doc, doc')
  PROVE  /\ \A t \in Tabs : IsMade(doc.tab[t]) =>
              doc'.tab[t].session = doc.tab[t].session /\ doc.tab[t].session \in Sessions
         /\ \A m \in Terms : IsMade(doc.terminal[m]) =>
              doc'.terminal[m].session = doc.terminal[m].session /\ doc.terminal[m].session \in Sessions
BY DEF Sound, Made, OfSession, IsMade, IsUnmade, TabsStay, Follows

LEMMA SessionStaysTold ==
  ASSUME Sound(doc), SeenBefore, Sound(doc'), Follows(doc, doc'), NEW es, HeardNext(es), NEW s
  PROVE  Told(seen, s) => Told(seen', s)
<1>1. CASE s \in Sessions
  BY <1>1, ToldNext
<1>2. CASE s \notin Sessions
  BY <1>2 DEF Told
<1>. QED BY <1>1, <1>2

LEMMA RequestStays ==
  ASSUME Sound(doc), SeenBefore, Sound(doc'), Follows(doc, doc'), NEW es, HeardNext(es),
         TabsStay(doc, doc'), NEW r, r.at = "asked" => Fits(doc, r) /\ r.op \in Operations,
         RequestTells(doc, seen, r)
  PROVE  RequestTells(doc', seen', r)
<1>1. doc \in Documents /\ doc' \in Documents
  BY DEF Sound
<1>2. ASSUME NEW x \in DOMAIN r.before
      PROVE  /\ x \in Entities /\ r.before[x] \in Nat /\ r.before[x] <= Rev(doc', x)
             /\ Rev(doc', x) # 0
  <2>1. /\ x \in Entities /\ r.before[x] \in Nat /\ r.before[x] <= Rev(doc, x)
        /\ Rev(doc, x) # 0
    BY DEF RequestTells
  <2>2. Rev(doc, x) <= Rev(doc', x) /\ Rev(doc, x) \in Nat /\ Rev(doc', x) \in Nat
    BY <1>1, <2>1, RevGrows
  <2>. QED BY <2>1, <2>2
<1>3. \A s : Told(seen, s) => Told(seen', s)
  BY SessionStaysTold
<1>4. ASSUME r.at = "asked" PROVE AskFits(doc', seen', r)
  <2>1. AskFits(doc, seen, r) /\ Fits(doc, r) /\ r.op \in Operations
    BY <1>4 DEF RequestTells
  <2>2. \A s : OnSession(seen, r, s) => OnSession(seen', r, s)
    BY <1>3 DEF OnSession
  <2>3. r.op \in {"moveTerminal", "closeTerminal"} => doc'.terminal[r.on].session = doc.terminal[r.on].session
    BY <2>1, SessionsOf DEF Fits
  <2>4. r.op = "archiveTab" => doc'.tab[r.on].session = doc.tab[r.on].session
    BY <2>1, SessionsOf DEF Fits
  <2>. QED BY <1>3, <2>1, <2>2, <2>3, <2>4 DEF AskFits
<1>5. ASSUME r.at = "look", NEW i \in DOMAIN r.look PROVE LookFits(doc', seen', r, r.look[i])
  <2>. DEFINE l == r.look[i]
  <2>1. LookFits(doc, seen, r, l)
    BY <1>5 DEF RequestTells
  <2>. HIDE DEF l
  <2>2. l[1] = "tab" => /\ doc'.tab[l[2]].session = doc.tab[l[2]].session
                        /\ IsMade(doc'.tab[l[2]])
    <3>1. l[1] = "tab" => l[2] \in Tabs /\ IsMade(doc.tab[l[2]])
      BY <2>1 DEF LookFits
    <3>. QED BY <3>1, SessionsOf, MadeStays
  <2>3. LookFits(doc', seen', r, l)
    BY <1>3, <2>1, <2>2 DEF LookFits
  <2>. QED BY <2>3 DEF l
<1>6. r.at = "look" => r.look \in Seq(LookKinds \X Nat) /\ r.look # <<>>
  BY DEF RequestTells
<1>. QED BY <1>2, <1>4, <1>5, <1>6 DEF RequestTells

LEMMA SessionsStayTold ==
  ASSUME Sound(doc), SeenBefore, Sound(doc'), Follows(doc, doc'), NEW es, HeardNext(es),
         Goes(doc, seen, doc', es), SessionsTold
  PROVE  SessionsTold'
<1>1. \A s : Told(seen, s) => Told(seen', s)
  BY SessionStaysTold
<1>2. ASSUME NEW s, Announced(seen, doc', es, s) PROVE Told(seen', s)
  <2>1. s \in Sessions /\ (Told(seen, s) \/ (<<"session", s>> \in es /\ IsMade(doc'.session[s])))
    BY <1>2 DEF Announced, Told
  <2>. QED BY <2>1, ToldNext
<1>3. ASSUME NEW t \in Tabs, seen'["tab"][t] > 0 PROVE Told(seen', doc'.tab[t].session)
  <2>1. CASE <<"tab", t>> \in es
    BY <1>2, <2>1 DEF Goes, AllAnnounced
  <2>2. CASE <<"tab", t>> \notin es
    <3>1. seen["tab"][t] > 0
      <4>1. Heard(seen', <<"tab", t>>) = Heard(seen, <<"tab", t>>)
        BY <2>2, EntitiesAre DEF HeardNext
      <4>. QED BY <1>3, <4>1 DEF Heard
    <3>2. Told(seen, doc.tab[t].session)
      BY <3>1 DEF SessionsTold
    <3>3. IsMade(doc.tab[t])
      <4>1. t \in Known("tab")
        <5>1. doc["tab"] = doc.tab /\ doc \in Documents
          BY DEF Sound
        <5>. QED BY <3>1, <5>1, Typed DEF Known
      <4>. QED BY <4>1, KnownIsMade
    <3>4. TabsStay(doc, doc')
      BY DEF Goes
    <3>. QED BY <1>1, <3>2, <3>3, <3>4, SessionsOf
  <2>. QED BY <2>1, <2>2
<1>4. ASSUME NEW m \in Terms, seen'["terminal"][m] > 0 PROVE Told(seen', doc'.terminal[m].session)
  <2>1. CASE <<"terminal", m>> \in es
    BY <1>2, <2>1 DEF Goes, AllAnnounced
  <2>2. CASE <<"terminal", m>> \notin es
    <3>1. seen["terminal"][m] > 0
      <4>1. Heard(seen', <<"terminal", m>>) = Heard(seen, <<"terminal", m>>)
        BY <2>2, EntitiesAre DEF HeardNext
      <4>. QED BY <1>4, <4>1 DEF Heard
    <3>2. Told(seen, doc.terminal[m].session)
      BY <3>1 DEF SessionsTold
    <3>3. IsMade(doc.terminal[m])
      <4>1. m \in Known("terminal")
        <5>1. doc["terminal"] = doc.terminal /\ doc \in Documents
          BY DEF Sound
        <5>. QED BY <3>1, <5>1, Typed DEF Known
      <4>. QED BY <4>1, KnownIsMade
    <3>4. TabsStay(doc, doc')
      BY DEF Goes
    <3>. QED BY <1>1, <3>2, <3>3, <3>4, SessionsOf
  <2>. QED BY <2>1, <2>2
<1>. QED BY <1>3, <1>4 DEF SessionsTold

LEMMA HomesStay ==
  ASSUME NEW d, Sound(d), NEW e, Sound(e), Follows(d, e), Homes(d), TabsStay(d, e), TermsGo(d, e)
  PROVE  Homes(e)
<1>1. ASSUME NEW m \in Terms, IsMade(e.terminal[m])
      PROVE  LET t == e.terminal[m].tab IN
             t \in Tabs /\ IsMade(e.tab[t]) /\ e.tab[t].session = e.terminal[m].session
  <2>1. CASE e.terminal[m].state = "open"
    <3>1. IsTabOf(e, e.terminal[m].tab, e.terminal[m].session)
      BY <2>1 DEF Sound, Placed
    <3>. QED BY <3>1 DEF IsTabOf, IsMade, Sound, Made, OfSession, IsUnmade
  <2>2. CASE IsMade(d.terminal[m]) /\ e.terminal[m].tab = d.terminal[m].tab
    <3>1. LET t == d.terminal[m].tab IN
            t \in Tabs /\ IsMade(d.tab[t]) /\ d.tab[t].session = d.terminal[m].session
      BY <2>2 DEF Homes
    <3>2. e.terminal[m].session = d.terminal[m].session
      BY <2>2 DEF Follows
    <3>. QED BY <2>2, <3>1, <3>2, MadeStays DEF TabsStay
  <2>. QED BY <1>1, <2>1, <2>2 DEF TermsGo, IsMade, IsUnmade
<1>. QED BY <1>1 DEF Homes

(* A step of one client keeps it all, if what changes is told, left untold or     *)
(* looked at, and so is what the client's request covered before.                 *)
LEMMA StepTells ==
  ASSUME ToldInv, CatalogueInv', Follows(doc, doc'), NEW es, HeardNext(es), Goes(doc, seen, doc', es),
         NEW c \in Clients, NEW new, request'[c] = new,
         \A y \in Clients \ {c} : request'[y] = request[y],
         RequestTells(doc', seen', new), untold \ es \subseteq untold',
         \A x \in Entities : x \notin es /\ x \notin untold' /\ Rev(doc', x) # Rev(doc, x) =>
            Owed(doc', seen', new, x),
         \A x \in Entities : x \notin es /\ x \notin untold' /\ Rev(doc', x) = Rev(doc, x)
            /\ Owed(doc, seen, request[c], x) => Owed(doc', seen', new, x)
  PROVE  ToldInv'
<1>1. Sound(doc) /\ SeenBefore /\ Sound(doc') /\ SeenBefore'
  BY DEF ToldInv, CatalogueInv
<1>2. TabsStay(doc, doc') /\ TermsGo(doc, doc')
  BY DEF Goes
<1>4. request'[c] = new /\ \A y \in Clients \ {c} : request'[y] = request[y]
  OBVIOUS
<1>5. RequestsTell'
  <2>1. ASSUME NEW y \in Clients PROVE RequestTells(doc', seen', request'[y])
    <3>1. CASE y = c
      BY <1>4, <3>1
    <3>2. CASE y # c
      <4>1. request[y].at = "asked" => Fits(doc, request[y]) /\ request[y].op \in Operations
        BY DEF ToldInv, CatalogueInv, RequestsFit
      <4>2. RequestTells(doc, seen, request[y])
        BY DEF ToldInv, RequestsTell
      <4>3. RequestTells(doc', seen', request[y])
        BY <1>1, <1>2, <4>1, <4>2, RequestStays
      <4>. QED BY <1>4, <3>2, <4>3
    <3>. QED BY <3>1, <3>2
  <2>. QED BY <2>1 DEF RequestsTell
<1>6. SessionsTold'
  BY <1>1, SessionsStayTold DEF ToldInv
<1>7. Homes(doc')
  BY <1>1, <1>2, HomesStay DEF ToldInv
<1>8. AllOwed'
  <2>1. ASSUME NEW x \in Entities, x \notin untold', Heard(seen', x) # Rev(doc', x)
        PROVE  \E y \in Clients : Owed(doc', seen', request'[y], x)
    <3>1. x \notin es /\ Heard(seen', x) = Heard(seen, x)
      BY <2>1 DEF HeardNext
    <3>2. CASE Rev(doc', x) # Rev(doc, x)
      <4>1. Owed(doc', seen', new, x)
        BY <2>1, <3>1, <3>2
      <4>. QED BY <1>4, <4>1
    <3>3. CASE Rev(doc', x) = Rev(doc, x)
      <4>1. x \notin untold /\ Heard(seen, x) # Rev(doc, x)
        BY <2>1, <3>1, <3>3
      <4>2. PICK y \in Clients : Owed(doc, seen, request[y], x)
        BY <4>1 DEF ToldInv, AllOwed
      <4>3. CASE y = c
        <5>1. Owed(doc', seen', new, x)
          BY <2>1, <3>1, <3>3, <4>2, <4>3
        <5>. QED BY <1>4, <5>1
      <4>4. CASE y # c
        <5>1. Owed(doc', seen', request[y], x)
          BY <1>1, <3>1, <3>3, <4>2, OwedStays
        <5>. QED BY <1>4, <4>4, <5>1
      <4>. QED BY <4>3, <4>4
    <3>. QED BY <3>2, <3>3
  <2>. QED BY <2>1 DEF AllOwed
<1>. QED BY <1>5, <1>6, <1>7, <1>8 DEF ToldInv

(* The commands that go straight to the store tell of whatever they change, and   *)
(* close nothing.                                                                *)
Mild(d, e, es) ==
    /\ \A s \in Sessions : /\ d.session[s].state = "open" => e.session[s].state = "open"
                           /\ <<"session", s>> \notin es => e.session[s] = d.session[s]
    /\ \A t \in Tabs : /\ e.tab[t].state = d.tab[t].state /\ e.tab[t].session = d.tab[t].session
                       /\ <<"tab", t>> \notin es => e.tab[t] = d.tab[t]
    /\ \A m \in Terms : /\ e.terminal[m].state = d.terminal[m].state
                        /\ e.terminal[m].session = d.terminal[m].session
                        /\ e.terminal[m].tab = d.terminal[m].tab
                        /\ <<"terminal", m>> \notin es => e.terminal[m] = d.terminal[m]

LEMMA MildSessions ==
  ASSUME NEW d \in Documents, NEW ids, NEW S, NEW e, Rows(e, S, d.tab, d.terminal),
         \A s \in Sessions : /\ d.session[s].state = "open" => S[s].state = "open"
                             /\ s \notin ids => S[s] = d.session[s]
  PROVE  Mild(d, e, All("session", ids))
<1>1. e.session = S /\ e.tab = d.tab /\ e.terminal = d.terminal
  BY DEF Rows
<1>2. \A s \in ids : <<"session", s>> \in All("session", ids)
  BY DEF All
<1>. QED BY <1>1, <1>2 DEF Mild

LEMMA MildTabs ==
  ASSUME NEW d \in Documents, NEW ids, NEW T, NEW e, Rows(e, d.session, T, d.terminal),
         \A t \in Tabs : /\ T[t].state = d.tab[t].state /\ T[t].session = d.tab[t].session
                         /\ t \notin ids => T[t] = d.tab[t]
  PROVE  Mild(d, e, All("tab", ids))
<1>1. e.session = d.session /\ e.tab = T /\ e.terminal = d.terminal
  BY DEF Rows
<1>2. \A t \in ids : <<"tab", t>> \in All("tab", ids)
  BY DEF All
<1>. QED BY <1>1, <1>2 DEF Mild

LEMMA MildTerms ==
  ASSUME NEW d \in Documents, NEW ids, NEW M, NEW e, Rows(e, d.session, d.tab, M),
         \A m \in Terms : /\ M[m].state = d.terminal[m].state /\ M[m].session = d.terminal[m].session
                          /\ M[m].tab = d.terminal[m].tab
                          /\ m \notin ids => M[m] = d.terminal[m]
  PROVE  Mild(d, e, All("terminal", ids))
<1>1. e.session = d.session /\ e.tab = d.tab /\ e.terminal = M
  BY DEF Rows
<1>2. \A m \in ids : <<"terminal", m>> \in All("terminal", ids)
  BY DEF All
<1>. QED BY <1>1, <1>2 DEF Mild

LEMMA TouchIsMild ==
  ASSUME NEW d \in Documents
  PROVE  /\ \A i \in Sessions : Mild(d, Touch(d, "session", i), {<<"session", i>>})
         /\ \A i \in Tabs : Mild(d, Touch(d, "tab", i), {<<"tab", i>>})
         /\ \A i \in Terms : Mild(d, Touch(d, "terminal", i), {<<"terminal", i>>})
<1>1. ASSUME NEW i \in Sessions, NEW e, e = Touch(d, "session", i) PROVE Mild(d, e, {<<"session", i>>})
  <2>. DEFINE rows == [d.session EXCEPT ![i] = Revised(d.session[i])]
  <2>1. Rows(e, rows, d.tab, d.terminal)
    BY <1>1 DEF Touch, Rows, Documents
  <2>2. rows[i] = Revised(d.session[i]) /\ \A j \in Sessions \ {i} : rows[j] = d.session[j]
    BY Typed
  <2>. HIDE DEF rows
  <2>3. d.session[i] \in SessionRecords
    BY Typed
  <2>4. \A s \in Sessions : /\ d.session[s].state = "open" => rows[s].state = "open"
                            /\ s \notin {i} => rows[s] = d.session[s]
    BY <2>2, <2>3, RevisedSession
  <2>5. All("session", {i}) = {<<"session", i>>}
    BY DEF All
  <2>6. Mild(d, e, All("session", {i}))
    BY <2>1, <2>4, MildSessions
  <2>. QED BY <2>5, <2>6
<1>2. ASSUME NEW i \in Tabs, NEW e, e = Touch(d, "tab", i) PROVE Mild(d, e, {<<"tab", i>>})
  <2>. DEFINE rows == [d.tab EXCEPT ![i] = Revised(d.tab[i])]
  <2>1. Rows(e, d.session, rows, d.terminal)
    BY <1>2 DEF Touch, Rows, Documents
  <2>2. rows[i] = Revised(d.tab[i]) /\ \A j \in Tabs \ {i} : rows[j] = d.tab[j]
    BY Typed
  <2>. HIDE DEF rows
  <2>3. d.tab[i] \in TabRecords
    BY Typed
  <2>4. \A t \in Tabs : /\ rows[t].state = d.tab[t].state /\ rows[t].session = d.tab[t].session
                        /\ t \notin {i} => rows[t] = d.tab[t]
    BY <2>2, <2>3, RevisedTab
  <2>5. All("tab", {i}) = {<<"tab", i>>}
    BY DEF All
  <2>6. Mild(d, e, All("tab", {i}))
    BY <2>1, <2>4, MildTabs
  <2>. QED BY <2>5, <2>6
<1>3. ASSUME NEW i \in Terms, NEW e, e = Touch(d, "terminal", i) PROVE Mild(d, e, {<<"terminal", i>>})
  <2>. DEFINE rows == [d.terminal EXCEPT ![i] = Revised(d.terminal[i])]
  <2>1. Rows(e, d.session, d.tab, rows)
    BY <1>3 DEF Touch, Rows, Documents
  <2>2. rows[i] = Revised(d.terminal[i]) /\ \A j \in Terms \ {i} : rows[j] = d.terminal[j]
    BY Typed
  <2>. HIDE DEF rows
  <2>3. d.terminal[i] \in TermRecords
    BY Typed
  <2>4. \A m \in Terms : /\ rows[m].state = d.terminal[m].state /\ rows[m].session = d.terminal[m].session
                         /\ rows[m].tab = d.terminal[m].tab
                         /\ m \notin {i} => rows[m] = d.terminal[m]
    BY <2>2, <2>3, RevisedTerm
  <2>5. All("terminal", {i}) = {<<"terminal", i>>}
    BY DEF All
  <2>6. Mild(d, e, All("terminal", {i}))
    BY <2>1, <2>4, MildTerms
  <2>. QED BY <2>5, <2>6
<1>. QED BY <1>1, <1>2, <1>3

LEMMA OrderIsMild ==
  ASSUME NEW d \in Documents, NEW ids, NEW o \in [ids -> Nat]
  PROVE  /\ ids \subseteq Sessions => Mild(d, Reordered(d, "session", o), All("session", ids))
         /\ ids \subseteq Tabs => Mild(d, Reordered(d, "tab", o), All("tab", ids))
         /\ ids \subseteq Terms => Mild(d, Reordered(d, "terminal", o), All("terminal", ids))
<1>1. ASSUME ids \subseteq Sessions, NEW e, e = Reordered(d, "session", o)
      PROVE  Mild(d, e, All("session", ids))
  <2>. DEFINE rows == [i \in Sessions |->
              IF i \in ids THEN [Revised(d.session[i]) EXCEPT !.position = o[i]] ELSE d.session[i]]
  <2>1. Rows(e, rows, d.tab, d.terminal)
    BY <1>1 DEF Reordered, Rows, Documents
  <2>2. ASSUME NEW i \in ids PROVE rows[i].state = d.session[i].state
    <3>1. rows[i] = [Revised(d.session[i]) EXCEPT !.position = o[i]] /\ d.session[i] \in SessionRecords
      BY <1>1, Typed
    <3>2. \A r \in SessionRecords : \A p : [r EXCEPT !.position = p].state = r.state
      BY DEF SessionRecords
    <3>3. Revised(d.session[i]) \in SessionRecords
      BY <3>1, RevisedSession
    <3>. HIDE DEF rows
    <3>. QED BY <3>1, <3>2, <3>3, RevisedSession
  <2>3. \A s \in Sessions : /\ d.session[s].state = "open" => rows[s].state = "open"
                            /\ s \notin ids => rows[s] = d.session[s]
    BY <2>2
  <2>. HIDE DEF rows
  <2>. QED BY <2>1, <2>3, MildSessions
<1>2. ASSUME ids \subseteq Tabs, NEW e, e = Reordered(d, "tab", o)
      PROVE  Mild(d, e, All("tab", ids))
  <2>. DEFINE rows == [i \in Tabs |->
              IF i \in ids THEN [Revised(d.tab[i]) EXCEPT !.position = o[i]] ELSE d.tab[i]]
  <2>1. Rows(e, d.session, rows, d.terminal)
    BY <1>2 DEF Reordered, Rows, Documents
  <2>2. ASSUME NEW i \in ids PROVE rows[i].state = d.tab[i].state /\ rows[i].session = d.tab[i].session
    <3>1. rows[i] = [Revised(d.tab[i]) EXCEPT !.position = o[i]] /\ d.tab[i] \in TabRecords
      BY <1>2, Typed
    <3>2. \A r \in TabRecords : \A p : /\ [r EXCEPT !.position = p].state = r.state
                                       /\ [r EXCEPT !.position = p].session = r.session
      BY DEF TabRecords
    <3>3. Revised(d.tab[i]) \in TabRecords
      BY <3>1, RevisedTab
    <3>. HIDE DEF rows
    <3>. QED BY <3>1, <3>2, <3>3, RevisedTab
  <2>3. \A t \in Tabs : /\ rows[t].state = d.tab[t].state /\ rows[t].session = d.tab[t].session
                        /\ t \notin ids => rows[t] = d.tab[t]
    BY <2>2
  <2>. HIDE DEF rows
  <2>. QED BY <2>1, <2>3, MildTabs
<1>3. ASSUME ids \subseteq Terms, NEW e, e = Reordered(d, "terminal", o)
      PROVE  Mild(d, e, All("terminal", ids))
  <2>. DEFINE rows == [i \in Terms |->
              IF i \in ids THEN [Revised(d.terminal[i]) EXCEPT !.position = o[i]] ELSE d.terminal[i]]
  <2>1. Rows(e, d.session, d.tab, rows)
    BY <1>3 DEF Reordered, Rows, Documents
  <2>2. ASSUME NEW i \in ids
        PROVE  /\ rows[i].state = d.terminal[i].state /\ rows[i].session = d.terminal[i].session
               /\ rows[i].tab = d.terminal[i].tab
    <3>1. /\ rows[i] = [Revised(d.terminal[i]) EXCEPT !.position = o[i]]
          /\ d.terminal[i] \in TermRecords
      BY <1>3, Typed
    <3>2. \A r \in TermRecords : \A p : /\ [r EXCEPT !.position = p].state = r.state
                                        /\ [r EXCEPT !.position = p].session = r.session
                                        /\ [r EXCEPT !.position = p].tab = r.tab
      BY DEF TermRecords
    <3>3. Revised(d.terminal[i]) \in TermRecords
      BY <3>1, RevisedTerm
    <3>. HIDE DEF rows
    <3>. QED BY <3>1, <3>2, <3>3, RevisedTerm
  <2>3. \A m \in Terms : /\ rows[m].state = d.terminal[m].state /\ rows[m].session = d.terminal[m].session
                         /\ rows[m].tab = d.terminal[m].tab
                         /\ m \notin ids => rows[m] = d.terminal[m]
    BY <2>2
  <2>. HIDE DEF rows
  <2>. QED BY <2>1, <2>3, MildTerms
<1>. QED BY <1>1, <1>2, <1>3

(* A new session row that is open whenever the old one is.                         *)
LEMMA RowIsMild ==
  ASSUME NEW d \in Documents, NEW s \in Sessions, NEW row, d.session[s].state = "open" => row.state = "open",
         NEW e, e = [d EXCEPT !.session[s] = row]
  PROVE  Mild(d, e, {<<"session", s>>})
<1>. DEFINE rows == [d.session EXCEPT ![s] = row]
<1>1. Rows(e, rows, d.tab, d.terminal)
  BY DEF Rows, Documents
<1>2. rows[s] = row /\ \A j \in Sessions \ {s} : rows[j] = d.session[j]
  BY Typed
<1>. HIDE DEF rows
<1>3. \A j \in Sessions : /\ d.session[j].state = "open" => rows[j].state = "open"
                          /\ j \notin {s} => rows[j] = d.session[j]
  BY <1>2
<1>4. All("session", {s}) = {<<"session", s>>}
  BY DEF All
<1>5. Mild(d, e, All("session", {s}))
  BY <1>1, <1>3, MildSessions
<1>. QED BY <1>4, <1>5

LEMMA MildGoes ==
  ASSUME ToldInv, NEW d, Sound(d), Follows(doc, d), NEW es, Mild(doc, d, es),
         \A x \in es : x \in Entities /\ Heard(seen, x) > 0
  PROVE  /\ Goes(doc, seen, d, es)
         /\ \A x \in Entities : x \notin es => Rev(d, x) = Rev(doc, x)
<1>1. Sound(doc) /\ doc \in Documents /\ d \in Documents
  BY DEF ToldInv, CatalogueInv, Sound
<1>2. TabsStay(doc, d) /\ TabsGo(doc, d, es)
  BY DEF Mild, TabsStay, TabsGo, IsTabOf
<1>3. TermsGo(doc, d)
  <2>1. ASSUME NEW m \in Terms, ~IsMade(doc.terminal[m]) PROVE IsUnmade(d.terminal[m])
    <3>1. doc.terminal[m].state = "none"
      BY <1>1, <2>1 DEF Sound, Made, OfSession, IsUnmade
    <3>2. d.terminal[m].state = "none"
      BY <3>1 DEF Mild
    <3>. QED BY <3>2 DEF Sound, Made, OfSession, IsUnmade, IsMade
  <2>. QED BY <2>1 DEF TermsGo, Mild
<1>4. \A s \in Sessions : <<"session", s>> \in es => seen["session"][s] > 0
  BY DEF Heard
<1>5. OthersGo(doc, seen, d, es)
  BY <1>4 DEF OthersGo, Mild
<1>6. ASSUME NEW t \in Tabs, <<"tab", t>> \in es PROVE Announced(seen, d, es, d.tab[t].session)
  <2>1. seen["tab"][t] > 0
    BY <1>6 DEF Heard
  <2>2. Told(seen, doc.tab[t].session)
    BY <2>1 DEF ToldInv, SessionsTold
  <2>. QED BY <2>2 DEF Announced, Told, Mild
<1>7. ASSUME NEW m \in Terms, <<"terminal", m>> \in es
      PROVE  Announced(seen, d, es, d.terminal[m].session)
  <2>1. seen["terminal"][m] > 0
    BY <1>7 DEF Heard
  <2>2. Told(seen, doc.terminal[m].session)
    BY <2>1 DEF ToldInv, SessionsTold
  <2>. QED BY <2>2 DEF Announced, Told, Mild
<1>8. Goes(doc, seen, d, es)
  BY <1>2, <1>3, <1>5, <1>6, <1>7 DEF Goes, AllAnnounced
<1>9. ASSUME NEW x \in Entities, x \notin es PROVE Rev(d, x) = Rev(doc, x)
  <2>1. x = <<x[1], x[2]>>
    BY EntityKinds
  <2>2. CASE x[1] = "session" /\ x[2] \in Sessions
    BY <1>1, <1>9, <2>1, <2>2, RevOf DEF Mild
  <2>3. CASE x[1] = "tab" /\ x[2] \in Tabs
    BY <1>1, <1>9, <2>1, <2>3, RevOf DEF Mild
  <2>4. CASE x[1] = "terminal" /\ x[2] \in Terms
    BY <1>1, <1>9, <2>1, <2>4, RevOf DEF Mild
  <2>. QED BY <2>2, <2>3, <2>4, EntityKinds
<1>. QED BY <1>8, <1>9

LEMMA AtOnceTells ==
  ASSUME ToldInv, NEW c \in Clients, NEW d, NEW es, AtOnce(c, d, es),
         Sound(d), Visible(d), Follows(doc, d), Kept(doc, d), Mild(doc, d, es),
         \A x \in es : x \in Entities /\ Heard(seen, x) > 0
  PROVE  ToldInv'
<1>1. /\ doc' = d /\ Tell(doc', es) /\ request' = request /\ request[c] = Idle
      /\ untold' = untold \ es
  BY DEF AtOnce, May
<1>2. CatalogueInv'
  BY AtOnceKeeps DEF ToldInv
<1>3. Sound(doc) /\ SeenBefore /\ doc' \in Documents /\ DOMAIN request = Clients
  BY <1>1 DEF ToldInv, CatalogueInv, Sound, RequestsFit
<1>4. HeardNext(es)
  BY <1>1, <1>3, TellHeard
<1>5. /\ Goes(doc, seen, doc', es)
      /\ \A x \in Entities : x \notin es => Rev(doc', x) = Rev(doc, x)
  BY <1>1, MildGoes
<1>6. RequestTells(doc', seen', Idle)
  BY DEF RequestTells, Idle
<1>7. \A x : ~Owed(doc, seen, Idle, x)
  BY DEF Owed, Idle
<1>8. untold \ es \subseteq untold'
  BY <1>1
<1>9. request'[c] = Idle /\ \A y \in Clients \ {c} : request'[y] = request[y]
  BY <1>1
<1>10. Follows(doc, doc')
  BY <1>1
<1>. QED BY <1>1, <1>2, <1>4, <1>5, <1>6, <1>7, <1>8, <1>9, <1>10, StepTells

LEMMA KnownIsTold ==
  ASSUME ToldInv
  PROVE  /\ \A s \in Known("session") : <<"session", s>> \in Entities /\ Heard(seen, <<"session", s>>) > 0
         /\ \A t \in Known("tab") : <<"tab", t>> \in Entities /\ Heard(seen, <<"tab", t>>) > 0
         /\ \A m \in Known("terminal") :
              <<"terminal", m>> \in Entities /\ Heard(seen, <<"terminal", m>>) > 0
BY KnownIsMade, EntitiesAre DEF ToldInv, CatalogueInv, Known, Heard

LEMMA RenamesTell ==
  ASSUME ToldInv, NEW c \in Clients,
         RenameSession(c) \/ RenameTab(c) \/ SaveTabLayout(c) \/ RenameTerminal(c)
  PROVE  ToldInv'
<1>. USE DEF CatalogueInv
<1>1. CatalogueInv /\ doc \in Documents
  BY DEF ToldInv, Sound
<1>2. CASE RenameSession(c)
  <2>1. PICK s \in Known("session") : AtOnce(c, Touch(doc, "session", s), {<<"session", s>>})
    BY <1>2 DEF RenameSession
  <2>2. ASSUME NEW d, d = Touch(doc, "session", s) PROVE ToldInv'
    <3>1. s \in Sessions /\ IsMade(doc.session[s])
      BY <1>1, KnownIsMade
    <3>2. Sound(d) /\ Visible(d) /\ Follows(doc, d) /\ Kept(doc, d)
      BY <1>1, <2>2, <3>1, TouchSessionKeeps
    <3>3. Mild(doc, d, {<<"session", s>>})
      BY <1>1, <2>2, <3>1, TouchIsMild
    <3>. QED BY <2>1, <2>2, <3>2, <3>3, KnownIsTold, AtOnceTells
  <2>. QED BY <2>2
<1>3. CASE RenameTab(c) \/ SaveTabLayout(c)
  <2>1. PICK t \in Known("tab") : AtOnce(c, Touch(doc, "tab", t), {<<"tab", t>>})
    BY <1>3 DEF RenameTab, SaveTabLayout
  <2>2. ASSUME NEW d, d = Touch(doc, "tab", t) PROVE ToldInv'
    <3>1. t \in Tabs /\ IsMade(doc.tab[t])
      BY <1>1, KnownIsMade
    <3>2. Sound(d) /\ Visible(d) /\ Follows(doc, d) /\ Kept(doc, d)
      BY <1>1, <2>2, <3>1, TouchTabKeeps
    <3>3. Mild(doc, d, {<<"tab", t>>})
      BY <1>1, <2>2, <3>1, TouchIsMild
    <3>. QED BY <2>1, <2>2, <3>2, <3>3, KnownIsTold, AtOnceTells
  <2>. QED BY <2>2
<1>4. CASE RenameTerminal(c)
  <2>1. PICK m \in Known("terminal") : AtOnce(c, Touch(doc, "terminal", m), {<<"terminal", m>>})
    BY <1>4 DEF RenameTerminal
  <2>2. ASSUME NEW d, d = Touch(doc, "terminal", m) PROVE ToldInv'
    <3>1. m \in Terms /\ IsMade(doc.terminal[m])
      BY <1>1, KnownIsMade
    <3>2. Sound(d) /\ Visible(d) /\ Follows(doc, d) /\ Kept(doc, d)
      BY <1>1, <2>2, <3>1, TouchTermKeeps
    <3>3. Mild(doc, d, {<<"terminal", m>>})
      BY <1>1, <2>2, <3>1, TouchIsMild
    <3>. QED BY <2>1, <2>2, <3>2, <3>3, KnownIsTold, AtOnceTells
  <2>. QED BY <2>2
<1>. QED BY <1>2, <1>3, <1>4

LEMMA AllKnown ==
  ASSUME ToldInv, NEW kind \in Kinds, NEW ids, ids \subseteq Known(kind)
  PROVE  \A x \in All(kind, ids) : x \in Entities /\ Heard(seen, x) > 0
<1>1. ASSUME NEW x \in All(kind, ids) PROVE x \in Entities /\ Heard(seen, x) > 0
  <2>1. PICK i \in ids : x = <<kind, i>>
    BY DEF All
  <2>. QED BY <2>1, KnownIsTold DEF Kinds
<1>. QED BY <1>1

LEMMA ReordersTell ==
  ASSUME ToldInv, NEW c \in Clients, ReorderSessions(c) \/ ReorderTabs(c) \/ ReorderTerminals(c)
  PROVE  ToldInv'
<1>. USE DEF CatalogueInv
<1>1. CatalogueInv /\ doc \in Documents
  BY DEF ToldInv, Sound
<1>2. \A kind, ids : Reorder(c, kind, ids) =>
        /\ ids \subseteq Known(kind)
        /\ \E o \in [ids -> Nat] : AtOnce(c, Reordered(doc, kind, o), All(kind, ids))
  <2>1. \A ids : Orders(ids) \subseteq [ids -> 0..Cardinality(ids) - 1]
    BY DEF Orders
  <2>2. \A ids, o : o \in [ids -> 0..Cardinality(ids) - 1] => o \in [ids -> Nat]
    OBVIOUS
  <2>. QED BY <2>1, <2>2 DEF Reorder
<1>3. CASE ReorderSessions(c)
  <2>1. PICK ids : ids \subseteq Known("session")
            /\ \E o \in [ids -> Nat] : AtOnce(c, Reordered(doc, "session", o), All("session", ids))
    BY <1>2, <1>3 DEF ReorderSessions
  <2>2. PICK o \in [ids -> Nat] : AtOnce(c, Reordered(doc, "session", o), All("session", ids))
    BY <2>1
  <2>3. ids \in SUBSET Sessions /\ \A s \in ids : IsMade(doc.session[s])
    BY <1>1, <2>1, KnownIsMade
  <2>4. ASSUME NEW d, d = Reordered(doc, "session", o) PROVE ToldInv'
    <3>1. Sound(d) /\ Visible(d) /\ Follows(doc, d) /\ Kept(doc, d)
      BY <1>1, <2>3, <2>4, ReorderSessionsKeeps
    <3>2. Mild(doc, d, All("session", ids))
      BY <1>1, <2>3, <2>4, OrderIsMild
    <3>3. \A x \in All("session", ids) : x \in Entities /\ Heard(seen, x) > 0
      BY <2>1, AllKnown DEF Kinds
    <3>. QED BY <2>2, <2>4, <3>1, <3>2, <3>3, AtOnceTells
  <2>. QED BY <2>4
<1>4. CASE ReorderTabs(c)
  <2>1. PICK ids : ids \subseteq Known("tab")
            /\ \E o \in [ids -> Nat] : AtOnce(c, Reordered(doc, "tab", o), All("tab", ids))
    BY <1>2, <1>4 DEF ReorderTabs
  <2>2. PICK o \in [ids -> Nat] : AtOnce(c, Reordered(doc, "tab", o), All("tab", ids))
    BY <2>1
  <2>3. ids \in SUBSET Tabs /\ \A t \in ids : IsMade(doc.tab[t])
    BY <1>1, <2>1, KnownIsMade
  <2>4. ASSUME NEW d, d = Reordered(doc, "tab", o) PROVE ToldInv'
    <3>1. Sound(d) /\ Visible(d) /\ Follows(doc, d) /\ Kept(doc, d)
      BY <1>1, <2>3, <2>4, ReorderTabsKeeps
    <3>2. Mild(doc, d, All("tab", ids))
      BY <1>1, <2>3, <2>4, OrderIsMild
    <3>3. \A x \in All("tab", ids) : x \in Entities /\ Heard(seen, x) > 0
      BY <2>1, AllKnown DEF Kinds
    <3>. QED BY <2>2, <2>4, <3>1, <3>2, <3>3, AtOnceTells
  <2>. QED BY <2>4
<1>5. CASE ReorderTerminals(c)
  <2>1. PICK ids : ids \subseteq Known("terminal")
            /\ \E o \in [ids -> Nat] : AtOnce(c, Reordered(doc, "terminal", o), All("terminal", ids))
    BY <1>2, <1>5 DEF ReorderTerminals
  <2>2. PICK o \in [ids -> Nat] : AtOnce(c, Reordered(doc, "terminal", o), All("terminal", ids))
    BY <2>1
  <2>3. ids \in SUBSET Terms /\ \A m \in ids : IsMade(doc.terminal[m])
    BY <1>1, <2>1, KnownIsMade
  <2>4. ASSUME NEW d, d = Reordered(doc, "terminal", o) PROVE ToldInv'
    <3>1. Sound(d) /\ Visible(d) /\ Follows(doc, d) /\ Kept(doc, d)
      BY <1>1, <2>3, <2>4, ReorderTermsKeeps
    <3>2. Mild(doc, d, All("terminal", ids))
      BY <1>1, <2>3, <2>4, OrderIsMild
    <3>3. \A x \in All("terminal", ids) : x \in Entities /\ Heard(seen, x) > 0
      BY <2>1, AllKnown DEF Kinds
    <3>. QED BY <2>2, <2>4, <3>1, <3>2, <3>3, AtOnceTells
  <2>. QED BY <2>4
<1>. QED BY <1>3, <1>4, <1>5

LEMMA RestoreTells ==
  ASSUME ToldInv, NEW c \in Clients, RestoreSession(c)
  PROVE  ToldInv'
<1>. USE DEF CatalogueInv
<1>1. CatalogueInv /\ doc \in Documents
  BY DEF ToldInv, Sound
<1>2. PICK s \in Known("session") :
        AtOnce(c, [doc EXCEPT !.session[s] = [Revised(@) EXCEPT !.state = "open"]], {<<"session", s>>})
  BY DEF RestoreSession
<1>3. ASSUME NEW d, d = [doc EXCEPT !.session[s] = [Revised(@) EXCEPT !.state = "open"]]
      PROVE  ToldInv'
  <2>1. s \in Sessions /\ IsMade(doc.session[s])
    BY <1>1, KnownIsMade
  <2>2. Sound(d) /\ Visible(d) /\ Follows(doc, d) /\ Kept(doc, d)
    BY <1>1, <1>3, <2>1, RestoreKeeps
  <2>3. Mild(doc, d, {<<"session", s>>})
    <3>. DEFINE row == [Revised(doc.session[s]) EXCEPT !.state = "open"]
    <3>1. d = [doc EXCEPT !.session[s] = row]
      BY <1>1, <1>3, <2>1, Typed DEF Documents
    <3>2. row.state = "open"
      <4>1. Revised(doc.session[s]) \in SessionRecords
        BY <1>1, <2>1, Typed, RevisedSession
      <4>2. \A r \in SessionRecords : [r EXCEPT !.state = "open"].state = "open"
        BY DEF SessionRecords
      <4>. QED BY <4>1, <4>2
    <3>. HIDE DEF row
    <3>. QED BY <1>1, <2>1, <3>1, <3>2, RowIsMild
  <2>. QED BY <1>2, <1>3, <2>2, <2>3, KnownIsTold, AtOnceTells
<1>. QED BY <1>3

LEMMA SelectTabTells ==
  ASSUME ToldInv, NEW c \in Clients, SelectTab(c)
  PROVE  ToldInv'
<1>. USE DEF CatalogueInv
<1>. DEFINE Selected(s, t) ==
              [doc EXCEPT !.session[s] = [Revised(@) EXCEPT !.tab = t,
                                            !.terminal = IF t = 0 THEN 0 ELSE doc.tab[t].terminal]]
<1>1. CatalogueInv /\ doc \in Documents
  BY DEF ToldInv, Sound
<1>2. PICK s \in Known("session") :
        \E t \in (OpenTabs(doc, s) \cap Known("tab")) \cup {0} :
          AtOnce(c, Selected(s, t), {<<"session", s>>})
  BY DEF SelectTab
<1>3. PICK t \in (OpenTabs(doc, s) \cap Known("tab")) \cup {0} :
        AtOnce(c, Selected(s, t), {<<"session", s>>})
  BY <1>2
<1>4. ASSUME NEW d, d = Selected(s, t) PROVE ToldInv'
  <2>1. s \in Sessions /\ IsMade(doc.session[s])
    BY <1>1, KnownIsMade
  <2>2. t = 0 \/ IsTabOf(doc, t, s)
    BY <1>1, Opened
  <2>3. Sound(d) /\ Visible(d) /\ Follows(doc, d) /\ Kept(doc, d)
    BY <1>1, <1>4, <2>1, <2>2, SelectTabKeeps
  <2>4. Mild(doc, d, {<<"session", s>>})
    <3>. DEFINE row == Pointing(doc.session[s], t, IF t = 0 THEN 0 ELSE doc.tab[t].terminal)
    <3>1. d = [doc EXCEPT !.session[s] = row]
      BY <1>1, <1>4, <2>1, Typed DEF Documents, Pointing
    <3>2. row.state = doc.session[s].state
      <4>1. (IF t = 0 THEN 0 ELSE doc.tab[t].terminal) \in Terms \cup {0} /\ t \in Tabs \cup {0}
        BY <1>1, <2>2, Typed DEF IsTabOf, TabRecords
      <4>2. doc.session[s] \in SessionRecords
        BY <1>1, <2>1, Typed
      <4>. QED BY <4>1, <4>2, PointingRows
    <3>. HIDE DEF row
    <3>. QED BY <1>1, <2>1, <3>1, <3>2, RowIsMild
  <2>. HIDE DEF Selected
  <2>. QED BY <1>3, <1>4, <2>3, <2>4, KnownIsTold, AtOnceTells
<1>. QED BY <1>4

(* Asking changes nothing; what is read is there.                                 *)
LEMMA StillGoes ==
  ASSUME NEW d, Sound(d), NEW told, NEW es,
         \A s \in Sessions : d.session[s].state = "open" /\ told["session"][s] = 0 =>
            (<<"session", s>> \in es => \A t : IsTabOf(d, t, s) => <<"tab", t>> \in es),
         AllAnnounced(told, d, es)
  PROVE  Goes(d, told, d, es)
<1>1. TermsGo(d, d)
  BY DEF TermsGo, Sound, Made, OfSession
<1>2. TabsStay(d, d) /\ TabsGo(d, d, es)
  BY DEF TabsStay, TabsGo
<1>. QED BY <1>1, <1>2 DEF Goes, OthersGo

LEMMA AskTells ==
  ASSUME ToldInv, CatalogueInv', NEW c \in Clients, NEW op, NEW on, NEW to, NEW es,
         Ask(c, op, on, to, es),
         \A x \in es : x \in Entities /\ Rev(doc, x) # 0,
         \A r : r.op = op /\ r.on = on /\ r.to = to /\ DOMAIN r.before = es => AskFits(doc, seen, r)
  PROVE  ToldInv'
<1>. DEFINE before == [x \in es |-> Rev(doc, x)]
            new == [at |-> "asked", op |-> op, on |-> on, to |-> to, before |-> before, look |-> <<>>]
<1>1. /\ request[c] = Idle /\ request' = [request EXCEPT ![c] = new]
      /\ doc' = doc /\ seen' = seen /\ untold' = untold
  BY DEF Ask, May
<1>2. Sound(doc) /\ doc \in Documents /\ DOMAIN request = Clients
  BY DEF ToldInv, CatalogueInv, Sound, RequestsFit
<1>3. HeardNext({})
  BY <1>1, SameHeard
<1>4. Goes(doc, seen, doc, {})
  BY <1>2, StillGoes DEF AllAnnounced
<1>5. /\ new.at = "asked" /\ new.op = op /\ new.on = on /\ new.to = to /\ new.before = before
      /\ DOMAIN before = es /\ \A x \in es : before[x] = Rev(doc, x)
  OBVIOUS
<1>6. RequestTells(doc, seen, new)
  <2>. HIDE DEF new, before
  <2>1. ASSUME NEW x \in es
        PROVE  x \in Entities /\ before[x] \in Nat /\ before[x] <= Rev(doc, x) /\ Rev(doc, x) # 0
    <3>1. Rev(doc, x) \in Nat
      BY <1>2, RevOf
    <3>. QED BY <1>5, <3>1
  <2>2. AskFits(doc, seen, new)
    BY <1>5
  <2>. QED BY <1>5, <2>1, <2>2 DEF RequestTells
<1>. HIDE DEF new
<1>7. request'[c] = new /\ \A y \in Clients \ {c} : request'[y] = request[y]
  BY <1>1, <1>2
<1>8. \A x : ~Owed(doc, seen, Idle, x)
  BY DEF Owed, Idle
<1>9. Follows(doc, doc')
  BY <1>1, <1>2, SameKeeps
<1>10. untold \ {} \subseteq untold'
  BY <1>1
<1>11. Goes(doc, seen, doc', {}) /\ RequestTells(doc', seen', new)
  BY <1>1, <1>4, <1>6
<1>12. \A x \in Entities : Rev(doc', x) = Rev(doc, x) /\ ~Owed(doc, seen, request[c], x)
  BY <1>1, <1>8
<1>. QED BY <1>3, <1>7, <1>9, <1>10, <1>11, <1>12, StepTells

LEMMA MadeHasRevision ==
  ASSUME NEW d, Sound(d)
  PROVE  /\ \A s \in Sessions : IsMade(d.session[s]) =>
              <<"session", s>> \in Entities /\ Rev(d, <<"session", s>>) # 0
         /\ \A t \in Tabs : IsMade(d.tab[t]) => <<"tab", t>> \in Entities /\ Rev(d, <<"tab", t>>) # 0
         /\ \A m \in Terms : IsMade(d.terminal[m]) =>
              <<"terminal", m>> \in Entities /\ Rev(d, <<"terminal", m>>) # 0
<1>1. d \in Documents
  BY DEF Sound
<1>2. ASSUME NEW s \in Sessions, IsMade(d.session[s]) PROVE Rev(d, <<"session", s>>) # 0
  <2>1. Rev(d, <<"session", s>>) = d.session[s].revision
    BY <1>1, EntitiesAre, RevOf
  <2>. QED BY <1>2, <2>1 DEF IsMade
<1>3. ASSUME NEW t \in Tabs, IsMade(d.tab[t]) PROVE Rev(d, <<"tab", t>>) # 0
  <2>1. Rev(d, <<"tab", t>>) = d.tab[t].revision
    BY <1>1, EntitiesAre, RevOf
  <2>. QED BY <1>3, <2>1 DEF IsMade
<1>4. ASSUME NEW m \in Terms, IsMade(d.terminal[m]) PROVE Rev(d, <<"terminal", m>>) # 0
  <2>1. Rev(d, <<"terminal", m>>) = d.terminal[m].revision
    BY <1>1, EntitiesAre, RevOf
  <2>. QED BY <1>4, <2>1 DEF IsMade
<1>. QED BY <1>2, <1>3, <1>4, EntitiesAre

LEMMA OpenIsMade ==
  ASSUME NEW d, Sound(d)
  PROVE  /\ \A s \in Sessions : d.session[s].state = "open" => IsMade(d.session[s])
         /\ \A t, s : IsTabOf(d, t, s) => t \in Tabs /\ IsMade(d.tab[t])
         /\ \A t, s : IsTabOf(d, t, s) => s \in Sessions /\ IsMade(d.session[s])
         /\ \A m, t : IsTermOf(d, m, t) => m \in Terms /\ IsMade(d.terminal[m])
<1>1. /\ \A s \in Sessions : d.session[s].state = "open" => IsMade(d.session[s])
      /\ \A t, s : IsTabOf(d, t, s) => t \in Tabs /\ IsMade(d.tab[t])
      /\ \A m, t : IsTermOf(d, m, t) => m \in Terms /\ IsMade(d.terminal[m])
  BY DEF Sound, Made, OfSession, IsMade, IsUnmade, IsTabOf, IsTermOf
<1>2. \A t, s : IsTabOf(d, t, s) => s \in Sessions /\ IsMade(d.session[s])
  BY <1>1 DEF Sound, Made, OfSession, IsMade, IsUnmade, IsTabOf
<1>. QED BY <1>1, <1>2

LEMMA ReadsOne ==
  ASSUME NEW r, NEW s, NEW t, DOMAIN r.before = {<<"session", s>>, <<"tab", t>>}
  PROVE  ReadOnly(r, s) /\ OneOf(r, "tab")
BY DEF ReadOnly, OneOf

LEMMA ReadsSession ==
  ASSUME NEW r, NEW s, DOMAIN r.before = {<<"session", s>>}
  PROVE  ReadOnly(r, s) /\ OneOf(r, "tab")
BY DEF ReadOnly, OneOf

LEMMA ActiveTabIs ==
  ASSUME NEW s \in Sessions, Sound(doc), IsMade(doc.session[s])
  PROVE  ActiveTab(s) = {} \/ \E t \in Tabs : ActiveTab(s) = {<<"tab", t>>} /\ IsMade(doc.tab[t])
<1>1. CASE doc.session[s].tab = 0
  BY <1>1 DEF ActiveTab
<1>2. CASE doc.session[s].tab # 0
  <2>1. IsTabOf(doc, doc.session[s].tab, s)
    BY <1>2 DEF Sound, SessionShows, IsMade
  <2>2. ActiveTab(s) = {<<"tab", doc.session[s].tab>>}
    BY <1>2 DEF ActiveTab
  <2>. QED BY <2>1, <2>2, OpenIsMade
<1>. QED BY <1>1, <1>2

(* Of a session and one tab or none.                                             *)
ReadsOf(s, es) ==
    \/ es = {<<"session", s>>}
    \/ \E t \in Tabs : es = {<<"session", s>>, <<"tab", t>>} /\ IsMade(doc.tab[t])

LEMMA ReadsFit ==
  ASSUME ToldInv, NEW s, Told(seen, s), IsMade(doc.session[s]), NEW es, ReadsOf(s, es)
  PROVE  /\ \A x \in es : x \in Entities /\ Rev(doc, x) # 0
         /\ \A r : DOMAIN r.before = es => OnSession(seen, r, s)
<1>1. Sound(doc) /\ s \in Sessions
  BY DEF ToldInv, CatalogueInv, Told
<1>2. CASE es = {<<"session", s>>}
  BY <1>1, <1>2, MadeHasRevision, ReadsSession DEF OnSession
<1>3. CASE \E t \in Tabs : es = {<<"session", s>>, <<"tab", t>>} /\ IsMade(doc.tab[t])
  <2>1. PICK t \in Tabs : es = {<<"session", s>>, <<"tab", t>>} /\ IsMade(doc.tab[t])
    BY <1>3
  <2>. QED BY <1>1, <2>1, MadeHasRevision, ReadsOne DEF OnSession
<1>. QED BY <1>2, <1>3 DEF ReadsOf

LEMMA AsksTell ==
  ASSUME ToldInv, NEW c \in Clients,
         \/ AskCreateSession(c) \/ AskCreateTab(c) \/ AskCreateTerminal(c) \/ AskMoveTerminal(c)
         \/ AskSelectTerminal(c) \/ AskCloseTerminal(c) \/ AskArchiveTab(c) \/ AskArchiveSession(c)
  PROVE  ToldInv'
<1>1. CatalogueInv' /\ Sound(doc) /\ doc \in Documents
  BY AsksKeep DEF ToldInv, CatalogueInv, Sound
<1>2. /\ \A s \in Known("session") : s \in Sessions /\ IsMade(doc.session[s]) /\ Told(seen, s)
      /\ \A t \in Known("tab") : t \in Tabs /\ IsMade(doc.tab[t]) /\ Told(seen, doc.tab[t].session)
      /\ \A m \in Known("terminal") : m \in Terms /\ IsMade(doc.terminal[m])
                                      /\ Told(seen, doc.terminal[m].session)
                                      /\ IsMade(doc.session[doc.terminal[m].session])
  <2>1. /\ \A s \in Known("session") : s \in Sessions /\ IsMade(doc.session[s])
        /\ \A t \in Known("tab") : t \in Tabs /\ IsMade(doc.tab[t])
        /\ \A m \in Known("terminal") : m \in Terms /\ IsMade(doc.terminal[m])
    BY KnownIsMade DEF ToldInv, CatalogueInv
  <2>2. \A m \in Terms : IsMade(doc.terminal[m]) => IsMade(doc.session[doc.terminal[m].session])
    BY <1>1 DEF Sound, Made, OfSession, IsMade, IsUnmade
  <2>. QED BY <2>1, <2>2 DEF ToldInv, SessionsTold, Known, Told
<1>3. CASE AskCreateSession(c)
  <2>1. Ask(c, "createSession", 0, 0, {})
    BY <1>3 DEF AskCreateSession
  <2>2. \A r : r.op = "createSession" => AskFits(doc, seen, r)
    BY DEF AskFits
  <2>. QED BY <1>1, <2>1, <2>2, AskTells
<1>4. CASE AskCreateTab(c)
  <2>1. PICK s \in Known("session") : Ask(c, "createTab", s, 0, {<<"session", s>>})
    BY <1>4 DEF AskCreateTab
  <2>. DEFINE es == {<<"session", s>>}
  <2>2. ReadsOf(s, es)
    BY DEF ReadsOf
  <2>. HIDE DEF es
  <2>3. /\ \A x \in es : x \in Entities /\ Rev(doc, x) # 0
        /\ \A r : DOMAIN r.before = es => OnSession(seen, r, s)
    BY <1>2, <2>2, ReadsFit
  <2>4. \A r : r.op = "createTab" /\ r.on = s /\ DOMAIN r.before = es => AskFits(doc, seen, r)
    BY <2>3 DEF AskFits
  <2>5. Ask(c, "createTab", s, 0, es)
    BY <2>1 DEF es
  <2>. QED BY <1>1, <2>3, <2>4, <2>5, AskTells
<1>5. CASE AskCreateTerminal(c)
  <2>1. PICK s \in Known("session") : \E t, es :
           Ask(c, "createTerminal", s, t, es) /\ ReadsOf(s, es)
    <3>1. PICK s \in Known("session") :
            \/ Ask(c, "createTerminal", s, 0, {<<"session", s>>} \cup ActiveTab(s))
            \/ \E t \in Known("tab") : doc.tab[t].session = s
                  /\ Ask(c, "createTerminal", s, t, {<<"session", s>>, <<"tab", t>>})
      BY <1>5 DEF AskCreateTerminal
    <3>2. ReadsOf(s, {<<"session", s>>} \cup ActiveTab(s))
      <4>1. ActiveTab(s) = {} \/ \E t \in Tabs : ActiveTab(s) = {<<"tab", t>>} /\ IsMade(doc.tab[t])
        BY <1>1, <1>2, ActiveTabIs
      <4>2. CASE ActiveTab(s) = {}
        <5>1. {<<"session", s>>} \cup ActiveTab(s) = {<<"session", s>>}
          BY <4>2
        <5>. QED BY <5>1 DEF ReadsOf
      <4>3. CASE \E t \in Tabs : ActiveTab(s) = {<<"tab", t>>} /\ IsMade(doc.tab[t])
        <5>1. PICK t \in Tabs : ActiveTab(s) = {<<"tab", t>>} /\ IsMade(doc.tab[t])
          BY <4>3
        <5>2. {<<"session", s>>} \cup ActiveTab(s) = {<<"session", s>>, <<"tab", t>>}
          BY <5>1
        <5>. QED BY <5>1, <5>2 DEF ReadsOf
      <4>. QED BY <4>1, <4>2, <4>3
    <3>3. \A t \in Known("tab") : ReadsOf(s, {<<"session", s>>, <<"tab", t>>})
      BY <1>2 DEF ReadsOf
    <3>. QED BY <3>1, <3>2, <3>3
  <2>2. PICK t, es : Ask(c, "createTerminal", s, t, es) /\ ReadsOf(s, es)
    BY <2>1
  <2>3. /\ \A x \in es : x \in Entities /\ Rev(doc, x) # 0
        /\ \A r : DOMAIN r.before = es => OnSession(seen, r, s)
    BY <1>2, <2>2, ReadsFit
  <2>4. \A r : r.op = "createTerminal" /\ r.on = s /\ DOMAIN r.before = es => AskFits(doc, seen, r)
    BY <2>3 DEF AskFits
  <2>. QED BY <1>1, <2>2, <2>3, <2>4, AskTells
<1>6. CASE AskMoveTerminal(c)
  <2>1. PICK m \in Known("terminal") : \E t : Ask(c, "moveTerminal", m, t,
          {<<"session", doc.terminal[m].session>>} \cup All("tab", OpenTabs(doc, doc.terminal[m].session)))
    BY <1>6 DEF AskMoveTerminal
  <2>. DEFINE s == doc.terminal[m].session
  <2>2. s \in Sessions /\ Told(seen, s) /\ IsMade(doc.session[s])
    BY <1>2 DEF Told
  <2>3. PICK t, es : es = {<<"session", s>>} \cup All("tab", OpenTabs(doc, s)) /\ Ask(c, "moveTerminal", m, t, es)
    BY <2>1
  <2>4. ASSUME NEW x \in es PROVE x \in Entities /\ Rev(doc, x) # 0
    <3>. HIDE DEF s
    <3>1. CASE x = <<"session", s>>
      BY <1>1, <2>2, <3>1, MadeHasRevision
    <3>2. CASE x \in All("tab", OpenTabs(doc, s))
      <4>1. PICK i \in OpenTabs(doc, s) : x = <<"tab", i>>
        BY <3>2 DEF All
      <4>2. i \in Tabs /\ IsMade(doc.tab[i])
        BY <1>1, <4>1, Opened, OpenIsMade
      <4>. QED BY <1>1, <4>1, <4>2, MadeHasRevision
    <3>. QED BY <2>3, <3>1, <3>2
  <2>5. \A r : r.op = "moveTerminal" /\ r.on = m /\ DOMAIN r.before = es => AskFits(doc, seen, r)
    BY <2>2, <2>3 DEF AskFits
  <2>. QED BY <1>1, <2>3, <2>4, <2>5, AskTells
<1>7. CASE AskSelectTerminal(c)
  <2>1. PICK s \in Known("session") : \E m : Ask(c, "selectTerminal", s, m, {<<"session", s>>} \cup ActiveTab(s))
    BY <1>7 DEF AskSelectTerminal
  <2>2. PICK m, es : es = {<<"session", s>>} \cup ActiveTab(s) /\ Ask(c, "selectTerminal", s, m, es)
    BY <2>1
  <2>3. ReadsOf(s, es)
    <3>1. ActiveTab(s) = {} \/ \E t \in Tabs : ActiveTab(s) = {<<"tab", t>>} /\ IsMade(doc.tab[t])
      BY <1>1, <1>2, ActiveTabIs
    <3>2. CASE ActiveTab(s) = {}
      <4>1. es = {<<"session", s>>}
        BY <2>2, <3>2
      <4>. QED BY <4>1 DEF ReadsOf
    <3>3. CASE \E t \in Tabs : ActiveTab(s) = {<<"tab", t>>} /\ IsMade(doc.tab[t])
      <4>1. PICK t \in Tabs : ActiveTab(s) = {<<"tab", t>>} /\ IsMade(doc.tab[t])
        BY <3>3
      <4>2. es = {<<"session", s>>, <<"tab", t>>}
        BY <2>2, <4>1
      <4>. QED BY <4>1, <4>2 DEF ReadsOf
    <3>. QED BY <3>1, <3>2, <3>3
  <2>4. /\ \A x \in es : x \in Entities /\ Rev(doc, x) # 0
        /\ \A r : DOMAIN r.before = es => OnSession(seen, r, s)
    BY <1>2, <2>3, ReadsFit
  <2>5. \A r : r.op = "selectTerminal" /\ r.on = s /\ DOMAIN r.before = es => AskFits(doc, seen, r)
    BY <2>4 DEF AskFits
  <2>. QED BY <1>1, <2>2, <2>4, <2>5, AskTells
<1>8. CASE AskCloseTerminal(c)
  <2>1. PICK m \in Known("terminal") :
          Ask(c, "closeTerminal", m, 0, {<<"session", doc.terminal[m].session>>, <<"tab", doc.terminal[m].tab>>})
    BY <1>8 DEF AskCloseTerminal
  <2>. DEFINE s == doc.terminal[m].session
              t == doc.terminal[m].tab
  <2>2. PICK es : es = {<<"session", s>>, <<"tab", t>>} /\ Ask(c, "closeTerminal", m, 0, es)
    BY <2>1
  <2>3. t \in Tabs /\ IsMade(doc.tab[t])
    BY <1>2 DEF ToldInv, Homes
  <2>4. Told(seen, s) /\ IsMade(doc.session[s])
    BY <1>2
  <2>5. ReadsOf(s, es)
    BY <2>2, <2>3 DEF ReadsOf
  <2>6. /\ \A x \in es : x \in Entities /\ Rev(doc, x) # 0
        /\ \A r : DOMAIN r.before = es => OnSession(seen, r, s)
    <3>. HIDE DEF s, t
    <3>. QED BY <2>4, <2>5, ReadsFit
  <2>7. \A r : r.op = "closeTerminal" /\ r.on = m /\ DOMAIN r.before = es => AskFits(doc, seen, r)
    BY <2>6 DEF AskFits
  <2>. QED BY <1>1, <2>2, <2>6, <2>7, AskTells
<1>9. CASE AskArchiveTab(c)
  <2>1. PICK t \in Known("tab") : Ask(c, "archiveTab", t, 0, {})
    BY <1>9 DEF AskArchiveTab
  <2>2. \A r : r.op = "archiveTab" /\ r.on = t => AskFits(doc, seen, r)
    BY <1>2 DEF AskFits
  <2>. QED BY <1>1, <2>1, <2>2, AskTells
<1>10. CASE AskArchiveSession(c)
  <2>1. PICK s \in Known("session") : Ask(c, "archiveSession", s, 0, All("session", Open(doc, "session")))
    BY <1>10 DEF AskArchiveSession
  <2>2. PICK es : es = All("session", Open(doc, "session")) /\ Ask(c, "archiveSession", s, 0, es)
    BY <2>1
  <2>3. ASSUME NEW x \in es PROVE x \in Entities /\ Rev(doc, x) # 0
    <3>1. PICK i \in Open(doc, "session") : x = <<"session", i>>
      BY <2>2 DEF All
    <3>2. i \in Sessions /\ IsMade(doc.session[i])
      BY <1>1, <3>1, Opened, OpenIsMade
    <3>. QED BY <1>1, <3>1, <3>2, MadeHasRevision
  <2>4. \A r : r.op = "archiveSession" /\ r.on = s => AskFits(doc, seen, r)
    BY <1>2 DEF AskFits
  <2>. QED BY <1>1, <2>2, <2>3, <2>4, AskTells
<1>. QED BY <1>3, <1>4, <1>5, <1>6, <1>7, <1>8, <1>9, <1>10

LEMMA IdleTells ==
  ASSUME NEW d, NEW told
  PROVE  RequestTells(d, told, Idle) /\ \A x : ~Owed(d, told, Idle, x)
BY DEF RequestTells, Owed, Idle

LEMMA FailTells ==
  ASSUME ToldInv, NEW c \in Clients, Fail(c)
  PROVE  ToldInv'
<1>1. /\ request[c].at = "asked" /\ Continue(c, <<>>)
      /\ doc' = doc /\ seen' = seen /\ untold' = untold
  BY DEF Fail
<1>2. Sound(doc) /\ doc \in Documents /\ DOMAIN request = Clients
  BY DEF ToldInv, CatalogueInv, Sound, RequestsFit
<1>3. CatalogueInv'
  BY FailKeeps DEF ToldInv
<1>4. HeardNext({})
  BY <1>1, SameHeard
<1>5. Goes(doc, seen, doc', {})
  BY <1>1, <1>2, StillGoes DEF AllAnnounced
<1>6. request'[c] = Idle /\ \A y \in Clients \ {c} : request'[y] = request[y]
  BY <1>1, <1>2 DEF Continue
<1>7. RequestTells(doc', seen', Idle)
  BY IdleTells
<1>8. \A x : ~Owed(doc, seen, request[c], x)
  BY <1>1 DEF Owed
<1>9. Follows(doc, doc')
  BY <1>1, <1>2, SameKeeps
<1>10. untold \ {} \subseteq untold' /\ \A x \in Entities : Rev(doc', x) = Rev(doc, x)
  BY <1>1
<1>. QED BY <1>3, <1>4, <1>5, <1>6, <1>7, <1>8, <1>9, <1>10, StepTells

(* Looking again.                                                                *)
Unfound(r, l) ==
    CASE l[1] = "tab" -> Coincide(doc, r, {l})
      [] l[1] = "snapshot" -> Unread(r, l[2])
      [] OTHER -> {}

(* What an entry covers is found, or coincides with what was read.                *)
LEMMA CoveredIsFound ==
  ASSUME ToldInv, NEW r, NEW l, RequestTells(doc, seen, r), LookFits(doc, seen, r, l),
         NEW x \in Entities, Covers(doc, seen, r, l, x)
  PROVE  x \in Found(r, l) \/ x \in Unfound(r, l)
<1>1. Sound(doc) /\ doc \in Documents /\ x = <<x[1], x[2]>>
  BY EntityKinds DEF ToldInv, CatalogueInv, Sound
<1>2. /\ \A s : s \in Open(doc, "session") <=> s \in Sessions /\ doc.session[s].state = "open"
      /\ \A s, t : t \in OpenTabs(doc, s) <=> IsTabOf(doc, t, s)
  BY <1>1, Opened
<1>3. \A s : OpenTabOf(doc, s, x) => x \in All("tab", OpenTabs(doc, s))
  BY <1>1, <1>2 DEF All, OpenTabOf
<1>4. CASE l[1] \in {"tab", "session"}
  <2>1. l = x /\ Newer(doc, r, x)
    BY <1>4 DEF Covers
  <2>2. Found(r, l) = {e \in {l} : Differs(doc, r, e)}
    BY <1>4 DEF Found
  <2>3. CASE Differs(doc, r, x)
    BY <2>1, <2>2, <2>3
  <2>4. CASE ~Differs(doc, r, x)
    <3>1. PICK y \in DOMAIN r.before : y[1] = x[1] /\ r.before[y] = Rev(doc, x)
      BY <2>4 DEF Differs
    <3>2. OneOf(r, l[1]) /\ (l[1] = "session" => l \in DOMAIN r.before)
      BY <1>4 DEF LookFits, ReadOnly
    <3>3. x \notin DOMAIN r.before
      <4>1. ASSUME x \in DOMAIN r.before PROVE FALSE
        <5>1. y = x
          BY <2>1, <3>1, <3>2, <4>1 DEF OneOf
        <5>2. Rev(doc, x) \in Nat /\ r.before[x] \in Nat /\ Rev(doc, x) > r.before[x]
          BY <1>1, <2>1, <4>1, RevOf DEF Newer, RequestTells
        <5>. QED BY <3>1, <5>1, <5>2
      <4>. QED BY <4>1
    <3>4. l[1] = "tab" /\ x \in Coincide(doc, r, {l})
      BY <1>4, <2>1, <2>4, <3>2, <3>3 DEF Coincide
    <3>. QED BY <3>4 DEF Unfound
  <2>. QED BY <2>3, <2>4
<1>5. CASE l[1] = "tabs"
  <2>1. OpenTabOf(doc, l[2], x) \/ (l = x /\ Newer(doc, r, x))
    BY <1>5 DEF Covers
  <2>2. x[1] # "tabs"
    BY EntityKinds
  <2>3. Found(r, l) = All("tab", OpenTabs(doc, l[2]))
    BY <1>5 DEF Found
  <2>. QED BY <1>3, <1>5, <2>1, <2>2, <2>3
<1>6. CASE l[1] = "snapshot"
  <2>1. x[1] # "snapshot"
    BY EntityKinds
  <2>2. Newer(doc, r, x) /\ (x = <<"session", l[2]>> \/ OpenTabOf(doc, l[2], x))
    BY <1>6, <2>1 DEF Covers
  <2>3. Found(r, l) = {e \in All("tab", OpenTabs(doc, l[2])) \cup {<<"session", l[2]>>} :
                         DiffersFromItself(doc, r, e)}
    BY <1>6 DEF Found
  <2>4. CASE x \in DOMAIN r.before
    <3>1. DiffersFromItself(doc, r, x)
      <4>1. Rev(doc, x) \in Nat /\ r.before[x] \in Nat /\ Rev(doc, x) > r.before[x]
        BY <1>1, <2>2, <2>4, RevOf DEF Newer, RequestTells
      <4>. QED BY <2>4, <4>1 DEF DiffersFromItself
    <3>. QED BY <1>3, <2>2, <2>3, <3>1
  <2>5. CASE x \notin DOMAIN r.before
    <3>1. <<"session", l[2]>> \in DOMAIN r.before
      BY <1>6 DEF LookFits
    <3>2. x \in Unread(r, l[2])
      BY <1>3, <2>2, <2>5, <3>1 DEF Unread
    <3>. QED BY <1>6, <3>2 DEF Unfound
  <2>. QED BY <2>4, <2>5
<1>7. CASE l[1] = "others"
  <2>1. x[1] # "others"
    BY EntityKinds
  <2>2. PICK s : Others(doc, seen, r, s) /\ (x = <<"session", s>> \/ OpenTabOf(doc, s, x))
    BY <1>7, <2>1 DEF Covers
  <2>. DEFINE new == {i \in Open(doc, "session") : <<"session", i>> \notin DOMAIN r.before}
  <2>3. Found(r, l) = All("session", new) \cup UNION {All("tab", OpenTabs(doc, i)) : i \in new}
    BY <1>7 DEF Found
  <2>4. s \in new
    BY <1>2, <2>2 DEF Others
  <2>. HIDE DEF new
  <2>5. <<"session", s>> \in All("session", new)
    BY <2>4 DEF All
  <2>6. All("tab", OpenTabs(doc, s)) \subseteq UNION {All("tab", OpenTabs(doc, i)) : i \in new}
    BY <2>4
  <2>. QED BY <1>3, <2>2, <2>3, <2>5, <2>6
<1>. QED BY <1>4, <1>5, <1>6, <1>7 DEF LookFits, LookKinds

(* What is found is told after its session, or with it.                           *)
LEMMA FoundGoes ==
  ASSUME ToldInv, NEW r, NEW l, LookFits(doc, seen, r, l)
  PROVE  Goes(doc, seen, doc, Found(r, l))
<1>1. Sound(doc) /\ doc \in Documents
  BY DEF ToldInv, CatalogueInv, Sound
<1>2. /\ \A s : s \in Open(doc, "session") <=> s \in Sessions /\ doc.session[s].state = "open"
      /\ \A s, t : t \in OpenTabs(doc, s) <=> IsTabOf(doc, t, s)
  BY <1>1, Opened
<1>3. \A s, t : <<"tab", t>> \in All("tab", OpenTabs(doc, s)) <=> IsTabOf(doc, t, s)
  BY <1>2 DEF All
<1>. DEFINE es == Found(r, l)
            Tabwise == \A t \in Tabs : <<"tab", t>> \in es => Announced(seen, doc, es, doc.tab[t].session)
            Whole == \A s \in Sessions : seen["session"][s] = 0 /\ <<"session", s>> \in es =>
                        \A t : IsTabOf(doc, t, s) => <<"tab", t>> \in es
            NoTerms == \A m : <<"terminal", m>> \notin es
<1>4. Tabwise /\ Whole /\ NoTerms
  <2>1. CASE l[1] = "tab"
    <3>1. es \subseteq {l} /\ l = <<"tab", l[2]>>
      BY <2>1 DEF Found, LookFits
    <3>2. Told(seen, doc.tab[l[2]].session)
      BY <2>1 DEF LookFits
    <3>. HIDE DEF es
    <3>. QED BY <3>1, <3>2 DEF Announced, Told
  <2>2. CASE l[1] = "session"
    <3>1. es \subseteq {l} /\ l = <<"session", l[2]>>
      BY <2>2 DEF Found, LookFits
    <3>2. Told(seen, l[2])
      BY <2>2 DEF LookFits
    <3>. HIDE DEF es
    <3>. QED BY <3>1, <3>2 DEF Told
  <2>3. CASE l[1] = "tabs"
    <3>1. es = All("tab", OpenTabs(doc, l[2]))
      BY <2>3 DEF Found
    <3>2. Told(seen, l[2])
      BY <2>3 DEF LookFits
    <3>3. \A t : <<"tab", t>> \in es <=> IsTabOf(doc, t, l[2])
      BY <1>3, <3>1
    <3>4. \A x \in es : x[1] = "tab"
      BY <3>1 DEF All
    <3>. HIDE DEF es
    <3>. QED BY <3>2, <3>3, <3>4 DEF Announced, Told, IsTabOf
  <2>4. CASE l[1] = "snapshot"
    <3>1. es \subseteq All("tab", OpenTabs(doc, l[2])) \cup {<<"session", l[2]>>}
      BY <2>4 DEF Found
    <3>2. Told(seen, l[2])
      BY <2>4 DEF LookFits
    <3>3. \A t : <<"tab", t>> \in es => IsTabOf(doc, t, l[2])
      BY <1>3, <3>1
    <3>4. \A x \in es : x[1] = "tab" \/ x = <<"session", l[2]>>
      BY <3>1 DEF All
    <3>. HIDE DEF es
    <3>. QED BY <3>2, <3>3, <3>4 DEF Announced, Told, IsTabOf
  <2>5. CASE l[1] = "others"
    <3>. DEFINE new == {i \in Open(doc, "session") : <<"session", i>> \notin DOMAIN r.before}
    <3>1. es = All("session", new) \cup UNION {All("tab", OpenTabs(doc, i)) : i \in new}
      BY <2>5 DEF Found
    <3>2. \A s : s \in new => s \in Sessions /\ IsMade(doc.session[s])
      BY <1>1, <1>2, OpenIsMade
    <3>. HIDE DEF new, es
    <3>3. \A s : <<"session", s>> \in es <=> s \in new
      BY <3>1 DEF All
    <3>4. \A t : <<"tab", t>> \in es <=> \E s \in new : IsTabOf(doc, t, s)
      BY <1>3, <3>1 DEF All
    <3>5. NoTerms
      BY <3>1 DEF All
    <3>6. Whole
      BY <3>3, <3>4
    <3>7. Tabwise
      BY <3>2, <3>3, <3>4 DEF Announced, IsTabOf
    <3>. QED BY <3>5, <3>6, <3>7
  <2>. QED BY <2>1, <2>2, <2>3, <2>4, <2>5 DEF LookFits, LookKinds
<1>. HIDE DEF es
<1>5. AllAnnounced(seen, doc, es)
  BY <1>4 DEF AllAnnounced
<1>6. Goes(doc, seen, doc, es)
  BY <1>1, <1>4, <1>5, StillGoes
<1>. QED BY <1>6 DEF es

LEMMA SameBefore ==
  ASSUME NEW d, NEW told, NEW r, NEW q, q.before = r.before, NEW l
  PROVE  /\ LookFits(d, told, r, l) => LookFits(d, told, q, l)
         /\ \A x : Covers(d, told, r, l, x) => Covers(d, told, q, l, x)
<1>1. LookFits(d, told, r, l) => LookFits(d, told, q, l)
  BY DEF LookFits, OneOf, ReadOnly
<1>2. ASSUME NEW x, Covers(d, told, r, l, x) PROVE Covers(d, told, q, l, x)
  <2>1. Newer(d, r, x) <=> Newer(d, q, x)
    BY DEF Newer
  <2>2. \A s : Others(d, told, r, s) => Others(d, told, q, s)
    BY DEF Others
  <2>. QED BY <1>2, <2>1, <2>2 DEF Covers
<1>. QED BY <1>1, <1>2

LEMMA ContinueIs ==
  ASSUME ToldInv, NEW c \in Clients, NEW l, Continue(c, l)
  PROVE  /\ \A y \in Clients \ {c} : request'[y] = request[y]
         /\ l = <<>> => request'[c] = Idle
         /\ l # <<>> => /\ request'[c].at = "look" /\ request'[c].look = l
                        /\ request'[c].before = request[c].before
<1>1. DOMAIN request = Clients /\ IsRequest(request[c])
  BY DEF ToldInv, CatalogueInv, RequestsFit
<1>. DEFINE looking == [request[c] EXCEPT !.at = "look", !.look = l]
<1>2. request'[c] = IF l = <<>> THEN Idle ELSE looking
  BY <1>1 DEF Continue
<1>3. looking.at = "look" /\ looking.look = l /\ looking.before = request[c].before
  BY <1>1 DEF IsRequest
<1>4. \A y \in Clients \ {c} : request'[y] = request[y]
  BY <1>1 DEF Continue
<1>. HIDE DEF looking
<1>. QED BY <1>2, <1>3, <1>4

LEMMA ContinueTells ==
  ASSUME ToldInv, Sound(doc'), Follows(doc, doc'), NEW es, HeardNext(es), TabsStay(doc, doc'),
         NEW c \in Clients, NEW r, r = request[c], NEW l \in Seq(LookKinds \X Nat), Continue(c, l),
         \A i \in DOMAIN l : LookFits(doc', seen', r, l[i])
  PROVE  /\ RequestTells(doc', seen', request'[c])
         /\ \A x : \A i \in DOMAIN l : Covers(doc', seen', r, l[i], x) => Owed(doc', seen', request'[c], x)
<1>. DEFINE new == request'[c]
<1>1. /\ l = <<>> => new = Idle
      /\ l # <<>> => new.at = "look" /\ new.look = l /\ new.before = r.before
  BY ContinueIs
<1>2. RequestTells(doc', seen', r)
  <2>1. /\ r.at = "asked" => Fits(doc, r) /\ r.op \in Operations
        /\ Sound(doc) /\ SeenBefore /\ RequestTells(doc, seen, r)
    BY DEF ToldInv, CatalogueInv, RequestsFit, RequestsTell
  <2>. QED BY <2>1, RequestStays
<1>. HIDE DEF new
<1>3. CASE l = <<>>
  <2>1. RequestTells(doc', seen', new)
    BY <1>1, <1>3, IdleTells
  <2>2. DOMAIN l = {}
    BY <1>3
  <2>. QED BY <2>1, <2>2 DEF new
<1>4. CASE l # <<>>
  <2>1. new.at = "look" /\ new.look = l /\ new.before = r.before
    BY <1>1, <1>4
  <2>2. \A i \in DOMAIN l : LookFits(doc', seen', new, l[i])
    BY <2>1, SameBefore
  <2>3. RequestTells(doc', seen', new)
    BY <1>2, <1>4, <2>1, <2>2 DEF RequestTells
  <2>4. ASSUME NEW x, NEW i \in DOMAIN l, Covers(doc', seen', r, l[i], x)
        PROVE  Owed(doc', seen', new, x)
    <3>1. Covers(doc', seen', new, l[i], x)
      BY <2>1, <2>4, SameBefore
    <3>. QED BY <2>1, <3>1 DEF Owed
  <2>. QED BY <2>3, <2>4 DEF new
<1>. QED BY <1>3, <1>4

LEMMA LookTells ==
  ASSUME ToldInv, NEW c \in Clients, Look(c)
  PROVE  ToldInv'
<1>. DEFINE r == request[c]
            l == Head(r.look)
            es == Found(r, l)
            rest == Tail(r.look)
<1>1. /\ r.at = "look" /\ Tell(doc', es) /\ doc' = doc /\ Continue(c, rest)
      /\ untold' = (untold \cup Unfound(r, l)) \ es
  BY DEF Look, Unfound
<1>2. Sound(doc) /\ SeenBefore /\ doc \in Documents /\ RequestTells(doc, seen, r)
  BY DEF ToldInv, CatalogueInv, Sound, RequestsTell
<1>3. CatalogueInv'
  BY LookKeeps DEF ToldInv
<1>4. Follows(doc, doc') /\ Sound(doc')
  BY <1>1, <1>2, SameKeeps
<1>5. HeardNext(es)
  <2>. HIDE DEF es
  <2>. QED BY <1>1, <1>2, <1>4, TellHeard
<1>6. /\ r.look \in Seq(LookKinds \X Nat) /\ r.look # <<>>
      /\ \A i \in DOMAIN r.look : LookFits(doc, seen, r, r.look[i])
  BY <1>1, <1>2 DEF RequestTells
<1>7. /\ l = r.look[1] /\ 1 \in DOMAIN r.look /\ rest \in Seq(LookKinds \X Nat)
      /\ \A i \in DOMAIN r.look : i = 1 \/ (i - 1 \in DOMAIN rest /\ rest[i - 1] = r.look[i])
      /\ \A i \in DOMAIN rest : i + 1 \in DOMAIN r.look /\ rest[i] = r.look[i + 1]
  <2>1. \A q \in Seq(LookKinds \X Nat) : q # <<>> =>
          /\ Head(q) = q[1] /\ 1 \in DOMAIN q /\ Tail(q) \in Seq(LookKinds \X Nat)
          /\ \A i \in DOMAIN q : i = 1 \/ (i - 1 \in DOMAIN Tail(q) /\ Tail(q)[i - 1] = q[i])
          /\ \A i \in DOMAIN Tail(q) : i + 1 \in DOMAIN q /\ Tail(q)[i] = q[i + 1]
    OBVIOUS
  <2>. QED BY <1>6, <2>1
<1>. HIDE DEF l, rest
<1>8. LookFits(doc, seen, r, l)
  BY <1>6, <1>7
<1>9. Goes(doc, seen, doc', es)
  BY <1>1, <1>8, FoundGoes
<1>. HIDE DEF es
<1>10. ASSUME NEW i \in DOMAIN rest PROVE LookFits(doc', seen', r, rest[i])
  <2>1. LookFits(doc, seen, r, rest[i])
    BY <1>6, <1>7, <1>10
  <2>2. \A s : Told(seen, s) => Told(seen', s)
    BY <1>2, <1>4, <1>5, SessionStaysTold
  <2>. QED BY <1>1, <2>1, <2>2 DEF LookFits
<1>11. TabsStay(doc, doc')
  BY <1>9 DEF Goes
<1>12. /\ RequestTells(doc', seen', request'[c])
       /\ \A x : \A i \in DOMAIN rest : Covers(doc', seen', r, rest[i], x) => Owed(doc', seen', request'[c], x)
  <2>1. PICK q : q = r
    OBVIOUS
  <2>2. \A i \in DOMAIN rest : LookFits(doc', seen', q, rest[i])
    BY <1>10, <2>1
  <2>. QED BY <1>1, <1>4, <1>5, <1>7, <1>11, <2>1, <2>2, ContinueTells
<1>13. ASSUME NEW x \in Entities, x \notin es, x \notin untold', Owed(doc, seen, request[c], x)
       PROVE  Owed(doc', seen', request'[c], x)
  <2>1. PICK i \in DOMAIN r.look : Covers(doc, seen, r, r.look[i], x)
    BY <1>13 DEF Owed
  <2>2. i # 1
    <3>1. ASSUME i = 1 PROVE FALSE
      <4>1. Covers(doc, seen, r, l, x)
        BY <1>7, <2>1, <3>1
      <4>2. x \in es \/ x \in Unfound(r, l)
        BY <1>2, <1>8, <4>1, CoveredIsFound DEF es
      <4>. QED BY <1>1, <1>13, <4>2
    <3>. QED BY <3>1
  <2>3. i - 1 \in DOMAIN rest /\ rest[i - 1] = r.look[i]
    BY <1>7, <2>2
  <2>4. Covers(doc', seen', r, r.look[i], x)
    <3>1. Rev(doc', x) = Rev(doc, x)
      BY <1>1
    <3>. QED BY <1>2, <1>4, <1>5, <1>9, <1>13, <2>1, <3>1, CoversStay
  <2>. QED BY <1>12, <2>3, <2>4
<1>14. \A y \in Clients \ {c} : request'[y] = request[y]
  BY <1>1, ContinueIs
<1>15. untold \ es \subseteq untold' /\ \A x \in Entities : Rev(doc', x) = Rev(doc, x)
  BY <1>1
<1>. HIDE DEF r
<1>. QED BY <1>3, <1>4, <1>5, <1>9, <1>12, <1>13, <1>14, <1>15, StepTells

(* An operation, with what its command tells and looks at.                        *)
ToldOfOutcome(r, o) == o.told \cup {e \in o.compared : Differs(o.doc, r, e)}
Finds(d, told, r, l, x) ==
    \/ l = x
    \/ l[1] = "tabs" /\ OpenTabOf(d, l[2], x)
    \/ l[1] = "snapshot" /\ (x = <<"session", l[2]>> \/ OpenTabOf(d, l[2], x))
    \/ l[1] = "others" /\ \E s : Others(d, told, r, s) /\ (x = <<"session", s>> \/ OpenTabOf(d, s, x))

LEMMA ChangeIs ==
  ASSUME ToldInv, NEW c \in Clients, Change(c), NEW r, r = request[c], NEW o, o = Outcome(r)
  PROVE  /\ r.at = "asked" /\ r.op \in Operations /\ Fits(doc, r) /\ AskFits(doc, seen, r)
         /\ RequestTells(doc, seen, r)
         /\ Sound(doc) /\ SeenBefore /\ Visible(doc) /\ doc' = o.doc /\ Sound(doc') /\ Follows(doc, doc')
         /\ Unused(doc.session) # {} /\ Unused(doc.tab) # {} /\ Unused(doc.terminal) # {}
         /\ HeardNext(ToldOfOutcome(r, o))
         /\ untold' = (untold \cup Coincide(o.doc, r, o.compared)) \ ToldOfOutcome(r, o)
         /\ Continue(c, o.look)
<1>1. /\ r.at = "asked" /\ doc' = o.doc /\ Tell(doc', ToldOfOutcome(r, o)) /\ Continue(c, o.look)
      /\ untold' = (untold \cup Coincide(o.doc, r, o.compared)) \ ToldOfOutcome(r, o)
  BY DEF Change, ToldOfOutcome
<1>2. /\ Sound(doc) /\ SeenBefore /\ Visible(doc) /\ r.op \in Operations /\ Fits(doc, r)
      /\ RequestTells(doc, seen, r)
      /\ Unused(doc.session) # {} /\ Unused(doc.tab) # {} /\ Unused(doc.terminal) # {}
  BY <1>1, IdsLeft DEF ToldInv, CatalogueInv, RequestsFit, RequestsTell
<1>3. AskFits(doc, seen, r)
  BY <1>1, <1>2 DEF RequestTells
<1>4. Sound(doc') /\ Follows(doc, doc')
  BY <1>1, <1>2, OutcomeKeeps
<1>5. HeardNext(ToldOfOutcome(r, o))
  <2>1. doc' \in Documents
    BY <1>4 DEF Sound
  <2>. QED BY <1>1, <1>2, <1>4, <2>1, TellHeard
<1>. QED BY <1>1, <1>2, <1>3, <1>4, <1>5

LEMMA OutcomeTells ==
  ASSUME ToldInv, NEW c \in Clients, Change(c), NEW r, r = request[c], NEW o, o = Outcome(r),
         Goes(doc, seen, doc', ToldOfOutcome(r, o)),
         o.look \in Seq(LookKinds \X Nat), \A i \in DOMAIN o.look : LookFits(doc', seen', r, o.look[i]),
         \A x \in Entities : Rev(doc', x) # Rev(doc, x) =>
            \/ x \in o.told
            \/ x \in o.compared /\ OneOf(r, x[1])
            \/ \E i \in DOMAIN o.look : Finds(doc', seen', r, o.look[i], x)
  PROVE  ToldInv'
<1>. DEFINE es == ToldOfOutcome(r, o)
<1>1. /\ r.at = "asked" /\ RequestTells(doc, seen, r) /\ Sound(doc) /\ Sound(doc') /\ Follows(doc, doc')
      /\ HeardNext(es) /\ Continue(c, o.look) /\ doc' = o.doc
      /\ untold' = (untold \cup Coincide(o.doc, r, o.compared)) \ es
  BY ChangeIs
<1>2. CatalogueInv'
  BY ChangeKeeps DEF ToldInv
<1>3. doc \in Documents /\ doc' \in Documents
  BY <1>1 DEF Sound
<1>. HIDE DEF es
<1>4. TabsStay(doc, doc') /\ Goes(doc, seen, doc', es)
  BY DEF Goes, es
<1>5. /\ RequestTells(doc', seen', request'[c])
      /\ \A x : \A i \in DOMAIN o.look :
            Covers(doc', seen', r, o.look[i], x) => Owed(doc', seen', request'[c], x)
  BY <1>1, <1>4, ContinueTells
<1>6. ASSUME NEW x \in Entities, Rev(doc', x) # Rev(doc, x), x \in DOMAIN r.before
      PROVE  r.before[x] \in Nat /\ Rev(doc', x) \in Nat /\ Rev(doc', x) > r.before[x]
  <2>1. r.before[x] \in Nat /\ r.before[x] <= Rev(doc, x)
    BY <1>1, <1>6 DEF RequestTells
  <2>2. Rev(doc, x) <= Rev(doc', x) /\ Rev(doc, x) \in Nat /\ Rev(doc', x) \in Nat
    BY <1>1, <1>3, RevGrows
  <2>. QED BY <1>6, <2>1, <2>2
<1>7. ASSUME NEW x \in Entities, x \notin es, x \notin untold', Rev(doc', x) # Rev(doc, x)
      PROVE  Owed(doc', seen', request'[c], x)
  <2>1. x \notin o.told
    BY <1>7 DEF es, ToldOfOutcome
  <2>2. ~(x \in o.compared /\ OneOf(r, x[1]))
    <3>1. ASSUME x \in o.compared, OneOf(r, x[1]) PROVE FALSE
      <4>1. ~Differs(o.doc, r, x)
        BY <1>7, <3>1 DEF es, ToldOfOutcome
      <4>2. PICK y \in DOMAIN r.before : y[1] = x[1] /\ r.before[y] = Rev(doc', x)
        BY <1>1, <4>1 DEF Differs
      <4>3. x \in DOMAIN r.before
        <5>1. ASSUME x \notin DOMAIN r.before PROVE x \in Coincide(o.doc, r, o.compared)
          BY <3>1, <4>1, <5>1 DEF Coincide
        <5>. QED BY <1>1, <1>7, <5>1
      <4>4. y = x
        BY <3>1, <4>2, <4>3 DEF OneOf
      <4>. QED BY <1>6, <1>7, <4>2, <4>3, <4>4
    <3>. QED BY <3>1
  <2>3. PICK i \in DOMAIN o.look : Finds(doc', seen', r, o.look[i], x)
    BY <1>7, <2>1, <2>2
  <2>4. Newer(doc', r, x)
    BY <1>6, <1>7 DEF Newer
  <2>5. Covers(doc', seen', r, o.look[i], x)
    BY <2>3, <2>4 DEF Covers, Finds
  <2>. QED BY <1>5, <2>5
<1>8. \A x : ~Owed(doc, seen, request[c], x)
  BY <1>1 DEF Owed
<1>9. /\ \A y \in Clients \ {c} : request'[y] = request[y]
      /\ untold \ es \subseteq untold'
  BY <1>1, ContinueIs
<1>. QED BY <1>1, <1>2, <1>4, <1>5, <1>7, <1>8, <1>9, StepTells

(* What an operation changes.                                                    *)
Only(d, e, S, T, M) ==
    /\ \A s \in Sessions \ S : e.session[s] = d.session[s]
    /\ \A t \in Tabs \ T : e.tab[t] = d.tab[t]
    /\ \A m \in Terms \ M : e.terminal[m] = d.terminal[m]

LEMMA ChangedIsIn ==
  ASSUME NEW d \in Documents, NEW e \in Documents, NEW S, NEW T, NEW M, Only(d, e, S, T, M),
         NEW x \in Entities, Rev(e, x) # Rev(d, x)
  PROVE  \/ x = <<"session", x[2]>> /\ x[2] \in Sessions /\ x[2] \in S
         \/ x = <<"tab", x[2]>> /\ x[2] \in Tabs /\ x[2] \in T
         \/ x = <<"terminal", x[2]>> /\ x[2] \in Terms /\ x[2] \in M
<1>1. x = <<x[1], x[2]>>
  BY EntityKinds
<1>2. CASE x[1] = "session" /\ x[2] \in Sessions
  BY <1>1, <1>2, RevOf DEF Only
<1>3. CASE x[1] = "tab" /\ x[2] \in Tabs
  BY <1>1, <1>3, RevOf DEF Only
<1>4. CASE x[1] = "terminal" /\ x[2] \in Terms
  BY <1>1, <1>4, RevOf DEF Only
<1>. QED BY <1>2, <1>3, <1>4, EntityKinds

(* Where no tab and no session that nobody knows closes, and what is told is of   *)
(* a session that is known.                                                      *)
LEMMA GoesOn ==
  ASSUME NEW d, NEW e, Sound(e), NEW told, NEW es, TabsStay(d, e), TermsGo(d, e),
         \A t \in Tabs : d.tab[t].state = "open" =>
            IsMade(d.tab[t]) /\ (e.tab[t].state = "open" \/ <<"tab", t>> \in es),
         \A s \in Sessions : d.session[s].state = "open" /\ told["session"][s] = 0 =>
            e.session[s].state = "open" /\ <<"session", s>> \notin es,
         \A t \in Tabs : <<"tab", t>> \in es => Told(told, e.tab[t].session),
         \A m \in Terms : <<"terminal", m>> \in es => Told(told, e.terminal[m].session)
  PROVE  Goes(d, told, e, es)
<1>1. TabsGo(d, e, es)
  BY DEF TabsGo, IsTabOf, TabsStay
<1>2. OthersGo(d, told, e, es)
  BY DEF OthersGo
<1>3. AllAnnounced(told, e, es)
  BY DEF AllAnnounced, Announced, Told
<1>. QED BY <1>1, <1>2, <1>3 DEF Goes

LEMMA ErrorTells ==
  ASSUME ToldInv, NEW c \in Clients, Change(c), NEW r, r = request[c], Outcome(r) = Error
  PROVE  ToldInv'
<1>1. PICK o : o = Outcome(r)
  OBVIOUS
<1>2. o.doc = doc /\ o.told = {} /\ o.compared = {} /\ o.look = <<>>
  BY <1>1 DEF Error, Done
<1>3. Sound(doc) /\ doc' = o.doc
  BY <1>1, ChangeIs
<1>4. ToldOfOutcome(r, o) = {}
  BY <1>2 DEF ToldOfOutcome
<1>5. Goes(doc, seen, doc', ToldOfOutcome(r, o))
  BY <1>2, <1>3, <1>4, StillGoes DEF AllAnnounced
<1>6. /\ o.look \in Seq(LookKinds \X Nat) /\ \A i \in DOMAIN o.look : LookFits(doc', seen', r, o.look[i])
      /\ \A x \in Entities : Rev(doc', x) = Rev(doc, x)
  BY <1>2, <1>3
<1>. QED BY <1>1, <1>5, <1>6, OutcomeTells

LEMMA Ids ==
  /\ Sessions \subseteq Nat /\ Tabs \subseteq Nat /\ Terms \subseteq Nat
  /\ 0 \notin Sessions /\ 0 \notin Tabs /\ 0 \notin Terms
BY Numbers

LEMMA ShortSequences ==
  ASSUME NEW S, NEW a \in S, NEW b \in S
  PROVE  /\ <<>> \in Seq(S) /\ DOMAIN <<>> = {}
         /\ <<a>> \in Seq(S) /\ DOMAIN <<a>> = {1} /\ <<a>>[1] = a
         /\ <<a, b>> \in Seq(S) /\ DOMAIN <<a, b>> = {1, 2} /\ <<a, b>>[1] = a /\ <<a, b>>[2] = b
OBVIOUS

LEMMA OneLook ==
  ASSUME NEW k \in LookKinds, NEW i \in Nat, NEW look, look = <<<<k, i>>>>
  PROVE  look \in Seq(LookKinds \X Nat) /\ DOMAIN look = {1} /\ look[1] = <<k, i>>
<1>1. PICK a \in LookKinds \X Nat : a = <<k, i>>
  OBVIOUS
<1>2. look = <<a>>
  BY <1>1
<1>3. PICK S : S = LookKinds \X Nat
  OBVIOUS
<1>4. <<a>> \in Seq(S) /\ DOMAIN <<a>> = {1} /\ <<a>>[1] = a
  BY <1>3, ShortSequences
<1>. QED BY <1>1, <1>2, <1>3, <1>4

LEMMA TwoLooks ==
  ASSUME NEW k \in LookKinds, NEW i \in Nat, NEW j \in LookKinds, NEW n \in Nat,
         NEW look, look = <<<<k, i>>, <<j, n>>>>
  PROVE  /\ look \in Seq(LookKinds \X Nat) /\ DOMAIN look = {1, 2}
         /\ look[1] = <<k, i>> /\ look[2] = <<j, n>>
<1>1. PICK a \in LookKinds \X Nat : a = <<k, i>>
  OBVIOUS
<1>2. PICK b \in LookKinds \X Nat : b = <<j, n>>
  OBVIOUS
<1>3. look = <<a, b>>
  BY <1>1, <1>2
<1>4. PICK S : S = LookKinds \X Nat
  OBVIOUS
<1>5. <<a, b>> \in Seq(S) /\ DOMAIN <<a, b>> = {1, 2} /\ <<a, b>>[1] = a /\ <<a, b>>[2] = b
  BY <1>4, ShortSequences
<1>. QED BY <1>1, <1>2, <1>3, <1>4, <1>5

(* A session and its tab.                                                        *)
LEMMA CreateSessionTells ==
  ASSUME ToldInv, NEW c \in Clients, Change(c), NEW r, r = request[c], r.op = "createSession"
  PROVE  ToldInv'
<1>1. PICK o : o = Outcome(r)
  OBVIOUS
<1>2. PICK s : s = Fresh(doc, "session")
  OBVIOUS
<1>3. PICK t : t = Fresh(doc, "tab")
  OBVIOUS
<1>4. /\ o.doc = WithSession(doc) /\ o.told = {<<"session", s>>} /\ o.compared = {}
      /\ o.look = <<<<"tabs", s>>>>
  BY <1>1, <1>2 DEF Outcome, CreateSession, Done
<1>5. /\ Sound(doc) /\ SeenBefore /\ doc' = o.doc /\ Sound(doc') /\ Follows(doc, doc')
      /\ Unused(doc.session) # {} /\ Unused(doc.tab) # {} /\ HeardNext(ToldOfOutcome(r, o))
      /\ doc \in Documents /\ doc' \in Documents
  BY <1>1, ChangeIs DEF Sound
<1>6. /\ s \in Sessions /\ doc.session[s].state = "none"
      /\ t \in Tabs /\ doc.tab[t].state = "none"
  BY <1>2, <1>3, <1>5, FreshSession, FreshTab
<1>7. /\ doc'.terminal = doc.terminal
      /\ \A x \in Sessions \ {s} : doc'.session[x] = doc.session[x]
      /\ \A x \in Tabs \ {t} : doc'.tab[x] = doc.tab[x]
      /\ doc'.session[s].state = "open"
      /\ doc'.tab[t] = NewTab(s, 0)
  BY <1>2, <1>3, <1>4, <1>5, <1>6, WithSessionRows
<1>8. ToldOfOutcome(r, o) = {<<"session", s>>}
  BY <1>4 DEF ToldOfOutcome
<1>9. Goes(doc, seen, doc', {<<"session", s>>})
  <2>1. TabsStay(doc, doc')
    BY <1>6, <1>7 DEF TabsStay, IsMade
  <2>2. TermsGo(doc, doc')
    BY <1>5, <1>7 DEF TermsGo, Sound, Made, OfSession
  <2>3. \A x \in Tabs : doc.tab[x].state = "open" => IsMade(doc.tab[x]) /\ doc'.tab[x].state = "open"
    BY <1>5, <1>6, <1>7 DEF Sound, Made, OfSession, IsUnmade
  <2>4. \A x \in Sessions : doc.session[x].state = "open" =>
          doc'.session[x].state = "open" /\ <<"session", x>> \notin {<<"session", s>>}
    BY <1>6, <1>7
  <2>5. \A x : <<"tab", x>> \notin {<<"session", s>>} /\ <<"terminal", x>> \notin {<<"session", s>>}
    OBVIOUS
  <2>. QED BY <1>5, <2>1, <2>2, <2>3, <2>4, <2>5, GoesOn
<1>10. Told(seen', s)
  <2>1. IsMade(doc'.session[s])
    BY <1>5, <1>6, <1>7, OpenIsMade
  <2>. QED BY <1>5, <1>6, <1>8, <2>1, ToldNext
<1>11. /\ o.look \in Seq(LookKinds \X Nat) /\ DOMAIN o.look = {1} /\ o.look[1] = <<"tabs", s>>
  <2>1. s \in Nat
    BY <1>6, Ids
  <2>2. "tabs" \in LookKinds
    BY DEF LookKinds
  <2>3. o.look = <<<<"tabs", s>>>>
    BY <1>4
  <2>. QED BY <2>1, <2>2, <2>3, OneLook
<1>12. LookFits(doc', seen', r, <<"tabs", s>>)
  BY <1>10 DEF LookFits, LookKinds
<1>13. ASSUME NEW x \in Entities, Rev(doc', x) # Rev(doc, x)
       PROVE  x \in o.told \/ \E i \in DOMAIN o.look : Finds(doc', seen', r, o.look[i], x)
  <2>1. Only(doc, doc', {s}, {t}, {})
    BY <1>7 DEF Only
  <2>2. x = <<"session", s>> \/ x = <<"tab", t>>
    BY <1>5, <1>13, <2>1, ChangedIsIn
  <2>3. OpenTabOf(doc', s, <<"tab", t>>)
    BY <1>6, <1>7 DEF OpenTabOf, IsTabOf, NewTab
  <2>4. Finds(doc', seen', r, <<"tabs", s>>, <<"tab", t>>)
    BY <2>3 DEF Finds
  <2>. QED BY <1>4, <1>11, <2>2, <2>4
<1>14. \A i \in DOMAIN o.look : LookFits(doc', seen', r, o.look[i])
  BY <1>11, <1>12
<1>. QED BY <1>1, <1>8, <1>9, <1>11, <1>13, <1>14, OutcomeTells

(* A tab; the session shows it if it showed none.                                 *)
LEMMA CreateTabTells ==
  ASSUME ToldInv, NEW c \in Clients, Change(c), NEW r, r = request[c], r.op = "createTab",
         Outcome(r) # Error
  PROVE  ToldInv'
<1>1. PICK o : o = Outcome(r)
  OBVIOUS
<1>2. PICK t : t = Fresh(doc, "tab")
  OBVIOUS
<1>3. PICK s : s = r.on
  OBVIOUS
<1>4. /\ o.doc = WithTab(doc, s) /\ o.told = {<<"tab", t>>} /\ o.compared = {}
      /\ o.look = <<<<"session", s>>>>
  BY <1>1, <1>2, <1>3 DEF Outcome, CreateTab, Done
<1>5. /\ Sound(doc) /\ SeenBefore /\ doc' = o.doc /\ Sound(doc') /\ Follows(doc, doc')
      /\ Unused(doc.tab) # {} /\ HeardNext(ToldOfOutcome(r, o)) /\ AskFits(doc, seen, r)
      /\ doc \in Documents /\ doc' \in Documents
  BY <1>1, ChangeIs DEF Sound
<1>6. t \in Tabs /\ doc.tab[t].state = "none"
  BY <1>2, <1>5, FreshTab
<1>7. OnSession(seen, r, s) /\ Told(seen, s) /\ s \in Sessions
  BY <1>3, <1>5 DEF AskFits, OnSession, Told
<1>8. /\ doc'.terminal = doc.terminal
      /\ \A x \in Sessions \ {s} : doc'.session[x] = doc.session[x]
      /\ doc'.session[s].state = doc.session[s].state
      /\ \A x \in Tabs \ {t} : doc'.tab[x] = doc.tab[x]
      /\ doc'.tab[t].state = "open" /\ doc'.tab[t].session = s
  <2>. DEFINE tab == NewTab(s, Cardinality(OpenTabs(doc, s)))
              row == [Revised(doc.session[s]) EXCEPT !.tab = t]
              e == [doc EXCEPT !.tab[t] = tab]
  <2>1. tab.state = "open" /\ tab.session = s
    BY DEF NewTab
  <2>. HIDE DEF tab
  <2>2. /\ e.terminal = doc.terminal /\ e.session = doc.session /\ e.tab = [doc.tab EXCEPT ![t] = tab]
        /\ [e EXCEPT !.session[s] = row].session = [doc.session EXCEPT ![s] = row]
        /\ [e EXCEPT !.session[s] = row].tab = e.tab /\ [e EXCEPT !.session[s] = row].terminal = doc.terminal
    BY <1>5 DEF Documents
  <2>3. doc' = IF doc.session[s].tab = 0 THEN [e EXCEPT !.session[s] = row] ELSE e
    <3>1. doc' = IF doc.session[s].tab = 0
                   THEN [e EXCEPT !.session[s] = [Revised(@) EXCEPT !.tab = t]] ELSE e
      BY <1>2, <1>4, <1>5 DEF WithTab, tab
    <3>2. [e EXCEPT !.session[s] = [Revised(@) EXCEPT !.tab = t]] = [e EXCEPT !.session[s] = row]
      BY <2>2
    <3>. QED BY <3>1, <3>2
  <2>4. row.state = doc.session[s].state
    <3>1. Revised(doc.session[s]) \in SessionRecords /\ Revised(doc.session[s]).state = doc.session[s].state
      BY <1>5, <1>7, Typed, RevisedSession
    <3>2. \A q \in SessionRecords : [q EXCEPT !.tab = t].state = q.state
      BY DEF SessionRecords
    <3>. QED BY <3>1, <3>2
  <2>. HIDE DEF row, e
  <2>5. /\ doc'.terminal = doc.terminal /\ doc'.tab = [doc.tab EXCEPT ![t] = tab]
        /\ doc'.session = doc.session \/ doc'.session = [doc.session EXCEPT ![s] = row]
    BY <2>2, <2>3
  <2>. QED BY <1>5, <1>6, <1>7, <2>1, <2>4, <2>5, Typed
<1>9. ToldOfOutcome(r, o) = {<<"tab", t>>}
  BY <1>4 DEF ToldOfOutcome
<1>10. Goes(doc, seen, doc', {<<"tab", t>>})
  <2>1. TabsStay(doc, doc')
    BY <1>6, <1>8 DEF TabsStay, IsMade
  <2>2. TermsGo(doc, doc')
    BY <1>5, <1>8 DEF TermsGo, Sound, Made, OfSession
  <2>3. \A x \in Tabs : doc.tab[x].state = "open" => IsMade(doc.tab[x]) /\ doc'.tab[x].state = "open"
    BY <1>5, <1>6, <1>8 DEF Sound, Made, OfSession, IsUnmade
  <2>4. \A x \in Sessions : doc.session[x].state = "open" =>
          doc'.session[x].state = "open" /\ <<"session", x>> \notin {<<"tab", t>>}
    BY <1>8
  <2>5. \A x : /\ <<"tab", x>> \in {<<"tab", t>>} => x = t
               /\ <<"terminal", x>> \notin {<<"tab", t>>}
    OBVIOUS
  <2>. QED BY <1>5, <1>7, <1>8, <2>1, <2>2, <2>3, <2>4, <2>5, GoesOn
<1>11. o.look \in Seq(LookKinds \X Nat) /\ DOMAIN o.look = {1} /\ o.look[1] = <<"session", s>>
  <2>1. s \in Nat
    BY <1>7, Ids
  <2>2. "session" \in LookKinds
    BY DEF LookKinds
  <2>3. o.look = <<<<"session", s>>>>
    BY <1>4
  <2>. QED BY <2>1, <2>2, <2>3, OneLook
<1>12. LookFits(doc', seen', r, <<"session", s>>)
  <2>1. Told(seen', s)
    BY <1>5, <1>7, ToldNext
  <2>. QED BY <1>7, <2>1 DEF LookFits, LookKinds, OnSession
<1>13. ASSUME NEW x \in Entities, Rev(doc', x) # Rev(doc, x)
       PROVE  x \in o.told \/ \E i \in DOMAIN o.look : Finds(doc', seen', r, o.look[i], x)
  <2>1. Only(doc, doc', {s}, {t}, {})
    BY <1>8 DEF Only
  <2>2. x = <<"session", s>> \/ x = <<"tab", t>>
    BY <1>5, <1>13, <2>1, ChangedIsIn
  <2>3. Finds(doc', seen', r, <<"session", s>>, <<"session", s>>)
    BY DEF Finds
  <2>. QED BY <1>4, <1>11, <2>2, <2>3
<1>14. \A i \in DOMAIN o.look : LookFits(doc', seen', r, o.look[i])
  BY <1>11, <1>12
<1>. QED BY <1>1, <1>9, <1>10, <1>11, <1>13, <1>14, OutcomeTells

(* A terminal, which its tab and its session then show.                           *)
LEMMA CreateTerminalTells ==
  ASSUME ToldInv, NEW c \in Clients, Change(c), NEW r, r = request[c], r.op = "createTerminal",
         Outcome(r) # Error
  PROVE  ToldInv'
<1>1. PICK o : o = Outcome(r)
  OBVIOUS
<1>2. PICK m : m = Fresh(doc, "terminal")
  OBVIOUS
<1>3. PICK s : s = r.on
  OBVIOUS
<1>4. PICK t : t = IF r.to = 0 THEN doc.session[s].tab ELSE r.to
  OBVIOUS
<1>5. /\ o.doc = WithTerm(doc, s, t) /\ o.told = {<<"terminal", m>>} /\ o.compared = {}
      /\ o.look = <<<<"tab", t>>, <<"session", s>>>> /\ t \in OpenTabs(doc, s)
  BY <1>1, <1>2, <1>3, <1>4 DEF Outcome, CreateTerminal, Done
<1>6. /\ Sound(doc) /\ SeenBefore /\ doc' = o.doc /\ Sound(doc') /\ Follows(doc, doc')
      /\ Unused(doc.terminal) # {} /\ HeardNext(ToldOfOutcome(r, o)) /\ AskFits(doc, seen, r)
      /\ doc \in Documents /\ doc' \in Documents
  BY <1>1, ChangeIs DEF Sound
<1>7. m \in Terms /\ doc.terminal[m].state = "none" /\ IsTabOf(doc, t, s) /\ t \in Tabs /\ IsMade(doc.tab[t])
  <2>1. IsTabOf(doc, t, s)
    BY <1>5, <1>6, Opened
  <2>. QED BY <1>2, <1>6, <2>1, FreshTerminal, OpenIsMade
<1>8. OnSession(seen, r, s) /\ Told(seen, s) /\ s \in Sessions
  BY <1>3, <1>6 DEF AskFits, OnSession, Told
<1>9. /\ \A x \in Sessions \ {s} : doc'.session[x] = doc.session[x]
      /\ doc'.session[s].state = doc.session[s].state
      /\ \A x \in Tabs \ {t} : doc'.tab[x] = doc.tab[x]
      /\ doc'.tab[t].state = doc.tab[t].state /\ doc'.tab[t].session = doc.tab[t].session
      /\ \A x \in Terms \ {m} : doc'.terminal[x] = doc.terminal[x]
      /\ doc'.terminal[m].state = "open" /\ doc'.terminal[m].session = s
  <2>1. PICK mid : mid = Adding(doc, m, s, t)
    OBVIOUS
  <2>2. /\ mid \in Documents /\ mid.session = doc.session /\ mid.tab = doc.tab
        /\ \A x \in Terms \ {m} : mid.terminal[x] = doc.terminal[x]
        /\ mid.terminal[m].state = "open" /\ mid.terminal[m].session = s /\ mid.terminal[m].tab = t
    BY <1>6, <1>7, <1>8, <2>1, AddingRows
  <2>3. doc' = SelectIn(mid, s, m)
    BY <1>2, <1>5, <1>6, <2>1 DEF WithTerm, Adding
  <2>4. /\ doc'.terminal = mid.terminal
        /\ \A x \in Sessions \ {s} : doc'.session[x] = mid.session[x]
        /\ \A x \in Tabs \ {t} : doc'.tab[x] = mid.tab[x]
        /\ doc'.session[s].state = mid.session[s].state /\ doc'.tab[t].state = mid.tab[t].state
        /\ doc'.tab[t].session = mid.tab[t].session
    BY <1>7, <1>8, <2>2, <2>3, SelectInRows
  <2>. QED BY <2>2, <2>4
<1>10. ToldOfOutcome(r, o) = {<<"terminal", m>>}
  BY <1>5 DEF ToldOfOutcome
<1>11. Goes(doc, seen, doc', {<<"terminal", m>>})
  <2>1. TabsStay(doc, doc')
    BY <1>9 DEF TabsStay
  <2>2. TermsGo(doc, doc')
    <3>1. \A x \in Terms \ {m} : IsMade(doc.terminal[x]) \/ IsUnmade(doc.terminal[x])
      BY <1>6 DEF Sound, Made, OfSession
    <3>. QED BY <1>9, <3>1 DEF TermsGo
  <2>3. \A x \in Tabs : doc.tab[x].state = "open" => IsMade(doc.tab[x]) /\ doc'.tab[x].state = "open"
    BY <1>6, <1>9 DEF Sound, Made, OfSession, IsUnmade
  <2>4. \A x \in Sessions : doc.session[x].state = "open" =>
          doc'.session[x].state = "open" /\ <<"session", x>> \notin {<<"terminal", m>>}
    BY <1>9
  <2>5. \A x : /\ <<"terminal", x>> \in {<<"terminal", m>>} => x = m
               /\ <<"tab", x>> \notin {<<"terminal", m>>}
    OBVIOUS
  <2>. QED BY <1>6, <1>8, <1>9, <2>1, <2>2, <2>3, <2>4, <2>5, GoesOn
<1>12. /\ o.look \in Seq(LookKinds \X Nat) /\ DOMAIN o.look = {1, 2}
       /\ o.look[1] = <<"tab", t>> /\ o.look[2] = <<"session", s>>
  <2>1. s \in Nat /\ t \in Nat
    BY <1>7, <1>8, Ids
  <2>2. "tab" \in LookKinds /\ "session" \in LookKinds
    BY DEF LookKinds
  <2>. QED BY <1>5, <2>1, <2>2, TwoLooks
<1>13. Told(seen', s)
  BY <1>6, <1>8, ToldNext
<1>14. LookFits(doc', seen', r, <<"session", s>>)
  BY <1>8, <1>13 DEF LookFits, LookKinds, OnSession
<1>15. LookFits(doc', seen', r, <<"tab", t>>)
  <2>1. IsMade(doc'.tab[t])
    BY <1>6, <1>7, MadeStays
  <2>2. doc'.tab[t].session = s
    BY <1>7, <1>9 DEF IsTabOf
  <2>. QED BY <1>7, <1>8, <1>13, <2>1, <2>2 DEF LookFits, LookKinds, OnSession
<1>16. \A i \in DOMAIN o.look : LookFits(doc', seen', r, o.look[i])
  BY <1>12, <1>14, <1>15
<1>17. ASSUME NEW x \in Entities, Rev(doc', x) # Rev(doc, x)
       PROVE  x \in o.told \/ \E i \in DOMAIN o.look : Finds(doc', seen', r, o.look[i], x)
  <2>1. Only(doc, doc', {s}, {t}, {m})
    BY <1>9 DEF Only
  <2>2. x = <<"session", s>> \/ x = <<"tab", t>> \/ x = <<"terminal", m>>
    BY <1>6, <1>17, <2>1, ChangedIsIn
  <2>3. \A y : Finds(doc', seen', r, y, y)
    BY DEF Finds
  <2>. QED BY <1>5, <1>12, <2>2, <2>3
<1>. QED BY <1>1, <1>10, <1>11, <1>12, <1>16, <1>17, OutcomeTells

(* A terminal in another tab; both tabs and the session show something else.      *)
IsMoved(d, e, s, from, t, m) ==
    /\ IsTabOf(d, from, s)
    /\ Only(d, e, {s}, {from, t}, {m})
    /\ e.session[s].state = d.session[s].state
    /\ \A x \in Tabs : e.tab[x].state = d.tab[x].state /\ e.tab[x].session = d.tab[x].session
    /\ e.terminal[m].state = "open" /\ e.terminal[m].session = s

LEMMA MovedRows ==
  ASSUME NEW d, Sound(d), NEW m \in Terms, d.terminal[m].state = "open",
         NEW s \in Sessions, d.terminal[m].session = s, NEW t \in Tabs, IsTabOf(d, t, s),
         NEW from \in Tabs, d.terminal[m].tab = from, NEW e, e = MovedTerm(d, m, t)
  PROVE  IsMoved(d, e, s, from, t, m)
<1>. USE DEF IsMoved
<1>1. d \in Documents
  BY DEF Sound
<1>2. IsTabOf(d, from, s) /\ from \in Tabs /\ s \in Sessions
  <2>1. IsTabOf(d, from, s)
    BY DEF Sound, Placed
  <2>. QED BY <2>1, OpenIsMade
<1>3. CASE t = from
  <2>1. e = d
    BY <1>3 DEF MovedTerm
  <2>. QED BY <1>2, <2>1 DEF Only
<1>4. CASE t # from
  <2>1. PICK mid : mid = Leaving(d, m, t)
    OBVIOUS
  <2>2. e = SelectIn(mid, s, m)
    BY <1>4, <2>1 DEF MovedTerm, Leaving, NextTerm
  <2>3. /\ mid \in Documents /\ mid.session = d.session
        /\ \A x \in Tabs \ {from} : mid.tab[x] = d.tab[x]
        /\ \A x \in Terms \ {m} : mid.terminal[x] = d.terminal[x]
        /\ mid.tab[from].state = d.tab[from].state /\ mid.tab[from].session = d.tab[from].session
        /\ mid.terminal[m].state = d.terminal[m].state /\ mid.terminal[m].session = d.terminal[m].session
        /\ mid.terminal[m].tab = t
    BY <1>1, <1>2, <2>1, LeavingRows
  <2>4. /\ e.terminal = mid.terminal
        /\ \A x \in Sessions \ {s} : e.session[x] = mid.session[x]
        /\ \A x \in Tabs \ {t} : e.tab[x] = mid.tab[x]
        /\ e.session[s].state = mid.session[s].state /\ e.tab[t].state = mid.tab[t].state
        /\ e.tab[t].session = mid.tab[t].session
    BY <1>2, <2>2, <2>3, SelectInRows
  <2>5. Only(d, e, {s}, {from, t}, {m})
    BY <2>3, <2>4 DEF Only
  <2>6. \A x \in Tabs : e.tab[x].state = d.tab[x].state /\ e.tab[x].session = d.tab[x].session
    <3>1. \A x \in Tabs : mid.tab[x].state = d.tab[x].state /\ mid.tab[x].session = d.tab[x].session
      BY <2>3
    <3>. QED BY <2>4, <3>1
  <2>. QED BY <1>2, <2>3, <2>4, <2>5, <2>6
<1>. QED BY <1>3, <1>4

LEMMA MoveTerminalTells ==
  ASSUME ToldInv, NEW c \in Clients, Change(c), NEW r, r = request[c], r.op = "moveTerminal",
         Outcome(r) # Error
  PROVE  ToldInv'
<1>1. PICK o : o = Outcome(r)
  OBVIOUS
<1>2. PICK m : m = r.on
  OBVIOUS
<1>3. PICK s : s = doc.terminal[m].session
  OBVIOUS
<1>4. PICK t : t = r.to
  OBVIOUS
<1>5. PICK from : from = doc.terminal[m].tab
  OBVIOUS
<1>6. /\ o.doc = MovedTerm(doc, m, t) /\ o.told = {<<"terminal", m>>} /\ o.compared = {}
      /\ o.look = <<<<"snapshot", s>>>> /\ t \in OpenTabs(doc, s) /\ doc.terminal[m].state = "open"
  BY <1>1, <1>2, <1>3, <1>4 DEF Outcome, MoveTerminal, Done
<1>7. /\ Sound(doc) /\ SeenBefore /\ doc' = o.doc /\ Sound(doc') /\ Follows(doc, doc')
      /\ HeardNext(ToldOfOutcome(r, o)) /\ AskFits(doc, seen, r) /\ m \in Terms
      /\ doc \in Documents /\ doc' \in Documents
  BY <1>1, <1>2, ChangeIs DEF Sound, Fits
<1>8. Told(seen, s) /\ <<"session", s>> \in DOMAIN r.before
  BY <1>2, <1>3, <1>7 DEF AskFits
<1>9. IsTabOf(doc, t, s) /\ t \in Tabs
  BY <1>6, <1>7, Opened DEF IsTabOf
<1>10. /\ s \in Sessions /\ from \in Tabs /\ IsTabOf(doc, from, s)
       /\ Only(doc, doc', {s}, {from, t}, {m})
       /\ doc'.session[s].state = doc.session[s].state
       /\ \A x \in Tabs : doc'.tab[x].state = doc.tab[x].state /\ doc'.tab[x].session = doc.tab[x].session
       /\ doc'.terminal[m].state = "open" /\ doc'.terminal[m].session = s
  <2>1. doc' = MovedTerm(doc, m, t) /\ doc.terminal[m].state = "open"
    BY <1>6, <1>7
  <2>2. Sound(doc) /\ m \in Terms /\ t \in Tabs /\ IsTabOf(doc, t, s)
    BY <1>7, <1>9
  <2>3. PICK e : e = MovedTerm(doc, m, t)
    OBVIOUS
  <2>4. s \in Sessions /\ from \in Tabs
    <3>1. IsTabOf(doc, doc.terminal[m].tab, doc.terminal[m].session)
      BY <2>1, <2>2 DEF Sound, Placed
    <3>. QED BY <1>3, <1>5, <1>7, <3>1, OpenIsMade
  <2>5. IsMoved(doc, e, s, from, t, m)
    BY <1>3, <1>5, <2>1, <2>2, <2>3, <2>4, MovedRows
  <2>. QED BY <2>1, <2>3, <2>4, <2>5 DEF IsMoved
<1>11. ToldOfOutcome(r, o) = {<<"terminal", m>>}
  BY <1>6 DEF ToldOfOutcome
<1>12. Goes(doc, seen, doc', {<<"terminal", m>>})
  <2>1. TabsStay(doc, doc')
    BY <1>10 DEF TabsStay
  <2>2. TermsGo(doc, doc')
    <3>1. \A x \in Terms \ {m} : IsMade(doc.terminal[x]) \/ IsUnmade(doc.terminal[x])
      BY <1>7 DEF Sound, Made, OfSession
    <3>. QED BY <1>10, <3>1 DEF TermsGo, Only
  <2>3. \A x \in Tabs : doc.tab[x].state = "open" => IsMade(doc.tab[x]) /\ doc'.tab[x].state = "open"
    BY <1>7, <1>10 DEF Sound, Made, OfSession, IsUnmade
  <2>4. \A x \in Sessions : doc.session[x].state = "open" =>
          doc'.session[x].state = "open" /\ <<"session", x>> \notin {<<"terminal", m>>}
    BY <1>10 DEF Only
  <2>5. \A x : /\ <<"terminal", x>> \in {<<"terminal", m>>} => x = m
               /\ <<"tab", x>> \notin {<<"terminal", m>>}
    OBVIOUS
  <2>. QED BY <1>7, <1>8, <1>10, <2>1, <2>2, <2>3, <2>4, <2>5, GoesOn
<1>13. /\ o.look \in Seq(LookKinds \X Nat) /\ DOMAIN o.look = {1} /\ o.look[1] = <<"snapshot", s>>
  <2>1. s \in Nat
    BY <1>10, Ids
  <2>2. "snapshot" \in LookKinds
    BY DEF LookKinds
  <2>. QED BY <1>6, <2>1, <2>2, OneLook
<1>14. LookFits(doc', seen', r, <<"snapshot", s>>)
  <2>1. Told(seen', s)
    BY <1>7, <1>8, <1>10, ToldNext
  <2>. QED BY <1>8, <2>1 DEF LookFits, LookKinds
<1>15. \A i \in DOMAIN o.look : LookFits(doc', seen', r, o.look[i])
  BY <1>13, <1>14
<1>16. ASSUME NEW x \in Entities, Rev(doc', x) # Rev(doc, x)
       PROVE  x \in o.told \/ \E i \in DOMAIN o.look : Finds(doc', seen', r, o.look[i], x)
  <2>1. x = <<"session", s>> \/ x = <<"tab", t>> \/ x = <<"tab", from>> \/ x = <<"terminal", m>>
    BY <1>7, <1>10, <1>16, ChangedIsIn
  <2>2. OpenTabOf(doc', s, <<"tab", t>>) /\ OpenTabOf(doc', s, <<"tab", from>>)
    BY <1>9, <1>10 DEF OpenTabOf, IsTabOf
  <2>3. x # <<"terminal", m>> => Finds(doc', seen', r, <<"snapshot", s>>, x)
    BY <2>1, <2>2 DEF Finds
  <2>. QED BY <1>6, <1>13, <2>3
<1>. QED BY <1>1, <1>11, <1>12, <1>13, <1>15, <1>16, OutcomeTells

(* What a session shows: a terminal and its tab, or no terminal.                   *)
IsSelected(d, e, s) ==
    /\ e.terminal = d.terminal
    /\ \A x \in Sessions \ {s} : e.session[x] = d.session[x]
    /\ e.session[s].state = d.session[s].state
    /\ \A x \in Tabs : e.tab[x].state = d.tab[x].state /\ e.tab[x].session = d.tab[x].session
    /\ \A x \in Tabs : x = e.session[s].tab \/ e.tab[x] = d.tab[x]

LEMMA SelectNoneRows ==
  ASSUME NEW d \in Documents, NEW s \in Sessions,
         NEW e, e = [d EXCEPT !.session[s] = [Revised(@) EXCEPT !.terminal = 0]]
  PROVE  IsSelected(d, e, s)
<1>. DEFINE row == [Revised(d.session[s]) EXCEPT !.terminal = 0]
<1>1. e = [d EXCEPT !.session[s] = row]
  BY DEF Documents
<1>2. row.state = d.session[s].state
  <2>1. Revised(d.session[s]) \in SessionRecords /\ Revised(d.session[s]).state = d.session[s].state
    BY Typed, RevisedSession
  <2>2. \A q \in SessionRecords : [q EXCEPT !.terminal = 0].state = q.state
    BY DEF SessionRecords
  <2>. QED BY <2>1, <2>2
<1>. HIDE DEF row
<1>3. e.terminal = d.terminal /\ e.tab = d.tab /\ e.session = [d.session EXCEPT ![s] = row]
  BY <1>1 DEF Documents
<1>. QED BY <1>2, <1>3, Typed DEF IsSelected

LEMMA SelectInIs ==
  ASSUME NEW d \in Documents, NEW s \in Sessions, NEW m \in Terms, d.terminal[m].tab \in Tabs,
         NEW e, e = SelectIn(d, s, m)
  PROVE  IsSelected(d, e, s)
<1>1. PICK t \in Tabs : d.terminal[m].tab = t
  OBVIOUS
<1>2. /\ e.terminal = d.terminal
      /\ \A x \in Sessions \ {s} : e.session[x] = d.session[x]
      /\ \A x \in Tabs \ {t} : e.tab[x] = d.tab[x]
      /\ e.session[s].state = d.session[s].state /\ e.tab[t].state = d.tab[t].state
      /\ e.tab[t].session = d.tab[t].session /\ e.session[s].tab = t
  BY <1>1, SelectInRows
<1>. QED BY <1>2 DEF IsSelected

LEMMA SelectTerminalTells ==
  ASSUME ToldInv, NEW c \in Clients, Change(c), NEW r, r = request[c], r.op = "selectTerminal",
         Outcome(r) # Error
  PROVE  ToldInv'
<1>1. PICK o : o = Outcome(r)
  OBVIOUS
<1>2. PICK s : s = r.on
  OBVIOUS
<1>3. PICK t : t = o.doc.session[s].tab
  OBVIOUS
<1>4. /\ o.doc = IF r.to # 0 THEN SelectIn(doc, s, r.to)
                 ELSE [doc EXCEPT !.session[s] = [Revised(@) EXCEPT !.terminal = 0]]
      /\ r.to # 0 => doc.terminal[r.to].state = "open"
      /\ o.told = {} /\ o.compared = {<<"session", s>>}
      /\ o.look = IF t = 0 THEN <<>> ELSE <<<<"tab", t>>>>
  <2>. DEFINE d == IF r.to # 0 THEN SelectIn(doc, r.on, r.to)
                   ELSE [doc EXCEPT !.session[r.on] = [Revised(@) EXCEPT !.terminal = 0]]
              look == IF d.session[r.on].tab = 0 THEN <<>> ELSE <<<<"tab", d.session[r.on].tab>>>>
  <2>1. Outcome(r) = IF r.to # 0 /\ doc.terminal[r.to].state # "open" THEN Error
                     ELSE Done(d, {}, {<<"session", r.on>>}, look)
    BY DEF Outcome, SelectTerminal
  <2>. HIDE DEF look
  <2>2. (r.to # 0 => doc.terminal[r.to].state = "open") /\ o = Done(d, {}, {<<"session", r.on>>}, look)
    <3>. HIDE DEF d
    <3>. QED BY <1>1, <2>1
  <2>3. o.doc = d /\ o.told = {} /\ o.compared = {<<"session", r.on>>} /\ o.look = look
    <3>. HIDE DEF d
    <3>. QED BY <2>2 DEF Done
  <2>4. look = IF t = 0 THEN <<>> ELSE <<<<"tab", t>>>>
    <3>1. t = d.session[r.on].tab
      <4>. HIDE DEF d
      <4>. QED BY <1>2, <1>3, <2>3
    <3>. HIDE DEF d
    <3>. QED BY <3>1 DEF look
  <2>. QED BY <1>2, <2>2, <2>3, <2>4
<1>5. /\ Sound(doc) /\ SeenBefore /\ doc' = o.doc /\ Sound(doc') /\ Follows(doc, doc')
      /\ HeardNext(ToldOfOutcome(r, o)) /\ AskFits(doc, seen, r) /\ Fits(doc, r)
      /\ doc \in Documents /\ doc' \in Documents
  BY <1>1, ChangeIs DEF Sound
<1>6. OnSession(seen, r, s) /\ Told(seen, s) /\ s \in Sessions /\ IsMade(doc.session[s])
  BY <1>2, <1>5 DEF AskFits, OnSession, Told, Fits
<1>7. IsSelected(doc, doc', s)
  <2>1. CASE r.to = 0
    <3>1. doc' = [doc EXCEPT !.session[s] = [Revised(@) EXCEPT !.terminal = 0]]
      BY <1>4, <1>5, <2>1
    <3>. QED BY <1>5, <1>6, <3>1, SelectNoneRows
  <2>2. CASE r.to # 0
    <3>1. r.to \in Terms /\ doc.terminal[r.to].state = "open" /\ doc' = SelectIn(doc, s, r.to)
      BY <1>4, <1>5, <2>2 DEF Fits
    <3>2. doc.terminal[r.to].tab \in Tabs
      BY <1>5, <3>1 DEF Sound, Placed, IsTabOf
    <3>. QED BY <1>5, <1>6, <3>1, <3>2, SelectInIs
  <2>. QED BY <2>1, <2>2
<1>8. t = 0 \/ IsTabOf(doc', t, s)
  <2>1. doc'.session[s].state # "none"
    BY <1>6, <1>7 DEF IsSelected, IsMade
  <2>. QED BY <1>3, <1>5, <1>6, <2>1 DEF Sound, SessionShows
<1>9. \A x \in ToldOfOutcome(r, o) : x = <<"session", s>>
  BY <1>4 DEF ToldOfOutcome
<1>10. Goes(doc, seen, doc', ToldOfOutcome(r, o))
  <2>1. TabsStay(doc, doc')
    BY <1>7 DEF TabsStay, IsSelected
  <2>2. TermsGo(doc, doc')
    BY <1>5, <1>7 DEF TermsGo, Sound, Made, OfSession, IsSelected
  <2>3. \A x \in Tabs : doc.tab[x].state = "open" => IsMade(doc.tab[x]) /\ doc'.tab[x].state = "open"
    BY <1>5, <1>7 DEF Sound, Made, OfSession, IsUnmade, IsSelected
  <2>4. \A x \in Sessions : doc.session[x].state = "open" /\ seen["session"][x] = 0 =>
          doc'.session[x].state = "open" /\ <<"session", x>> \notin ToldOfOutcome(r, o)
    BY <1>6, <1>7, <1>9 DEF IsSelected, Told
  <2>5. \A x : <<"tab", x>> \notin ToldOfOutcome(r, o) /\ <<"terminal", x>> \notin ToldOfOutcome(r, o)
    BY <1>9
  <2>. QED BY <1>5, <2>1, <2>2, <2>3, <2>4, <2>5, GoesOn
<1>11. /\ o.look \in Seq(LookKinds \X Nat)
       /\ \A i \in DOMAIN o.look : LookFits(doc', seen', r, o.look[i])
       /\ t # 0 => \E i \in DOMAIN o.look : o.look[i] = <<"tab", t>>
  <2>1. CASE t = 0
    BY <1>4, <2>1
  <2>2. CASE t # 0
    <3>1. IsTabOf(doc', t, s) /\ t \in Tabs /\ IsMade(doc'.tab[t])
      BY <1>5, <1>8, <2>2, OpenIsMade
    <3>2. t \in Nat
      BY <3>1, Ids
    <3>3. "tab" \in LookKinds
      BY DEF LookKinds
    <3>4. o.look = <<<<"tab", t>>>>
      BY <1>4, <2>2
    <3>5. o.look \in Seq(LookKinds \X Nat) /\ DOMAIN o.look = {1} /\ o.look[1] = <<"tab", t>>
      BY <3>2, <3>3, <3>4, OneLook
    <3>6. Told(seen', s)
      BY <1>5, <1>6, ToldNext
    <3>7. LookFits(doc', seen', r, <<"tab", t>>)
      BY <1>6, <3>1, <3>6 DEF LookFits, LookKinds, OnSession, IsTabOf
    <3>. QED BY <3>5, <3>7
  <2>. QED BY <2>1, <2>2
<1>12. ASSUME NEW x \in Entities, Rev(doc', x) # Rev(doc, x)
       PROVE  \/ x \in o.compared /\ OneOf(r, x[1])
              \/ \E i \in DOMAIN o.look : Finds(doc', seen', r, o.look[i], x)
  <2>1. Only(doc, doc', {s}, {t}, {})
    BY <1>3, <1>5, <1>7 DEF Only, IsSelected
  <2>2. x = <<"session", s>> \/ (x = <<"tab", t>> /\ t \in Tabs)
    BY <1>5, <1>12, <2>1, ChangedIsIn
  <2>3. CASE x = <<"session", s>>
    BY <1>4, <1>6, <2>3 DEF OnSession, ReadOnly
  <2>4. CASE x = <<"tab", t>> /\ t \in Tabs
    <3>1. t # 0
      BY <2>4, Ids
    <3>2. Finds(doc', seen', r, <<"tab", t>>, x)
      BY <2>4 DEF Finds
    <3>. QED BY <1>11, <3>1, <3>2
  <2>. QED BY <2>2, <2>3, <2>4
<1>. QED BY <1>1, <1>10, <1>11, <1>12, OutcomeTells

(* A closed terminal, with its tab and its session, if they showed it.             *)
LEMMA CloseTerminalTells ==
  ASSUME ToldInv, NEW c \in Clients, Change(c), NEW r, r = request[c], r.op = "closeTerminal"
  PROVE  ToldInv'
<1>1. PICK o : o = Outcome(r)
  OBVIOUS
<1>2. PICK m : m = r.on
  OBVIOUS
<1>3. PICK s : doc.terminal[m].session = s
  OBVIOUS
<1>4. PICK t : doc.terminal[m].tab = t
  OBVIOUS
<1>5. /\ o.doc = WithoutTerm(doc, m) /\ o.told = {<<"terminal", m>>} /\ o.look = <<>>
      /\ o.compared = {<<"session", s>>, <<"tab", t>>}
  BY <1>1, <1>2, <1>3, <1>4 DEF Outcome, CloseTerminal, Done
<1>6. /\ Sound(doc) /\ SeenBefore /\ doc' = o.doc /\ Sound(doc') /\ Follows(doc, doc')
      /\ AskFits(doc, seen, r) /\ m \in Terms /\ IsMade(doc.terminal[m])
      /\ doc \in Documents /\ doc' \in Documents
  BY <1>1, <1>2, ChangeIs DEF Sound, Fits
<1>7. OnSession(seen, r, s) /\ Told(seen, s) /\ s \in Sessions
  BY <1>2, <1>3, <1>6 DEF AskFits, OnSession, Told
<1>8. t \in Tabs /\ IsMade(doc.tab[t]) /\ doc.tab[t].session = s
  BY <1>3, <1>4, <1>6 DEF ToldInv, Homes
<1>9. /\ Only(doc, doc', {s}, {t}, {m})
      /\ doc'.session[s].state = doc.session[s].state
      /\ doc'.tab[t].state = doc.tab[t].state /\ doc'.tab[t].session = s
      /\ doc'.terminal[m].session = s /\ doc'.terminal[m].tab = t
  <2>1. CASE doc.terminal[m].state = "archived"
    <3>1. doc' = doc
      BY <1>5, <1>6, <2>1 DEF WithoutTerm
    <3>. QED BY <1>3, <1>4, <1>8, <3>1 DEF Only
  <2>2. CASE doc.terminal[m].state # "archived"
    <3>1. doc.terminal[m].state = "open"
      <4>1. doc.terminal[m] \in TermRecords
        BY <1>6, Typed
      <4>. QED BY <1>6, <2>2, <4>1 DEF TermRecords, States, IsMade
    <3>2. PICK n : n = NextTerm(doc, m)
      OBVIOUS
    <3>3. doc' = WithoutTerm(doc, m)
      BY <1>5, <1>6
    <3>4. /\ \A x \in Sessions \ {s} : doc'.session[x] = doc.session[x]
          /\ \A x \in Tabs \ {t} : doc'.tab[x] = doc.tab[x]
          /\ \A x \in Terms \ {m} : doc'.terminal[x] = doc.terminal[x]
          /\ doc'.session[s] = Shown(doc.session[s], m, n)
          /\ doc'.tab[t] = Shown(doc.tab[t], m, n)
          /\ doc'.terminal[m] = Archived(doc.terminal[m])
      BY <1>3, <1>4, <1>6, <1>7, <1>8, <3>1, <3>2, <3>3, WithoutTermRows
    <3>5. /\ Shown(doc.session[s], m, n).state = doc.session[s].state
          /\ Shown(doc.tab[t], m, n).state = doc.tab[t].state
          /\ Shown(doc.tab[t], m, n).session = doc.tab[t].session
      <4>1. \A q \in SessionRecords : [Revised(q) EXCEPT !.terminal = n].state = q.state
        BY DEF SessionRecords, Revised
      <4>2. \A q \in TabRecords : /\ [Revised(q) EXCEPT !.terminal = n].state = q.state
                                  /\ [Revised(q) EXCEPT !.terminal = n].session = q.session
        BY DEF TabRecords, Revised
      <4>3. doc.session[s] \in SessionRecords /\ doc.tab[t] \in TabRecords
        BY <1>6, <1>7, <1>8, Typed
      <4>. QED BY <4>1, <4>2, <4>3 DEF Shown
    <3>6. /\ Archived(doc.terminal[m]).session = doc.terminal[m].session
          /\ Archived(doc.terminal[m]).tab = doc.terminal[m].tab
      <4>1. \A q \in TermRecords : Archived(q).session = q.session /\ Archived(q).tab = q.tab
        BY DEF TermRecords, Archived, Revised
      <4>. QED BY <1>6, <4>1, Typed
    <3>. QED BY <1>3, <1>4, <1>8, <3>4, <3>5, <3>6 DEF Only
  <2>. QED BY <2>1, <2>2
<1>10. \A x \in ToldOfOutcome(r, o) : x = <<"terminal", m>> \/ x = <<"session", s>> \/ x = <<"tab", t>>
  BY <1>5 DEF ToldOfOutcome
<1>11. Goes(doc, seen, doc', ToldOfOutcome(r, o))
  <2>1. TabsStay(doc, doc')
    BY <1>8, <1>9 DEF TabsStay, Only
  <2>2. TermsGo(doc, doc')
    <3>1. \A x \in Terms \ {m} : IsMade(doc.terminal[x]) \/ IsUnmade(doc.terminal[x])
      BY <1>6 DEF Sound, Made, OfSession
    <3>. QED BY <1>4, <1>6, <1>9, <3>1 DEF TermsGo, Only
  <2>3. \A x \in Tabs : doc.tab[x].state = "open" => IsMade(doc.tab[x]) /\ doc'.tab[x].state = "open"
    BY <1>6, <1>9 DEF Sound, Made, OfSession, IsUnmade, Only
  <2>4. \A x \in Sessions : doc.session[x].state = "open" /\ seen["session"][x] = 0 =>
          doc'.session[x].state = "open" /\ <<"session", x>> \notin ToldOfOutcome(r, o)
    BY <1>7, <1>9, <1>10 DEF Told, Only
  <2>5. \A x : /\ <<"tab", x>> \in ToldOfOutcome(r, o) => x = t
               /\ <<"terminal", x>> \in ToldOfOutcome(r, o) => x = m
    BY <1>10
  <2>. QED BY <1>6, <1>7, <1>9, <2>1, <2>2, <2>3, <2>4, <2>5, GoesOn
<1>12. ASSUME NEW x \in Entities, Rev(doc', x) # Rev(doc, x)
       PROVE  x \in o.told \/ (x \in o.compared /\ OneOf(r, x[1]))
  <2>1. x = <<"session", s>> \/ x = <<"tab", t>> \/ x = <<"terminal", m>>
    BY <1>6, <1>9, <1>12, ChangedIsIn
  <2>. QED BY <1>5, <1>7, <2>1 DEF OnSession, ReadOnly
<1>13. o.look \in Seq(LookKinds \X Nat) /\ DOMAIN o.look = {}
  BY <1>5
<1>. QED BY <1>1, <1>11, <1>12, <1>13, OutcomeTells

(* A tab with its terminals, and the tab that replaces the last of a session.      *)
IsWithoutTab(d, e, s, t, f) ==
    /\ s \in Sessions /\ f \in Tabs /\ d.tab[f].state = "none"
    /\ \A x \in Sessions \ {s} : e.session[x] = d.session[x]
    /\ e.session[s].state = d.session[s].state
    /\ \A x \in Tabs \ {t, f} : e.tab[x] = d.tab[x]
    /\ e.tab[t].session = s
    /\ e.tab[f] = d.tab[f] \/ (e.tab[f].state = "open" /\ e.tab[f].session = s)
    /\ \A m \in Terms :
         /\ e.terminal[m].tab = d.terminal[m].tab /\ e.terminal[m].session = d.terminal[m].session
         /\ ~IsTermOf(d, m, t) => e.terminal[m] = d.terminal[m]

LEMMA RefilledRows ==
  ASSUME NEW d \in Documents, NEW s \in Sessions, NEW f \in Tabs,
         NEW e, e = d \/ e = Refilled(d, s, f)
  PROVE  /\ e \in Documents /\ e.session = d.session /\ e.terminal = d.terminal
         /\ \A x \in Tabs \ {f} : e.tab[x] = d.tab[x]
         /\ e.tab[f] = d.tab[f] \/ (e.tab[f].state = "open" /\ e.tab[f].session = s)
<1>1. CASE e = d
  BY <1>1
<1>2. CASE e = Refilled(d, s, f)
  <2>. DEFINE T == [d.tab EXCEPT ![f] = NewTab(s, 0)]
  <2>1. Rows(e, d.session, T, d.terminal)
    BY <1>2 DEF Rows, Documents, Refilled
  <2>2. /\ T \in [Tabs -> TabRecords] /\ T[f] = NewTab(s, 0)
        /\ \A x \in Tabs \ {f} : T[x] = d.tab[x]
    BY Typed, NewTabRow, Numbers
  <2>. HIDE DEF T
  <2>3. e \in Documents /\ e.session = d.session /\ e.tab = T /\ e.terminal = d.terminal
    BY <2>1, <2>2, Typed, RowsOf
  <2>4. NewTab(s, 0).state = "open" /\ NewTab(s, 0).session = s
    BY NewTabRow, Numbers
  <2>. QED BY <2>2, <2>3, <2>4
<1>. QED BY <1>1, <1>2

LEMMA RepointedRows ==
  ASSUME NEW d \in Documents, NEW s \in Sessions, NEW t, NEW e, e = d \/ e = Repointed(d, s, t)
  PROVE  /\ e.tab = d.tab /\ e.terminal = d.terminal
         /\ \A x \in Sessions \ {s} : e.session[x] = d.session[x]
         /\ e.session[s].state = d.session[s].state
<1>1. CASE e = d
  BY <1>1
<1>2. CASE e = Repointed(d, s, t)
  <2>. DEFINE row == [Revised(d.session[s]) EXCEPT !.tab = t, !.terminal = d.tab[t].terminal]
  <2>1. e.tab = d.tab /\ e.terminal = d.terminal /\ e.session = [d.session EXCEPT ![s] = row]
    BY <1>2 DEF Documents, Repointed
  <2>2. row.state = d.session[s].state
    <3>1. Revised(d.session[s]) \in SessionRecords /\ Revised(d.session[s]).state = d.session[s].state
      BY Typed, RevisedSession
    <3>2. \A q \in SessionRecords : \A a, b : [q EXCEPT !.tab = a, !.terminal = b].state = q.state
      BY DEF SessionRecords
    <3>. QED BY <3>1, <3>2
  <2>. HIDE DEF row
  <2>. QED BY <2>1, <2>2, Typed
<1>. QED BY <1>1, <1>2

LEMMA WithoutTabRows ==
  ASSUME NEW d, Sound(d), Unused(d.tab) # {}, NEW t \in Tabs, IsMade(d.tab[t]),
         NEW s, d.tab[t].session = s, NEW f, f = Fresh(d, "tab"), NEW e, e = WithoutTab(d, t)
  PROVE  IsWithoutTab(d, e, s, t, f)
<1>1. d \in Documents
  BY DEF Sound
<1>2. s \in Sessions
  BY DEF Sound, Made, OfSession, IsUnmade, IsMade
<1>3. f \in Tabs /\ d.tab[f].state = "none" /\ f # t
  BY <1>1, FreshTab DEF IsMade
<1>4. PICK closed : closed = Closing(d, t)
  OBVIOUS
<1>5. PICK filled : filled = IF OpenTabs(closed, s) # {} THEN closed ELSE Refilled(closed, s, f)
  OBVIOUS
<1>6. PICK next : next = Foremost(filled, "tab", OpenTabs(filled, s))
  OBVIOUS
<1>7. e = IF d.session[s].tab # t THEN filled ELSE Repointed(filled, s, next)
  <2>. DEFINE s0 == d.tab[t].session
              f0 == Fresh(d, "tab")
              closed0 == Closing(d, t)
              filled0 == IF OpenTabs(closed0, s0) # {} THEN closed0 ELSE Refilled(closed0, s0, f0)
              next0 == Foremost(filled0, "tab", OpenTabs(filled0, s0))
  <2>1. e = IF d.session[s0].tab # t THEN filled0 ELSE Repointed(filled0, s0, next0)
    BY DEF WithoutTab, Closing, Refilled, Repointed
  <2>2. s0 = s /\ f0 = f /\ closed0 = closed
    BY <1>4
  <2>. HIDE DEF s0, f0, closed0
  <2>3. filled0 = filled
    BY <1>5, <2>2
  <2>. HIDE DEF filled0
  <2>4. next0 = next
    BY <1>6, <2>2, <2>3
  <2>. HIDE DEF next0
  <2>. QED BY <2>1, <2>2, <2>3, <2>4
<1>8. /\ closed \in Documents /\ closed.session = d.session
      /\ \A x \in Tabs \ {t} : closed.tab[x] = d.tab[x]
      /\ closed.tab[t] = IF d.tab[t].state = "open" THEN Archived(d.tab[t]) ELSE d.tab[t]
      /\ \A m \in Terms : closed.terminal[m] =
              IF IsTermOf(d, m, t) THEN Archived(d.terminal[m]) ELSE d.terminal[m]
  BY <1>1, <1>4, ClosingRows
<1>9. /\ filled \in Documents /\ filled.session = closed.session /\ filled.terminal = closed.terminal
      /\ \A x \in Tabs \ {f} : filled.tab[x] = closed.tab[x]
      /\ filled.tab[f] = closed.tab[f] \/ (filled.tab[f].state = "open" /\ filled.tab[f].session = s)
  <2>1. filled = closed \/ filled = Refilled(closed, s, f)
    BY <1>5
  <2>. QED BY <1>2, <1>3, <1>8, <2>1, RefilledRows
<1>10. /\ e.tab = filled.tab /\ e.terminal = filled.terminal
       /\ \A x \in Sessions \ {s} : e.session[x] = filled.session[x]
       /\ e.session[s].state = filled.session[s].state
  <2>1. e = filled \/ e = Repointed(filled, s, next)
    BY <1>7
  <2>. QED BY <1>2, <1>9, <2>1, RepointedRows
<1>11. closed.tab[t].session = s
  BY <1>1, <1>8, Typed, ArchivedTabRow
<1>12. ASSUME NEW m \in Terms
       PROVE  closed.terminal[m].tab = d.terminal[m].tab /\ closed.terminal[m].session = d.terminal[m].session
  <2>1. \A q \in TermRecords : Archived(q).session = q.session /\ Archived(q).tab = q.tab
    BY DEF TermRecords, Archived, Revised
  <2>2. d.terminal[m] \in TermRecords
    BY <1>1, Typed
  <2>. QED BY <1>8, <2>1, <2>2
<1>. QED BY <1>2, <1>3, <1>8, <1>9, <1>10, <1>11, <1>12 DEF IsWithoutTab

LEMMA ArchiveTabTells ==
  ASSUME ToldInv, NEW c \in Clients, Change(c), NEW r, r = request[c], r.op = "archiveTab"
  PROVE  ToldInv'
<1>1. PICK o : o = Outcome(r)
  OBVIOUS
<1>2. PICK t : t = r.on
  OBVIOUS
<1>3. PICK s : doc.tab[t].session = s
  OBVIOUS
<1>4. PICK f : f = Fresh(doc, "tab")
  OBVIOUS
<1>5. /\ o.doc = WithoutTab(doc, t) /\ o.look = <<>> /\ o.compared = {}
      /\ o.told = All("terminal", OpenTerms(doc, t))
                    \cup All("tab", Open(o.doc, "tab") \ Open(doc, "tab"))
                    \cup {<<"tab", t>>, <<"session", s>>}
  BY <1>1, <1>2, <1>3 DEF Outcome, ArchiveTab, Done
<1>6. /\ Sound(doc) /\ SeenBefore /\ doc' = o.doc /\ Sound(doc') /\ Follows(doc, doc')
      /\ Unused(doc.tab) # {} /\ t \in Tabs /\ IsMade(doc.tab[t]) /\ Told(seen, s)
      /\ doc \in Documents /\ doc' \in Documents
  BY <1>1, <1>2, <1>3, ChangeIs DEF Sound, Fits, AskFits
<1>7. IsWithoutTab(doc, doc', s, t, f)
  <2>1. doc' = WithoutTab(doc, t)
    BY <1>5, <1>6
  <2>2. PICK e : e = WithoutTab(doc, t)
    OBVIOUS
  <2>3. IsWithoutTab(doc, e, s, t, f)
    BY <1>3, <1>4, <1>6, <2>2, WithoutTabRows
  <2>. QED BY <2>1, <2>2, <2>3
<1>8. ToldOfOutcome(r, o) = o.told
  BY <1>5 DEF ToldOfOutcome
<1>9. /\ <<"tab", t>> \in o.told /\ <<"session", s>> \in o.told
      /\ \A x : <<"session", x>> \in o.told => x = s
      /\ \A x : <<"tab", x>> \in o.told <=> (x = t \/ (x \in Open(doc', "tab") /\ x \notin Open(doc, "tab")))
      /\ \A x : <<"terminal", x>> \in o.told <=> x \in OpenTerms(doc, t)
  BY <1>5, <1>6 DEF All
<1>10. /\ \A x : x \in OpenTerms(doc, t) <=> IsTermOf(doc, x, t)
       /\ \A x : x \in Open(doc, "tab") <=> (x \in Tabs /\ doc.tab[x].state = "open")
       /\ \A x : x \in Open(doc', "tab") <=> (x \in Tabs /\ doc'.tab[x].state = "open")
  <2>1. DOMAIN doc.tab = Tabs /\ DOMAIN doc'.tab = Tabs
    BY <1>6, Typed
  <2>2. doc["tab"] = doc.tab /\ doc'["tab"] = doc'.tab
    OBVIOUS
  <2>3. \A x : x \in OpenTerms(doc, t) <=> IsTermOf(doc, x, t)
    BY <1>6, Opened
  <2>. QED BY <2>1, <2>2, <2>3 DEF Open
<1>11. Goes(doc, seen, doc', o.told)
  <2>1. TabsStay(doc, doc')
    BY <1>3, <1>7 DEF TabsStay, IsWithoutTab, IsMade
  <2>2. TermsGo(doc, doc')
    <3>1. \A x \in Terms : IsMade(doc.terminal[x]) \/ IsUnmade(doc.terminal[x])
      BY <1>6 DEF Sound, Made, OfSession
    <3>2. \A x \in Terms : IsTermOf(doc, x, t) => IsMade(doc.terminal[x])
      BY <3>1 DEF IsTermOf, IsUnmade
    <3>. QED BY <1>7, <3>1, <3>2 DEF TermsGo, IsWithoutTab
  <2>3. \A x \in Tabs : doc.tab[x].state = "open" =>
          IsMade(doc.tab[x]) /\ (doc'.tab[x].state = "open" \/ <<"tab", x>> \in o.told)
    BY <1>6, <1>7, <1>9 DEF Sound, Made, OfSession, IsUnmade, IsWithoutTab
  <2>4. \A x \in Sessions : doc.session[x].state = "open" /\ seen["session"][x] = 0 =>
          doc'.session[x].state = "open" /\ <<"session", x>> \notin o.told
    BY <1>6, <1>7, <1>9 DEF Told, IsWithoutTab
  <2>5. \A x \in Tabs : <<"tab", x>> \in o.told => Told(seen, doc'.tab[x].session)
    BY <1>6, <1>7, <1>9, <1>10 DEF IsWithoutTab
  <2>6. \A x \in Terms : <<"terminal", x>> \in o.told => Told(seen, doc'.terminal[x].session)
    <3>1. ASSUME NEW x \in Terms, <<"terminal", x>> \in o.told
          PROVE  doc.terminal[x].session = s
      <4>1. IsTermOf(doc, x, t)
        BY <1>9, <1>10, <3>1
      <4>. QED BY <1>3, <1>6, <4>1 DEF Sound, Placed, IsTermOf, IsTabOf
    <3>. QED BY <1>6, <1>7, <3>1 DEF IsWithoutTab
  <2>. QED BY <1>6, <2>1, <2>2, <2>3, <2>4, <2>5, <2>6, GoesOn
<1>12. ASSUME NEW x \in Entities, Rev(doc', x) # Rev(doc, x)
       PROVE  x \in o.told
  <2>. DEFINE M == {m \in Terms : IsTermOf(doc, m, t)}
  <2>1. Only(doc, doc', {s}, {t, f}, M)
    BY <1>7 DEF Only, IsWithoutTab
  <2>2. \A m \in M : <<"terminal", m>> \in o.told
    BY <1>9, <1>10
  <2>. HIDE DEF M
  <2>3. \/ x = <<"session", s>>
        \/ x = <<"tab", t>> \/ x = <<"tab", f>>
        \/ x = <<"terminal", x[2]>> /\ x[2] \in M
    BY <1>6, <1>12, <2>1, ChangedIsIn
  <2>4. CASE x = <<"tab", f>>
    <3>1. f \in Tabs /\ doc.tab[f].state = "none"
      BY <1>7 DEF IsWithoutTab
    <3>2. doc'.tab[f] # doc.tab[f]
      <4>1. Rev(doc', x) = doc'.tab[f].revision /\ Rev(doc, x) = doc.tab[f].revision
        BY <2>4 DEF Rev
      <4>. QED BY <1>12, <4>1
    <3>3. doc'.tab[f].state = "open"
      BY <1>7, <3>2 DEF IsWithoutTab
    <3>. QED BY <1>9, <1>10, <2>4, <3>1, <3>3
  <2>. QED BY <1>9, <2>2, <2>3, <2>4
<1>13. /\ o.look \in Seq(LookKinds \X Nat)
       /\ \A i \in DOMAIN o.look : LookFits(doc', seen', r, o.look[i])
       /\ \A x \in Entities : Rev(doc', x) # Rev(doc, x) => x \in o.told
  <2>1. o.look \in Seq(LookKinds \X Nat) /\ DOMAIN o.look = {}
    BY <1>5
  <2>. QED BY <1>12, <2>1
<1>14. Goes(doc, seen, doc', ToldOfOutcome(r, o))
  BY <1>8, <1>11
<1>. QED BY <1>1, <1>13, <1>14, OutcomeTells

(* A session, and the one that is made when none is open any more.                *)
IsArchivedSession(d, e, s, n, t) ==
    /\ e.terminal = d.terminal
    /\ \A x \in Sessions \ {s, n} : e.session[x] = d.session[x]
    /\ \A x \in Tabs \ {t} : e.tab[x] = d.tab[x]
    /\ n \in Sessions /\ t \in Tabs /\ d.session[n].state = "none" /\ d.tab[t].state = "none"
    /\ \/ e.session[n] = d.session[n] /\ e.tab[t] = d.tab[t]
       \/ e.session[n].state = "open" /\ e.tab[t] = NewTab(n, 0)

LEMMA ArchivedSessionRows ==
  ASSUME NEW d, Sound(d), Unused(d.session) # {}, Unused(d.tab) # {}, NEW s \in Sessions,
         IsMade(d.session[s]), NEW n, n = Fresh(d, "session"), NEW t, t = Fresh(d, "tab"),
         NEW e, e = ArchivedSession(d, s)
  PROVE  IsArchivedSession(d, e, s, n, t)
<1>1. d \in Documents
  BY DEF Sound
<1>2. /\ n \in Sessions /\ d.session[n].state = "none"
      /\ t \in Tabs /\ d.tab[t].state = "none"
  BY <1>1, FreshSession, FreshTab
<1>. DEFINE mid0 == IF d.session[s].state = "open" THEN [d EXCEPT !.session[s] = Archived(@)] ELSE d
<1>3. e = EnsureVisible(mid0)
  BY DEF ArchivedSession
<1>4. PICK mid : mid = mid0
  OBVIOUS
<1>5. /\ mid \in Documents /\ mid.tab = d.tab /\ mid.terminal = d.terminal
      /\ \A x \in Sessions \ {s} : mid.session[x] = d.session[x]
      /\ mid.session[s].state = "none" => d.session[s].state = "none"
  <2>1. CASE d.session[s].state = "open"
    <3>. DEFINE S == [d.session EXCEPT ![s] = Archived(d.session[s])]
    <3>1. Rows(mid, S, d.tab, d.terminal)
      BY <1>1, <1>4, <2>1 DEF Rows, Documents
    <3>2. Archived(d.session[s]) \in SessionRecords /\ Archived(d.session[s]).state = "archived"
      BY <1>1, Typed, ArchivedSessionRow
    <3>3. /\ S \in [Sessions -> SessionRecords] /\ S[s] = Archived(d.session[s])
          /\ \A x \in Sessions \ {s} : S[x] = d.session[x]
      BY <1>1, <3>2, Typed
    <3>. HIDE DEF S
    <3>4. mid \in Documents /\ mid.session = S /\ mid.tab = d.tab /\ mid.terminal = d.terminal
      BY <1>1, <3>1, <3>3, Typed, RowsOf
    <3>. QED BY <3>2, <3>3, <3>4
  <2>2. CASE d.session[s].state # "open"
    BY <1>1, <1>4, <2>2
  <2>. QED BY <2>1, <2>2
<1>. HIDE DEF mid0
<1>6. Fresh(mid, "session") = n /\ Fresh(mid, "tab") = t
  <2>1. /\ DOMAIN mid.session = Sessions /\ DOMAIN d.session = Sessions
        /\ DOMAIN mid.tab = Tabs /\ DOMAIN d.tab = Tabs
    BY <1>1, <1>5, Typed
  <2>2. \A x \in Sessions : mid.session[x].state = "none" <=> d.session[x].state = "none"
    BY <1>5 DEF IsMade
  <2>3. {x \in Sessions : mid.session[x].state = "none"} = {x \in Sessions : d.session[x].state = "none"}
    BY <2>2
  <2>4. \A q : q["session"] = q.session /\ q["tab"] = q.tab
    OBVIOUS
  <2>. QED BY <1>5, <2>1, <2>3, <2>4 DEF Fresh
<1>7. CASE Open(mid, "session") = {}
  <2>1. e = WithSession(mid)
    BY <1>3, <1>4, <1>7 DEF EnsureVisible
  <2>2. /\ e.terminal = mid.terminal
        /\ \A x \in Sessions \ {n} : e.session[x] = mid.session[x]
        /\ \A x \in Tabs \ {t} : e.tab[x] = mid.tab[x]
        /\ e.session[n].state = "open" /\ e.tab[t] = NewTab(n, 0)
    BY <1>2, <1>5, <1>6, <2>1, WithSessionRows
  <2>. QED BY <1>2, <1>5, <2>2 DEF IsArchivedSession
<1>8. CASE Open(mid, "session") # {}
  <2>1. e = mid
    BY <1>3, <1>4, <1>8 DEF EnsureVisible
  <2>. QED BY <1>2, <1>5, <2>1 DEF IsArchivedSession, IsMade
<1>. QED BY <1>7, <1>8

LEMMA ArchiveSessionTells ==
  ASSUME ToldInv, NEW c \in Clients, Change(c), NEW r, r = request[c], r.op = "archiveSession"
  PROVE  ToldInv'
<1>1. PICK o : o = Outcome(r)
  OBVIOUS
<1>2. PICK s : s = r.on
  OBVIOUS
<1>3. PICK n : n = Fresh(doc, "session")
  OBVIOUS
<1>4. PICK t : t = Fresh(doc, "tab")
  OBVIOUS
<1>5. /\ o.doc = ArchivedSession(doc, s) /\ o.told = {<<"session", s>>} /\ o.compared = {}
      /\ o.look = <<<<"others", 0>>>>
  BY <1>1, <1>2 DEF Outcome, ArchiveSession, Done
<1>6. /\ Sound(doc) /\ SeenBefore /\ doc' = o.doc /\ Sound(doc') /\ Follows(doc, doc')
      /\ Unused(doc.session) # {} /\ Unused(doc.tab) # {} /\ Told(seen, s)
      /\ s \in Sessions /\ IsMade(doc.session[s])
      /\ RequestTells(doc, seen, r) /\ HeardNext(ToldOfOutcome(r, o))
      /\ doc \in Documents /\ doc' \in Documents
  BY <1>1, <1>2, ChangeIs DEF Sound, Fits, AskFits
<1>7. IsArchivedSession(doc, doc', s, n, t)
  <2>1. doc' = ArchivedSession(doc, s)
    BY <1>5, <1>6
  <2>2. PICK e : e = ArchivedSession(doc, s)
    OBVIOUS
  <2>3. IsArchivedSession(doc, e, s, n, t)
    BY <1>3, <1>4, <1>6, <2>2, ArchivedSessionRows
  <2>. QED BY <2>1, <2>2, <2>3
<1>8. ToldOfOutcome(r, o) = {<<"session", s>>}
  BY <1>5 DEF ToldOfOutcome
<1>9. Goes(doc, seen, doc', {<<"session", s>>})
  <2>1. TabsStay(doc, doc')
    BY <1>7 DEF TabsStay, IsMade, IsArchivedSession
  <2>2. TermsGo(doc, doc')
    BY <1>6, <1>7 DEF TermsGo, Sound, Made, OfSession, IsArchivedSession
  <2>3. \A x \in Tabs : doc.tab[x].state = "open" => IsMade(doc.tab[x]) /\ doc'.tab[x].state = "open"
    BY <1>6, <1>7 DEF Sound, Made, OfSession, IsUnmade, IsArchivedSession
  <2>4. \A x \in Sessions : doc.session[x].state = "open" /\ seen["session"][x] = 0 =>
          doc'.session[x].state = "open" /\ <<"session", x>> \notin {<<"session", s>>}
    BY <1>6, <1>7 DEF Told, IsArchivedSession
  <2>5. \A x : <<"tab", x>> \notin {<<"session", s>>} /\ <<"terminal", x>> \notin {<<"session", s>>}
    OBVIOUS
  <2>. QED BY <1>6, <2>1, <2>2, <2>3, <2>4, <2>5, GoesOn
<1>10. s # n /\ n \in Sessions /\ t \in Tabs
  BY <1>6, <1>7 DEF IsArchivedSession, IsMade
<1>11. Rev(doc, <<"session", n>>) = 0
  <2>1. IsUnmade(doc.session[n])
    BY <1>6, <1>7 DEF Sound, Made, IsMade, IsArchivedSession
  <2>. QED BY <2>1 DEF IsUnmade, Rev
<1>12. doc'.session[n].state = "open" => Others(doc', seen', r, n)
  <2>1. <<"session", n>> \notin DOMAIN r.before
    BY <1>6, <1>11 DEF RequestTells
  <2>2. seen'["session"][n] = seen["session"][n]
    <3>1. <<"session", n>> \notin ToldOfOutcome(r, o)
      BY <1>8, <1>10
    <3>2. PICK es : es = ToldOfOutcome(r, o)
      OBVIOUS
    <3>3. HeardNext(es) /\ <<"session", n>> \notin es
      BY <1>6, <3>1, <3>2
    <3>. QED BY <1>6, <1>10, <3>3, ToldNext
  <2>3. seen["session"][n] = 0
    <3>1. <<"session", n>> \in Entities
      BY <1>10, EntitiesAre
    <3>2. Heard(seen, <<"session", n>>) = seen["session"][n]
      BY DEF Heard
    <3>3. Heard(seen, <<"session", n>>) \in Nat /\ Heard(seen, <<"session", n>>) <= Rev(doc, <<"session", n>>)
      BY <1>6, <3>1, HeardOf
    <3>4. PICK h : h = seen["session"][n]
      OBVIOUS
    <3>5. h \in Nat /\ h <= 0
      BY <1>11, <3>2, <3>3, <3>4
    <3>. QED BY <3>4, <3>5
  <2>. QED BY <1>10, <2>1, <2>2, <2>3 DEF Others
<1>13. /\ o.look \in Seq(LookKinds \X Nat) /\ DOMAIN o.look = {1} /\ o.look[1] = <<"others", 0>>
  <2>1. "others" \in LookKinds
    BY DEF LookKinds
  <2>. QED BY <1>5, <2>1, OneLook
<1>14. \A i \in DOMAIN o.look : LookFits(doc', seen', r, o.look[i])
  <2>1. LookFits(doc', seen', r, <<"others", 0>>)
    BY DEF LookFits, LookKinds
  <2>. QED BY <1>13, <2>1
<1>15. ASSUME NEW x \in Entities, Rev(doc', x) # Rev(doc, x)
       PROVE  x \in o.told \/ \E i \in DOMAIN o.look : Finds(doc', seen', r, o.look[i], x)
  <2>1. Only(doc, doc', {s, n}, {t}, {})
    BY <1>7 DEF Only, IsArchivedSession
  <2>2. x = <<"session", s>> \/ x = <<"session", n>> \/ x = <<"tab", t>>
    BY <1>6, <1>15, <2>1, ChangedIsIn
  <2>3. x # <<"session", s>> => doc'.session[n].state = "open" /\ doc'.tab[t] = NewTab(n, 0)
    <3>1. ASSUME x # <<"session", s>>, doc'.session[n] = doc.session[n], doc'.tab[t] = doc.tab[t]
          PROVE FALSE
      <4>1. CASE x = <<"session", n>>
        BY <1>15, <3>1, <4>1 DEF Rev
      <4>2. CASE x = <<"tab", t>>
        BY <1>15, <3>1, <4>2 DEF Rev
      <4>. QED BY <2>2, <3>1, <4>1, <4>2
    <3>. QED BY <1>7, <3>1 DEF IsArchivedSession
  <2>4. ASSUME x # <<"session", s>>
        PROVE  Finds(doc', seen', r, <<"others", 0>>, x)
    <3>1. Others(doc', seen', r, n)
      BY <1>12, <2>3, <2>4
    <3>2. doc'.tab[t].state = "open" /\ doc'.tab[t].session = n
      BY <2>3, <2>4 DEF NewTab
    <3>3. x = <<"session", n>> \/ OpenTabOf(doc', n, x)
      BY <1>10, <2>2, <2>4, <3>2 DEF OpenTabOf, IsTabOf
    <3>. QED BY <3>1, <3>3 DEF Finds
  <2>. QED BY <1>5, <1>13, <2>4
<1>16. Goes(doc, seen, doc', ToldOfOutcome(r, o))
  BY <1>8, <1>9
<1>. QED BY <1>1, <1>13, <1>14, <1>15, <1>16, OutcomeTells

LEMMA ChangeTells ==
  ASSUME ToldInv, NEW c \in Clients, Change(c)
  PROVE  ToldInv'
<1>1. PICK r : r = request[c]
  OBVIOUS
<1>2. PICK o : o = Outcome(r)
  OBVIOUS
<1>3. r.op \in Operations
  BY <1>1, <1>2, ChangeIs
<1>4. CASE Outcome(r) = Error
  BY <1>1, <1>4, ErrorTells
<1>5. CASE Outcome(r) # Error
  <2>1. r.op \in {"createSession", "createTab", "createTerminal", "moveTerminal"} => ToldInv'
    BY <1>1, <1>5, CreateSessionTells, CreateTabTells, CreateTerminalTells, MoveTerminalTells
  <2>2. r.op \in {"selectTerminal", "closeTerminal", "archiveTab", "archiveSession"} => ToldInv'
    BY <1>1, <1>5, SelectTerminalTells, CloseTerminalTells, ArchiveTabTells, ArchiveSessionTells
  <2>. QED BY <1>3, <2>1, <2>2 DEF Operations
<1>. QED BY <1>4, <1>5

LEMMA ToldStep ==
  ASSUME ToldInv, CatalogueNext
  PROVE  ToldInv'
<1>. PICK c \in Clients :
        \/ RenameSession(c) \/ RestoreSession(c) \/ RenameTab(c) \/ SaveTabLayout(c)
        \/ RenameTerminal(c) \/ ReorderSessions(c) \/ ReorderTabs(c) \/ ReorderTerminals(c)
        \/ SelectTab(c)
        \/ AskCreateSession(c) \/ AskCreateTab(c) \/ AskCreateTerminal(c) \/ AskMoveTerminal(c)
        \/ AskSelectTerminal(c) \/ AskCloseTerminal(c) \/ AskArchiveTab(c) \/ AskArchiveSession(c)
        \/ Change(c) \/ Fail(c) \/ Look(c)
  BY DEF CatalogueNext
<1>1. CASE RenameSession(c) \/ RenameTab(c) \/ SaveTabLayout(c) \/ RenameTerminal(c)
  BY <1>1, RenamesTell
<1>2. CASE ReorderSessions(c) \/ ReorderTabs(c) \/ ReorderTerminals(c)
  BY <1>2, ReordersTell
<1>3. CASE RestoreSession(c)
  BY <1>3, RestoreTells
<1>4. CASE SelectTab(c)
  BY <1>4, SelectTabTells
<1>5. CASE \/ AskCreateSession(c) \/ AskCreateTab(c) \/ AskCreateTerminal(c) \/ AskMoveTerminal(c)
           \/ AskSelectTerminal(c) \/ AskCloseTerminal(c) \/ AskArchiveTab(c) \/ AskArchiveSession(c)
  BY <1>5, AsksTell
<1>6. CASE Change(c)
  BY <1>6, ChangeTells
<1>7. CASE Fail(c)
  BY <1>7, FailTells
<1>8. CASE Look(c)
  BY <1>8, LookTells
<1>. QED BY <1>1, <1>2, <1>3, <1>4, <1>5, <1>6, <1>7, <1>8

LEMMA ToldStill ==
  ASSUME ToldInv, UNCHANGED catalogueVars
  PROVE  ToldInv'
<1>1. doc' = doc /\ seen' = seen /\ request' = request /\ untold' = untold
  BY DEF catalogueVars
<1>2. CatalogueInv'
  BY StillKeeps DEF ToldInv
<1>3. RequestsTell' /\ SessionsTold' /\ AllOwed' /\ Homes(doc')
  BY <1>1 DEF ToldInv, RequestsTell, SessionsTold, AllOwed
<1>. QED BY <1>2, <1>3 DEF ToldInv

LEMMA ToldStart ==
  ASSUME CatalogueInit
  PROVE  ToldInv
<1>1. CatalogueInv /\ doc \in Documents
  BY StartKeeps DEF CatalogueInv, Sound
<1>2. /\ DOMAIN doc.session = Sessions /\ DOMAIN doc.tab = Tabs /\ DOMAIN doc.terminal = Terms
      /\ DOMAIN doc = Kinds
      /\ doc["session"] = doc.session /\ doc["tab"] = doc.tab /\ doc["terminal"] = doc.terminal
  BY <1>1, Typed DEF CatalogueInit, Kinds
<1>3. \A k \in Kinds : \A i \in DOMAIN doc[k] : seen[k][i] = doc[k][i].revision
  BY <1>2 DEF CatalogueInit, Revisions
<1>4. /\ 1 \in Sessions /\ {1, 2} \subseteq Tabs
      /\ \A t \in Tabs : t <= 2 <=> t \in {1, 2}
      /\ \A m \in Terms : m <= 2 <=> m \in {1, 2}
  BY Numbers DEF Sessions, Tabs, Terms
<1>5. doc.session[1].revision = 4
  BY <1>4 DEF CatalogueInit
<1>6. ASSUME NEW t \in Tabs
      PROVE  /\ t \in {1, 2} => /\ doc.tab[t].session = 1 /\ IsMade(doc.tab[t])
             /\ t \notin {1, 2} => doc.tab[t].revision = 0
  <2>1. CASE t \in {1, 2}
    <3>1. doc.tab[t] = [NewTab(1, t - 1) EXCEPT !.terminal = t, !.revision = 2]
      BY <1>4, <2>1 DEF CatalogueInit
    <3>. QED BY <2>1, <3>1 DEF NewTab, IsMade
  <2>2. CASE t \notin {1, 2}
    BY <1>4, <2>2 DEF CatalogueInit
  <2>. QED BY <2>1, <2>2
<1>7. ASSUME NEW m \in Terms
      PROVE  /\ m \in {1, 2} => doc.terminal[m].session = 1 /\ doc.terminal[m].tab = m
             /\ m \notin {1, 2} => doc.terminal[m].revision = 0
  BY <1>4 DEF CatalogueInit
<1>8. RequestsTell
  <2>1. ASSUME NEW c \in Clients PROVE RequestTells(doc, seen, request[c])
    <3>1. request[c] = Idle
      BY DEF CatalogueInit
    <3>2. request[c].at = "idle" /\ DOMAIN request[c].before = {}
      BY <3>1 DEF Idle
    <3>. QED BY <3>2 DEF RequestTells
  <2>. QED BY <2>1 DEF RequestsTell
<1>9. SessionsTold
  <2>1. Told(seen, 1)
    <3>1. seen["session"][1] = 4
      BY <1>2, <1>3, <1>4, <1>5 DEF Kinds
    <3>. QED BY <1>4, <3>1 DEF Told
  <2>2. ASSUME NEW t \in Tabs, seen["tab"][t] > 0 PROVE Told(seen, doc.tab[t].session)
    <3>1. seen["tab"][t] = doc.tab[t].revision
      BY <1>2, <1>3 DEF Kinds
    <3>2. t \in {1, 2}
      BY <1>6, <2>2, <3>1
    <3>. QED BY <1>6, <2>1, <3>2
  <2>3. ASSUME NEW m \in Terms, seen["terminal"][m] > 0 PROVE Told(seen, doc.terminal[m].session)
    <3>1. seen["terminal"][m] = doc.terminal[m].revision
      BY <1>2, <1>3 DEF Kinds
    <3>2. m \in {1, 2}
      BY <1>7, <2>3, <3>1
    <3>. QED BY <1>7, <2>1, <3>2
  <2>. QED BY <2>2, <2>3 DEF SessionsTold
<1>10. AllOwed
  <2>1. ASSUME NEW x \in Entities PROVE Heard(seen, x) = Rev(doc, x)
    <3>1. x[1] \in Kinds /\ x[2] \in DOMAIN doc[x[1]]
      BY <1>2, EntityKinds DEF Kinds
    <3>. QED BY <1>3, <3>1 DEF Heard, Rev
  <2>. QED BY <2>1 DEF AllOwed
<1>11. Homes(doc)
  <2>1. ASSUME NEW m \in Terms, IsMade(doc.terminal[m])
        PROVE  LET t == doc.terminal[m].tab IN
               t \in Tabs /\ IsMade(doc.tab[t]) /\ doc.tab[t].session = doc.terminal[m].session
    <3>1. m \in {1, 2}
      BY <1>7, <2>1 DEF IsMade
    <3>. QED BY <1>4, <1>6, <1>7, <3>1
  <2>. QED BY <2>1 DEF Homes
<1>. QED BY <1>1, <1>8, <1>9, <1>10, <1>11 DEF ToldInv

(* Who is idle looks at nothing.                                                 *)
LEMMA ToldImplies ==
  ASSUME ToldInv
  PROVE  ClientsToldAll
<1>1. ASSUME \A c \in Clients : request[c] = Idle, NEW x \in Entities \ untold
      PROVE  seen[x[1]][x[2]] = Rev(doc, x)
  <2>1. \A c \in Clients : ~Owed(doc, seen, request[c], x)
    BY <1>1 DEF Owed, Idle
  <2>2. Heard(seen, x) = Rev(doc, x)
    BY <2>1 DEF ToldInv, AllOwed
  <2>. QED BY <2>2 DEF Heard
<1>. QED BY <1>1 DEF ClientsToldAll

(* For any clients and any number of commands, with no command under way clients *)
(* were told the newest revision of everything, although the commands of         *)
(* runtime.rs read, change the document and tell of it in critical sections of   *)
(* their own: except of what "untold" collects, a tab whose revision equalled    *)
(* that of another tab it was compared with, or one made after a move had read   *)
(* the tabs it compares with.                                                    *)
THEOREM EveryoneIsTold == CatalogueSpec => []ClientsToldAll
<1>1. CatalogueInit => ToldInv
  BY ToldStart
<1>2. ToldInv /\ [CatalogueNext]_catalogueVars => ToldInv'
  BY ToldStep, ToldStill
<1>3. ToldInv => ClientsToldAll
  BY ToldImplies
<1>. QED BY <1>1, <1>2, <1>3, PTL DEF CatalogueSpec
=============================================================================
