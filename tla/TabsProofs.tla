----------------------------- MODULE TabsProofs -----------------------------
(***************************************************************************)
(* Proofs about Tabs, for every set of directories, tasks and shells and   *)
(* every bound.  The tabs and what is marked in them do not depend on the  *)
(* shells; the shells depend on the tabs by the `term` of each alone.      *)
(***************************************************************************)
EXTENDS Tabs, TLAPS, SequenceTheorems

(***************************************************************************)
(* Sequences.                                                              *)

LEMMA Replaced ==
    ASSUME NEW S, NEW s \in Seq(S), NEW i \in DOMAIN s, NEW e \in S
    PROVE  /\ [s EXCEPT ![i] = e] \in Seq(S)
           /\ DOMAIN [s EXCEPT ![i] = e] = DOMAIN s
           /\ [s EXCEPT ![i] = e][i] = e
           /\ \A j \in DOMAIN s : j # i => [s EXCEPT ![i] = e][j] = s[j]
  <1>1. DOMAIN s = 1..Len(s) /\ Len(s) \in Nat
    BY LenProperties
  <1>2. [s EXCEPT ![i] = e] \in Seq(S)
    BY <1>1, ExceptSeq
  <1> QED BY <1>1, <1>2

LEMMA Appended ==
    ASSUME NEW S, NEW s \in Seq(S), NEW e \in S
    PROVE  /\ Append(s, e) \in Seq(S) /\ Append(s, e) # <<>>
           /\ DOMAIN Append(s, e) = DOMAIN s \union {Len(s) + 1}
           /\ Len(s) + 1 \notin DOMAIN s
           /\ Append(s, e)[Len(s) + 1] = e
           /\ \A j \in DOMAIN s : Append(s, e)[j] = s[j]
  <1>1. DOMAIN s = 1..Len(s) /\ Len(s) \in Nat
    BY LenProperties
  <1>2. /\ Append(s, e) \in Seq(S) /\ Append(s, e) # <<>>
        /\ Len(Append(s, e)) = Len(s) + 1
        /\ \A j \in 1..Len(s) : Append(s, e)[j] = s[j]
        /\ Append(s, e)[Len(s) + 1] = e
    BY AppendProperties
  <1>3. DOMAIN Append(s, e) = 1..(Len(s) + 1)
    BY <1>2, LenProperties
  <1> QED BY <1>1, <1>2, <1>3

LEMMA Removed ==
    ASSUME NEW S, NEW s \in Seq(S), NEW i \in DOMAIN s
    PROVE  /\ RemoveAt(s, i) \in Seq(S)
           /\ DOMAIN RemoveAt(s, i) = 1..(Len(s) - 1)
           /\ \A j \in 1..(Len(s) - 1) :
                 RemoveAt(s, i)[j] = IF j < i THEN s[j] ELSE s[j + 1]
  <1> DEFINE l == SubSeq(s, 1, i - 1)
             r == SubSeq(s, i + 1, Len(s))
  <1>1. /\ DOMAIN s = 1..Len(s) /\ Len(s) \in Nat /\ i \in 1..Len(s)
        /\ \A j \in 1..Len(s) : s[j] \in S
    BY LenProperties, ElementOfSeq
  <1>2. /\ l \in Seq(S) /\ Len(l) = i - 1
        /\ \A j \in 1..(i - 1) : l[j] = s[j]
    <2>1. 1 \in Int /\ i - 1 \in Int /\ \A j \in 1..(i - 1) : s[j] \in S
      BY <1>1
    <2>2. /\ l \in Seq(S) /\ Len(l) = IF 1 <= i - 1 THEN i - 1 - 1 + 1 ELSE 0
          /\ \A j \in 1..(i - 1 - 1 + 1) : l[j] = s[1 + j - 1]
      BY <2>1, SubSeqProperties
    <2> QED BY <1>1, <2>2
  <1>3. /\ r \in Seq(S) /\ Len(r) = Len(s) - i
        /\ \A j \in 1..(Len(s) - i) : r[j] = s[i + j]
    <2>1. i + 1 \in Int /\ Len(s) \in Int /\ \A j \in (i + 1)..Len(s) : s[j] \in S
      BY <1>1
    <2> HIDE DEF r
    <2>2. /\ r \in Seq(S)
          /\ Len(r) = IF i + 1 <= Len(s) THEN Len(s) - (i + 1) + 1 ELSE 0
          /\ \A j \in 1..(Len(s) - (i + 1) + 1) : r[j] = s[i + 1 + j - 1]
      BY <2>1, SubSeqProperties DEF r
    <2>3. Len(r) = Len(s) - i
      BY <1>1, <2>2
    <2>4. ASSUME NEW j \in 1..(Len(s) - i)
          PROVE  r[j] = s[i + j]
      <3>1. j \in 1..(Len(s) - (i + 1) + 1) /\ i + 1 + j - 1 = i + j
        BY <1>1
      <3> QED BY <2>2, <3>1
    <2> QED BY <2>2, <2>3, <2>4
  <1>4. RemoveAt(s, i) = l \o r
    BY DEF RemoveAt
  <1> HIDE DEF l, r
  <1>5. /\ l \o r \in Seq(S) /\ Len(l \o r) = Len(s) - 1
        /\ \A j \in 1..(Len(s) - 1) :
              (l \o r)[j] = IF j <= i - 1 THEN l[j] ELSE r[j - (i - 1)]
    <2>1. /\ l \o r \in Seq(S) /\ Len(l \o r) = Len(l) + Len(r)
          /\ \A j \in 1..(Len(l) + Len(r)) :
                (l \o r)[j] = IF j <= Len(l) THEN l[j] ELSE r[j - Len(l)]
      BY <1>2, <1>3, ConcatProperties
    <2>2. Len(l) + Len(r) = Len(s) - 1 /\ Len(l) = i - 1
      BY <1>1, <1>2, <1>3
    <2> QED BY <2>1, <2>2
  <1>6. DOMAIN (l \o r) = 1..(Len(s) - 1)
    BY <1>5, LenProperties
  <1>7. ASSUME NEW j \in 1..(Len(s) - 1)
        PROVE  (l \o r)[j] = IF j < i THEN s[j] ELSE s[j + 1]
    <2>1. CASE j < i
      BY <1>1, <1>2, <1>5, <2>1
    <2>2. CASE ~(j < i)
      <3>1. /\ ~(j <= i - 1) /\ j - (i - 1) \in 1..(Len(s) - i)
            /\ i + (j - (i - 1)) = j + 1
        BY <1>1, <2>2
      <3>2. (l \o r)[j] = r[j - (i - 1)]
        BY <1>5, <3>1
      <3>3. r[j - (i - 1)] = s[j + 1]
        BY <1>3, <3>1
      <3> QED BY <2>2, <3>2, <3>3
    <2> QED BY <2>1, <2>2
  <1> QED BY <1>4, <1>5, <1>6, <1>7

\* What is left of a sequence of sequences that are not empty.
LEMMA Unstacked ==
    ASSUME NEW S, NEW s \in Seq(S), s # <<>>
    PROVE  /\ Last(s) \in S /\ Last(s) = s[Len(s)] /\ Len(s) \in DOMAIN s
           /\ Head(s) \in S /\ Head(s) = s[1] /\ 1 \in DOMAIN s
           /\ Front(s) \in Seq(S) /\ Tail(s) \in Seq(S)
           /\ \A n \in DOMAIN Front(s) : n \in DOMAIN s /\ Front(s)[n] = s[n]
           /\ \A n \in DOMAIN Tail(s) : n + 1 \in DOMAIN s /\ Tail(s)[n] = s[n + 1]
           /\ Len(s) > 1 => Front(s) # <<>>
  <1>1. /\ DOMAIN s = 1..Len(s) /\ Len(s) \in Nat \ {0}
        /\ \A j \in 1..Len(s) : s[j] \in S
    BY LenProperties, ElementOfSeq, EmptySeq
  <1>2. Last(s) \in S /\ Last(s) = s[Len(s)]
    BY <1>1 DEF Last
  <1>3. /\ Tail(s) \in Seq(S) /\ Len(Tail(s)) = Len(s) - 1
        /\ \A n \in 1..(Len(s) - 1) : Tail(s)[n] = s[n + 1]
    BY HeadTailProperties
  <1>4. DOMAIN Tail(s) = 1..(Len(s) - 1)
    BY <1>3, LenProperties
  <1>5. /\ Front(s) \in Seq(S) /\ Len(Front(s)) = Len(s) - 1
        /\ \A n \in 1..(Len(s) - 1) : Front(s)[n] = s[n]
    <2>1. 1 \in Int /\ Len(s) - 1 \in Int /\ \A j \in 1..(Len(s) - 1) : s[j] \in S
      BY <1>1
    <2>2. /\ Front(s) \in Seq(S)
          /\ Len(Front(s)) = IF 1 <= Len(s) - 1 THEN Len(s) - 1 - 1 + 1 ELSE 0
          /\ \A n \in 1..(Len(s) - 1 - 1 + 1) : Front(s)[n] = s[1 + n - 1]
      BY <2>1, SubSeqProperties DEF Front
    <2>3. Len(Front(s)) = Len(s) - 1
      <3> DEFINE m == Len(s)
      <3>1. m \in Nat \ {0} /\ Len(Front(s)) = IF 1 <= m - 1 THEN m - 1 - 1 + 1 ELSE 0
        BY <1>1, <2>2
      <3> HIDE DEF m
      <3>2. Len(Front(s)) = m - 1
        BY <3>1
      <3> QED BY <3>2 DEF m
    <2>4. ASSUME NEW n \in 1..(Len(s) - 1)
          PROVE  Front(s)[n] = s[n]
      <3>1. n \in 1..(Len(s) - 1 - 1 + 1) /\ 1 + n - 1 = n
        BY <1>1
      <3> QED BY <2>2, <3>1
    <2> QED BY <2>2, <2>3, <2>4
  <1>6. DOMAIN Front(s) = 1..(Len(s) - 1)
    BY <1>5, LenProperties
  <1>7. Head(s) = s[1]
    OBVIOUS
  <1>8. Len(s) > 1 => Front(s) # <<>>
    BY <1>5, EmptySeq
  <1> QED BY <1>1, <1>2, <1>3, <1>4, <1>5, <1>6, <1>7, <1>8

LEMMA Stacked ==
    ASSUME NEW S, NEW s \in Seq(S), NEW e \in S
    PROVE  /\ <<e>> \o s \in Seq(S)
           /\ \A n \in DOMAIN (<<e>> \o s) :
                 \/ (<<e>> \o s)[n] = e
                 \/ \E j \in DOMAIN s : (<<e>> \o s)[n] = s[j]
  <1>1. <<e>> \in Seq(S) /\ Len(<<e>>) = 1 /\ <<e>>[1] = e
    OBVIOUS
  <1>2. DOMAIN s = 1..Len(s) /\ Len(s) \in Nat
    BY LenProperties
  <1> DEFINE c == <<e>> \o s
  <1>3. /\ c \in Seq(S) /\ Len(c) = 1 + Len(s)
        /\ \A n \in 1..(1 + Len(s)) : c[n] = IF n <= 1 THEN <<e>>[n] ELSE s[n - 1]
    BY <1>1, ConcatProperties
  <1>4. DOMAIN c = 1..(1 + Len(s))
    BY <1>3, LenProperties
  <1>5. ASSUME NEW n \in 1..(1 + Len(s))
        PROVE  c[n] = e \/ \E j \in DOMAIN s : c[n] = s[j]
    <2>1. CASE n = 1
      BY <1>1, <1>3, <2>1
    <2>2. CASE n # 1
      <3>1. n - 1 \in DOMAIN s /\ ~(n <= 1)
        BY <1>2, <2>2
      <3> QED BY <1>3, <3>1
    <2> QED BY <2>1, <2>2
  <1> QED BY <1>3, <1>4, <1>5

(***************************************************************************)
(* The tabs and what is marked in them.                                    *)

TabTypes ==
    /\ tabs \in Seq(Tab) /\ active \in DOMAIN tabs
    /\ \A i, j \in DOMAIN tabs : tabs[i].id = tabs[j].id => i = j
    /\ closed \in Tab \union {None}
    /\ made \in 1..MaxMade /\ strayed \subseteq 1..MaxMade

\* A tab shows a directory, and so does all it can go back or forward to.
Trails(tab) ==
    /\ tab.trail # <<>>
    /\ \A n \in DOMAIN tab.back : tab.back[n] # <<>>
    /\ \A n \in DOMAIN tab.forward : tab.forward[n] # <<>>

InView(tab) == tab.id \notin strayed => tab.marks \subseteq {Leaf(tab)}

\* An id is given once: the tab that can be restored is not among those there.
TabsKnown ==
    /\ \A i \in DOMAIN tabs : Trails(tabs[i]) /\ tabs[i].id <= made
    /\ closed # None =>
          /\ Trails(closed) /\ InView(closed) /\ closed.id <= made
          /\ \A i \in DOMAIN tabs : tabs[i].id # closed.id

TabInv == TabTypes /\ TabsKnown /\ MarksInView

\* Every tab keeps its shell, and one that is new has none.
TermsKept ==
    /\ DOMAIN tabs \subseteq DOMAIN tabs'
    /\ \A i \in DOMAIN tabs : tabs'[i].term = tabs[i].term
    /\ \A i \in DOMAIN tabs' \ DOMAIN tabs : tabs'[i].term = None

LEMMA Bounds == MaxMade \in Nat \ {0}
  BY TabsAssumption

LEMMA TabFields ==
    ASSUME NEW tab \in Tab
    PROVE  /\ tab.id \in 1..MaxMade /\ tab.id \in Nat
           /\ tab.trail \in Seq(Dirs)
           /\ tab.back \in Seq(Seq(Dirs)) /\ tab.forward \in Seq(Seq(Dirs))
           /\ tab.marks \subseteq Dirs /\ tab.term \in Ptys \union {None}
  <1>1. tab.id \in 1..MaxMade
    BY DEF Tab
  <1>2. tab.id \in Nat
    BY <1>1, Bounds
  <1> QED BY <1>1, <1>2 DEF Tab

LEMMA InitTabs == Init => TabInv
  <1> SUFFICES ASSUME Init PROVE TabInv
    OBVIOUS
  <1>1. PICK kind \in {"newhome", "folder"}, dir \in Dirs :
           tabs = <<makeTab(1, kind, None, dir)>>
    BY DEF Init
  <1> DEFINE tab == makeTab(1, kind, None, dir)
  <1>2. tab \in Tab /\ Trails(tab) /\ tab.id = 1 /\ tab.marks = {}
    BY TabsAssumption DEF makeTab, Tab, Trails
  <1> HIDE DEF tab
  <1>3. tabs \in Seq(Tab) /\ DOMAIN tabs = {1} /\ tabs[1] = tab
    BY <1>1, <1>2 DEF tab
  <1> QED BY <1>2, <1>3, TabsAssumption
          DEF Init, TabInv, TabTypes, TabsKnown, MarksInView

\* A tab is put last, one made anew or the closed one.
LEMMA AddedTab ==
    ASSUME TabInv, NEW tab \in Tab, Trails(tab), made < MaxMade, made' = made + 1,
           tab.id = made', tabs' = Append(tabs, tab), active' = Len(tabs) + 1,
           closed' = closed \/ closed' = None,
           strayed' = strayed \/ strayed' = strayed \union {made'},
           made' \in strayed' \/ tab.marks \subseteq {Leaf(tab)}
    PROVE  TabInv'
  <1> USE DEF TabInv, TabTypes
  <1>1. /\ tabs' \in Seq(Tab) /\ tabs'[Len(tabs) + 1] = tab
        /\ DOMAIN tabs' = DOMAIN tabs \union {Len(tabs) + 1}
        /\ Len(tabs) + 1 \notin DOMAIN tabs
        /\ \A j \in DOMAIN tabs : tabs'[j] = tabs[j]
    BY Appended
  <1>2. made' \in 1..MaxMade /\ strayed' \subseteq 1..MaxMade
    <2>1. made \in 1..MaxMade /\ strayed \subseteq 1..MaxMade
      OBVIOUS
    <2>2. made' \in 1..MaxMade
      BY <2>1, Bounds
    <2> QED BY <2>1, <2>2
  <1>3. \A i \in DOMAIN tabs : tabs[i].id <= made /\ tabs[i].id # made'
    BY DEF TabsKnown
  <1>4. \A i, j \in DOMAIN tabs' : tabs'[i].id = tabs'[j].id => i = j
    BY <1>1, <1>3
  <1>5. ASSUME NEW i \in DOMAIN tabs'
        PROVE  Trails(tabs'[i]) /\ tabs'[i].id <= made'
    <2>1. CASE i \in DOMAIN tabs
      <3>1. tabs[i] \in Tab
        BY <2>1, LenProperties, ElementOfSeq
      <3>2. tabs[i].id \in Nat
        BY <3>1, TabFields
      <3> QED BY <1>1, <1>3, <2>1, <3>2 DEF TabsKnown
    <2> QED BY <1>1, <1>2, <2>1
  <1>6. TabsKnown'
    <2>1. CASE closed' = None
      BY <1>5, <2>1 DEF TabsKnown
    <2>2. CASE closed' # None /\ closed' = closed
      <3>1. closed.id \in Nat /\ closed.id <= made /\ closed.id # made'
        BY <2>2, TabFields, Bounds DEF TabsKnown
      <3>2. Trails(closed) /\ InView(closed)'
        BY <2>2, <3>1 DEF TabsKnown, InView, Leaf
      <3>3. \A i \in DOMAIN tabs' : tabs'[i].id # closed.id
        BY <1>1, <2>2, <3>1 DEF TabsKnown
      <3> QED BY <1>5, <2>2, <3>1, <3>2, <3>3 DEF TabsKnown, Trails
    <2> QED BY <2>1, <2>2
  <1>7. MarksInView'
    BY <1>1, <1>3 DEF MarksInView, Leaf
  <1> QED BY <1>1, <1>2, <1>4, <1>6, <1>7

\* A tab is changed and keeps its id.
LEMMA UpdatedTab ==
    ASSUME TabInv, NEW i \in DOMAIN tabs, NEW tab \in Tab, Trails(tab),
           tab.id = tabs[i].id, Update(i, tab), UNCHANGED <<active, made, closed>>,
           strayed' \subseteq 1..MaxMade, strayed \ {tab.id} \subseteq strayed',
           tab.id \in strayed' \/ tab.marks \subseteq {Leaf(tab)}
    PROVE  TabInv' /\ (tab.term = tabs[i].term => TermsKept)
  <1> USE DEF TabInv, TabTypes
  <1>1. /\ tabs' \in Seq(Tab) /\ DOMAIN tabs' = DOMAIN tabs /\ tabs'[i] = tab
        /\ \A j \in DOMAIN tabs : j # i => tabs'[j] = tabs[j]
    BY Replaced DEF Update
  <1>2. \A j \in DOMAIN tabs : tabs'[j].id = tabs[j].id
    BY <1>1
  <1>3. \A j, k \in DOMAIN tabs' : tabs'[j].id = tabs'[k].id => j = k
    BY <1>1, <1>2
  <1>4. \A j \in DOMAIN tabs' : Trails(tabs'[j]) /\ tabs'[j].id <= made
    BY <1>1, <1>2 DEF TabsKnown
  <1>5. closed # None => Trails(closed) /\ InView(closed)'
    BY DEF TabsKnown, InView, Leaf
  <1>6. TabsKnown'
    BY <1>1, <1>2, <1>4, <1>5 DEF TabsKnown, Trails
  <1>7. MarksInView'
    BY <1>1, <1>2 DEF MarksInView, Leaf
  <1>8. tab.term = tabs[i].term => TermsKept
    BY <1>1 DEF TermsKept
  <1> QED BY <1>1, <1>3, <1>6, <1>7, <1>8

LEMMA ClosedTab ==
    ASSUME TabInv, NEW i \in DOMAIN tabs, Close(i)
    PROVE  TabInv'
  <1> USE DEF TabInv, TabTypes
  <1> DEFINE At(j) == IF j < i THEN j ELSE j + 1
  <1>1. /\ DOMAIN tabs = 1..Len(tabs) /\ Len(tabs) \in Nat
        /\ \A j \in DOMAIN tabs : tabs[j] \in Tab
    BY LenProperties, ElementOfSeq
  <1>2. /\ tabs' \in Seq(Tab) /\ DOMAIN tabs' = 1..(Len(tabs) - 1)
        /\ \A j \in DOMAIN tabs' : tabs'[j] = tabs[At(j)]
    <2>1. tabs' = RemoveAt(tabs, i)
      BY DEF Close
    <2>2. /\ RemoveAt(tabs, i) \in Seq(Tab)
          /\ DOMAIN RemoveAt(tabs, i) = 1..(Len(tabs) - 1)
          /\ \A j \in 1..(Len(tabs) - 1) :
                RemoveAt(tabs, i)[j] = IF j < i THEN tabs[j] ELSE tabs[j + 1]
      BY Removed
    <2> QED BY <2>1, <2>2
  <1>3. \A j \in DOMAIN tabs' : At(j) \in DOMAIN tabs /\ At(j) # i
    BY <1>1, <1>2
  <1>4. \A j, k \in DOMAIN tabs' : At(j) = At(k) => j = k
    BY <1>1, <1>2
  <1> HIDE DEF At
  <1>5. /\ Len(tabs) > 1 /\ active' = FocusAfter(Len(tabs) - 1) /\ closed' = tabs[i]
        /\ UNCHANGED <<made, strayed>>
    BY DEF Close, moveVars
  <1>6. active' \in DOMAIN tabs'
    BY <1>1, <1>2, <1>5 DEF FocusAfter
  <1>7. \A j, k \in DOMAIN tabs' : tabs'[j].id = tabs'[k].id => j = k
    BY <1>2, <1>3, <1>4
  <1>8. TabsKnown'
    <2>1. \A j \in DOMAIN tabs' : Trails(tabs'[j]) /\ tabs'[j].id <= made
      BY <1>2, <1>3 DEF TabsKnown
    <2>2. /\ Trails(tabs[i]) /\ tabs[i].id <= made
          /\ tabs[i].id \notin strayed' => tabs[i].marks \subseteq {Leaf(tabs[i])}
      BY <1>5 DEF TabsKnown, MarksInView
    <2>3. \A j \in DOMAIN tabs' : tabs'[j].id # tabs[i].id
      BY <1>2, <1>3
    <2> QED BY <1>5, <2>1, <2>2, <2>3 DEF TabsKnown, Trails, InView, Leaf
  <1>9. MarksInView'
    BY <1>2, <1>3, <1>5 DEF MarksInView, Leaf
  <1> QED BY <1>1, <1>2, <1>5, <1>6, <1>7, <1>8, <1>9

\* A tab made anew.
LEMMA MadeTab ==
    ASSUME NEW id \in 1..MaxMade, NEW kind \in {"folder", "task", "newhome"},
           NEW task \in Tasks \union {None}, NEW dir \in Dirs,
           NEW tab, tab = makeTab(id, kind, task, dir)
    PROVE  tab \in Tab /\ tab.id = id /\ tab.marks = {} /\ tab.term = None /\ Trails(tab)
  <1>1. <<dir>> \in Seq(Dirs) /\ <<>> \in Seq(Seq(Dirs))
    OBVIOUS
  <1>2. <<dir>> # <<>>
    OBVIOUS
  <1>3. tab \in Tab /\ tab.id = id /\ tab.marks = {} /\ tab.term = None
    BY <1>1 DEF makeTab, Tab
  <1>4. tab.trail = <<dir>> /\ tab.back = <<>> /\ tab.forward = <<>>
    BY DEF makeTab
  <1> QED BY <1>2, <1>3, <1>4 DEF Trails

\* A tab with another shell, or none.
LEMMA WithShell ==
    ASSUME NEW tab \in Tab, NEW p \in Ptys \union {None},
           NEW with, with = [tab EXCEPT !.term = p]
    PROVE  /\ with \in Tab /\ with.id = tab.id /\ with.marks = tab.marks
           /\ with.term = p /\ with.trail = tab.trail /\ with.back = tab.back
           /\ with.forward = tab.forward
           /\ Trails(tab) => Trails(with)
  BY DEF Tab, Trails

LEMMA NewTabs ==
    ASSUME TabInv, NEW kind \in {"folder", "task", "newhome"},
           NEW task \in Tasks \union {None}, NEW dir \in Dirs,
           NewTab(kind, task, dir), UNCHANGED <<closed, strayed>>
    PROVE  TabInv' /\ TermsKept
  <1> DEFINE tab == makeTab(made', kind, task, dir)
  <1>1. made \in 1..MaxMade
    BY DEF TabInv, TabTypes
  <1>2. /\ Len(tabs) < MaxTabs /\ made < MaxMade /\ made' = made + 1
        /\ tabs' = Append(tabs, tab) /\ active' = Len(tabs) + 1
    BY DEF NewTab
  <1>3. made' \in 1..MaxMade
    BY <1>1, <1>2, Bounds
  <1>4. tab \in Tab /\ tab.id = made' /\ tab.marks = {} /\ tab.term = None /\ Trails(tab)
    BY <1>3, MadeTab
  <1> HIDE DEF tab
  <1>5. TabInv'
    BY <1>2, <1>4, AddedTab
  <1>6. TermsKept
    <2>1. tabs \in Seq(Tab)
      BY DEF TabInv, TabTypes
    <2> QED BY <1>2, <1>4, <2>1, Appended DEF TermsKept
  <1> QED BY <1>5, <1>6

LEMMA SameTabs ==
    ASSUME TabInv, UNCHANGED <<tabs, made, closed, strayed>>, active' \in DOMAIN tabs
    PROVE  TabInv' /\ TermsKept
  <1>1. TabInv'
    BY DEF TabInv, TabTypes, TabsKnown, MarksInView, InView, Trails, Leaf
  <1>2. TermsKept
    BY DEF TermsKept
  <1> QED BY <1>1, <1>2

LEMMA FocusedTabs ==
    ASSUME TabInv, NEW kind \in {"folder", "task", "newhome"},
           NEW task \in Tasks \union {None}, NEW dir \in Dirs,
           NEW same \in SUBSET DOMAIN tabs,
           OpenOrFocus(same, kind, task, dir), UNCHANGED <<closed, strayed>>
    PROVE  TabInv' /\ TermsKept
  <1>1. ASSUME NEW i \in same, Focuses(i)
        PROVE  TabInv' /\ TermsKept
    BY <1>1, SameTabs DEF Focuses
  <1>2. CASE NewTab(kind, task, dir)
    BY <1>2, NewTabs
  <1> QED BY <1>1, <1>2 DEF OpenOrFocus

LEMMA TaskTabs ==
    ASSUME TabInv, NEW t \in Tasks, OpenTaskTab(t), UNCHANGED <<closed, strayed>>
    PROVE  TabInv' /\ TermsKept
  <1> DEFINE same == {i \in DOMAIN tabs : tabs[i].kind = "task" /\ tabs[i].task = t}
  <1>1. PICK dir \in Dirs : OpenOrFocus(same, "task", t, dir)
    BY DEF OpenTaskTab
  <1>2. same \in SUBSET DOMAIN tabs
    OBVIOUS
  <1> HIDE DEF same
  <1> QED BY <1>1, <1>2, FocusedTabs

\* What happens to the shell in a tab leaves the rest of it as it is.
LEMMA TermTabs ==
    ASSUME TabInv, NEW i \in DOMAIN tabs, NEW p \in Ptys \union {None},
           Update(i, [tabs[i] EXCEPT !.term = p]),
           UNCHANGED <<active, made, closed, strayed>>
    PROVE  TabInv'
  <1> DEFINE tab == [tabs[i] EXCEPT !.term = p]
  <1>1. tabs[i] \in Tab
    BY LenProperties, ElementOfSeq DEF TabInv, TabTypes
  <1>2. /\ tab \in Tab /\ tab.id = tabs[i].id /\ tab.marks = tabs[i].marks
        /\ tab.trail = tabs[i].trail /\ tab.back = tabs[i].back
        /\ tab.forward = tabs[i].forward
    BY <1>1 DEF Tab
  <1> HIDE DEF tab
  <1>3. Trails(tab)
    BY <1>2 DEF TabInv, TabsKnown, Trails
  <1>4. tab.id \in strayed \/ tab.marks \subseteq {Leaf(tab)}
    BY <1>2 DEF TabInv, MarksInView, Leaf
  <1>5. strayed \subseteq 1..MaxMade
    BY DEF TabInv, TabTypes
  <1>6. Update(i, tab)
    BY DEF tab
  <1> QED BY <1>2, <1>3, <1>4, <1>5, <1>6, UpdatedTab

LEMMA WithoutTermTabs ==
    ASSUME TabInv, NEW i, tabs' = WithoutTerm(tabs, i),
           UNCHANGED <<active, made, closed, strayed>>
    PROVE  TabInv'
  <1>1. CASE i \in DOMAIN tabs
    <2>1. Update(i, [tabs[i] EXCEPT !.term = None])
      BY <1>1 DEF WithoutTerm, Update
    <2> QED BY <1>1, <2>1, TermTabs
  <1>2. CASE i \notin DOMAIN tabs
    BY <1>2, SameTabs DEF WithoutTerm, TabInv, TabTypes
  <1> QED BY <1>1, <1>2

(***************************************************************************)
(* Moving about.                                                           *)

NonEmpty(s) == \A n \in DOMAIN s : s[n] # <<>>

LEMMA HereIsTab ==
    ASSUME TabInv
    PROVE  /\ Here \in Tab /\ Trails(Here) /\ Here.trail \in Seq(Dirs) \ {<<>>}
           /\ Here.back \in Seq(Seq(Dirs)) /\ NonEmpty(Here.back)
           /\ Here.forward \in Seq(Seq(Dirs)) /\ NonEmpty(Here.forward)
           /\ Here.marks \subseteq Dirs /\ Leaf(Here) \in Dirs
  <1>1. Here \in Tab
    BY LenProperties, ElementOfSeq DEF TabInv, TabTypes, Here
  <1>2. Trails(Here)
    BY DEF TabInv, TabTypes, TabsKnown, Here
  <1>3. Here.trail \in Seq(Dirs) \ {<<>>}
    BY <1>1, <1>2, TabFields DEF Trails
  <1>4. Leaf(Here) \in Dirs
    BY <1>3, Unstacked DEF Leaf
  <1> QED BY <1>1, <1>2, <1>3, <1>4, TabFields DEF Trails, NonEmpty

\* Another directory, with the marks wiped.
LEMMA WipedTab ==
    ASSUME TabInv, NEW trail \in Seq(Dirs) \ {<<>>},
           NEW back \in Seq(Seq(Dirs)), NonEmpty(back),
           NEW forward \in Seq(Seq(Dirs)), NonEmpty(forward),
           NEW tab, tab = [Wiped(Here) EXCEPT !.trail = trail, !.back = back,
                                              !.forward = forward],
           Update(active, tab), Settles, UNCHANGED <<active, made, closed>>
    PROVE  TabInv' /\ TermsKept
  <1>1. Here \in Tab
    BY HereIsTab
  <1>2. Wiped(Here) \in Tab
    BY <1>1 DEF Wiped, Tab
  <1>3. /\ tab \in Tab /\ tab.id = Here.id /\ tab.marks = {} /\ tab.term = Here.term
        /\ tab.trail = trail /\ tab.back = back /\ tab.forward = forward
    BY <1>1 DEF Wiped, Tab
  <1>4. Trails(tab)
    BY <1>3 DEF Trails, NonEmpty
  <1>5. active \in DOMAIN tabs /\ strayed \subseteq 1..MaxMade
    BY DEF TabInv, TabTypes
  <1>6. strayed' \subseteq 1..MaxMade /\ strayed \ {tab.id} \subseteq strayed'
    BY <1>3, <1>5 DEF Settles
  <1> QED BY <1>3, <1>4, <1>5, <1>6, UpdatedTab DEF Here

LEMMA GoneTab ==
    ASSUME TabInv, NEW trail \in Seq(Dirs) \ {<<>>}, Update(active, Goes(Here, trail)),
           Settles, UNCHANGED <<active, made, closed>>
    PROVE  TabInv' /\ TermsKept
  <1> DEFINE back == Append(Here.back, Here.trail)
  <1>1. back \in Seq(Seq(Dirs)) /\ NonEmpty(back)
    BY HereIsTab, Appended DEF NonEmpty
  <1>2. <<>> \in Seq(Seq(Dirs)) /\ NonEmpty(<<>>)
    BY DEF NonEmpty
  <1>3. Wiped(Here).back = Here.back
    BY HereIsTab DEF Wiped, Tab
  <1>4. Goes(Here, trail)
           = [Wiped(Here) EXCEPT !.trail = trail, !.back = back, !.forward = <<>>]
    BY <1>3, HereIsTab DEF Goes, Wiped, Tab
  <1> HIDE DEF back
  <1> QED BY <1>1, <1>2, <1>4, WipedTab

LEMMA BackAndForth ==
    ASSUME TabInv, GoBack \/ GoForward
    PROVE  TabInv' /\ TermsKept
  <1>0. /\ Wiped(Here).back = Here.back /\ Wiped(Here).forward = Here.forward
        /\ Here.trail \in Seq(Dirs) /\ Here.trail # <<>>
    BY HereIsTab DEF Wiped, Tab
  <1>1. CASE GoBack
    <2> DEFINE back == Front(Here.back)
               forward == <<Here.trail>> \o Here.forward
               tab == [Wiped(Here) EXCEPT !.trail = Last(Here.back), !.back = back,
                                          !.forward = forward]
    <2>1. Here.back # <<>> /\ Here.back \in Seq(Seq(Dirs)) /\ NonEmpty(Here.back)
      BY <1>1, HereIsTab DEF GoBack
    <2>2. Last(Here.back) \in Seq(Dirs) \ {<<>>}
      BY <2>1, Unstacked DEF NonEmpty
    <2>3. back \in Seq(Seq(Dirs)) /\ NonEmpty(back)
      BY <2>1, Unstacked DEF NonEmpty
    <2>4. forward \in Seq(Seq(Dirs)) /\ NonEmpty(forward)
      BY <1>0, HereIsTab, Stacked DEF NonEmpty
    <2>5. Update(active, tab) /\ Settles /\ UNCHANGED <<active, made, closed>>
      BY <1>0, <1>1 DEF GoBack
    <2> HIDE DEF back, forward
    <2> QED BY <2>2, <2>3, <2>4, <2>5, WipedTab
  <1>2. CASE GoForward
    <2> DEFINE back == Append(Here.back, Here.trail)
               forward == Tail(Here.forward)
               tab == [Wiped(Here) EXCEPT !.trail = Head(Here.forward),
                                          !.forward = forward, !.back = back]
    <2>1. /\ Here.forward # <<>> /\ Here.forward \in Seq(Seq(Dirs))
          /\ NonEmpty(Here.forward)
      BY <1>2, HereIsTab DEF GoForward
    <2>2. Head(Here.forward) \in Seq(Dirs) \ {<<>>}
      BY <2>1, Unstacked DEF NonEmpty
    <2>3. forward \in Seq(Seq(Dirs)) /\ NonEmpty(forward)
      BY <2>1, Unstacked DEF NonEmpty
    <2>4. back \in Seq(Seq(Dirs)) /\ NonEmpty(back)
      BY <1>0, HereIsTab, Appended DEF NonEmpty
    <2>5. Update(active, tab) /\ Settles /\ UNCHANGED <<active, made, closed>>
      BY <1>0, <1>2 DEF GoForward
    <2> HIDE DEF back, forward
    <2>6. tab = [Wiped(Here) EXCEPT !.trail = Head(Here.forward), !.back = back,
                                    !.forward = forward]
      BY HereIsTab DEF Wiped, Tab
    <2> QED BY <2>2, <2>3, <2>4, <2>5, <2>6, WipedTab
  <1> QED BY <1>1, <1>2

LEMMA LeftTab ==
    ASSUME TabInv, GoLeft
    PROVE  TabInv' /\ TermsKept
  <1>1. PICK trail \in Parents : Update(active, Goes(Here, trail))
    BY DEF GoLeft
  <1>2. Settles /\ UNCHANGED <<active, made, closed>>
    BY DEF GoLeft
  <1>3. trail \in Seq(Dirs) \ {<<>>}
    <2>1. CASE Len(Here.trail) > 1
      BY <1>1, <2>1, HereIsTab, Unstacked DEF Parents
    <2>2. CASE ~(Len(Here.trail) > 1)
      <3>1. PICK dir \in Dirs \ {Leaf(Here)} : trail = <<dir>>
        BY <1>1, <2>2 DEF Parents
      <3> QED BY <3>1
    <2> QED BY <2>1, <2>2
  <1> QED BY <1>1, <1>2, <1>3, GoneTab

LEMMA InPlaceTab ==
    ASSUME TabInv, NEW trail \in Seq(Dirs) \ {<<>>}, InPlace(trail)
    PROVE  TabInv' /\ TermsKept
  <1> DEFINE tab == [Here EXCEPT !.trail = trail]
  <1>1. /\ tab \in Tab /\ tab.id = Here.id /\ tab.marks = Here.marks
        /\ tab.term = Here.term /\ tab.trail = trail
        /\ tab.back = Here.back /\ tab.forward = Here.forward
    BY HereIsTab DEF Tab
  <1>2. Update(active, tab) /\ UNCHANGED <<active, made, closed>>
    BY DEF InPlace
  <1> HIDE DEF tab
  <1>3. Trails(tab)
    BY <1>1, HereIsTab DEF Trails
  <1>4. active \in DOMAIN tabs /\ strayed \subseteq 1..MaxMade
    BY DEF TabInv, TabTypes
  <1>5. Here.id \in 1..MaxMade
    BY HereIsTab, TabFields
  <1>6. CASE Here.marks # {}
    <2>1. strayed' = strayed \union {Here.id}
      BY <1>6 DEF InPlace
    <2> QED BY <1>1, <1>2, <1>3, <1>4, <1>5, <2>1, UpdatedTab DEF Here
  <1>7. CASE Here.marks = {}
    <2>1. strayed' = strayed
      BY <1>7 DEF InPlace
    <2> QED BY <1>1, <1>2, <1>3, <1>4, <1>7, <2>1, UpdatedTab DEF Here
  <1> QED BY <1>6, <1>7

LEMMA MarkedTab ==
    ASSUME TabInv, ToggleMark
    PROVE  TabInv' /\ TermsKept
  <1> DEFINE dir == Leaf(Here)
             marks == IF dir \in Here.marks THEN Here.marks \ {dir}
                      ELSE Here.marks \union {dir}
             tab == [Here EXCEPT !.marks = marks]
  <1>1. Update(active, tab) /\ UNCHANGED <<active, made, closed, strayed>>
    BY DEF ToggleMark, moveVars
  <1>2. marks \in SUBSET Dirs
    BY HereIsTab
  <1>3. Here.id \notin strayed => marks \subseteq {dir}
    BY DEF TabInv, TabTypes, MarksInView, Here
  <1> HIDE DEF marks
  <1>4. /\ tab \in Tab /\ tab.id = Here.id /\ tab.marks = marks
        /\ tab.term = Here.term /\ tab.trail = Here.trail
        /\ tab.back = Here.back /\ tab.forward = Here.forward
    BY <1>2, HereIsTab DEF Tab
  <1> HIDE DEF tab
  <1>5. Trails(tab) /\ Leaf(tab) = dir
    BY <1>4, HereIsTab DEF Trails, Leaf
  <1>6. active \in DOMAIN tabs /\ strayed \subseteq 1..MaxMade
    BY DEF TabInv, TabTypes
  <1> QED BY <1>1, <1>3, <1>4, <1>5, <1>6, UpdatedTab DEF Here

LEMMA UnmarkedTab ==
    ASSUME TabInv, ClearMarks
    PROVE  TabInv' /\ TermsKept
  <1> DEFINE tab == Wiped(Here)
  <1>1. Update(active, tab) /\ Settles /\ UNCHANGED <<active, made, closed>>
    BY DEF ClearMarks
  <1>2. /\ tab \in Tab /\ tab.id = Here.id /\ tab.marks = {}
        /\ tab.term = Here.term /\ tab.trail = Here.trail
        /\ tab.back = Here.back /\ tab.forward = Here.forward
    BY HereIsTab DEF Wiped, Tab
  <1> HIDE DEF tab
  <1>3. Trails(tab)
    BY <1>2, HereIsTab DEF Trails
  <1>4. active \in DOMAIN tabs /\ strayed \subseteq 1..MaxMade
    BY DEF TabInv, TabTypes
  <1>5. strayed' \subseteq 1..MaxMade /\ strayed \ {tab.id} \subseteq strayed'
    BY <1>1, <1>2, <1>4 DEF Settles
  <1> QED BY <1>1, <1>2, <1>3, <1>4, <1>5, UpdatedTab DEF Here

MoveTypes == opening \subseteq Dirs /\ moves \in 0..MaxMoves

LEMMA MovingTabs ==
    ASSUME TabInv, MoveTypes, MoveStep
    PROVE  TabInv' /\ TermsKept
  <1>1. ASSUME NEW dir \in Dirs, NavigateTo(dir)
        PROVE  TabInv' /\ TermsKept
    <2>1. CASE Here.kind = "folder"
      <3>1. <<dir>> \in Seq(Dirs) \ {<<>>}
        OBVIOUS
      <3>2. /\ Update(active, Goes(Here, <<dir>>)) /\ Settles
            /\ UNCHANGED <<active, made, closed>>
        BY <1>1, <2>1 DEF NavigateTo
      <3> QED BY <3>1, <3>2, GoneTab
    <2>2. CASE Here.kind # "folder"
      <3> DEFINE same == {i \in DOMAIN tabs : tabs[i].kind = "folder" /\ Leaf(tabs[i]) = dir}
      <3>1. /\ OpenOrFocus(same, "folder", None, dir)
            /\ UNCHANGED <<closed, strayed>>
        BY <1>1, <2>2 DEF NavigateTo
      <3>2. same \in SUBSET DOMAIN tabs
        OBVIOUS
      <3> HIDE DEF same
      <3> QED BY <3>1, <3>2, FocusedTabs
    <2> QED BY <2>1, <2>2
  <1>2. ASSUME NEW dir \in Dirs, OpenPath(dir)
        PROVE  TabInv' /\ TermsKept
    BY <1>2, SameTabs DEF OpenPath, TabInv, TabTypes
  <1>3. ASSUME NEW dir \in Dirs, PathbarGoes(dir)
        PROVE  TabInv' /\ TermsKept
    <2>1. <<dir>> \in Seq(Dirs) \ {<<>>}
      OBVIOUS
    <2> QED BY <1>3, <2>1, InPlaceTab DEF PathbarGoes
  <1>4. ASSUME NEW dir \in Dirs, QuickFindGoes(dir)
        PROVE  TabInv' /\ TermsKept
    <2>1. Append(Here.trail, dir) \in Seq(Dirs) \ {<<>>}
      BY HereIsTab, Appended
    <2> QED BY <1>4, <2>1, InPlaceTab DEF QuickFindGoes
  <1>5. ASSUME NEW dir \in opening, Opened(dir)
        PROVE  TabInv' /\ TermsKept
    <2>1. Append(Here.trail, dir) \in Seq(Dirs) \ {<<>>}
      BY HereIsTab, Appended DEF MoveTypes
    <2>2. /\ Update(active, Goes(Here, Append(Here.trail, dir))) /\ Settles
          /\ UNCHANGED <<active, made, closed>>
      BY <1>5 DEF Opened
    <2> QED BY <2>1, <2>2, GoneTab
  <1>6. ASSUME NEW dir \in opening, OpenFails(dir)
        PROVE  TabInv' /\ TermsKept
    BY <1>6, SameTabs DEF OpenFails, TabInv, TabTypes
  <1> QED BY <1>1, <1>2, <1>3, <1>4, <1>5, <1>6, BackAndForth, LeftTab, MarkedTab,
             UnmarkedTab DEF MoveStep

(***************************************************************************)
(* Tabs and their shells, and the state as a whole.                        *)

LEMMA RestoredTab ==
    ASSUME TabInv, Restore
    PROVE  TabInv'
  <1> DEFINE tab == [closed EXCEPT !.id = made']
  <1>1. closed # None /\ closed \in Tab /\ Trails(closed) /\ InView(closed)
    BY DEF Restore, TabInv, TabTypes, TabsKnown
  <1>2. /\ made < MaxMade /\ made' = made + 1 /\ closed' = None
        /\ tabs' = Append(tabs, tab) /\ active' = Len(tabs) + 1
        /\ strayed' = IF closed.id \in strayed THEN strayed \union {made'} ELSE strayed
    BY DEF Restore
  <1>3. made \in 1..MaxMade
    BY DEF TabInv, TabTypes
  <1>4. made' \in 1..MaxMade
    BY <1>2, <1>3, Bounds
  <1>5. /\ tab \in Tab /\ tab.id = made' /\ tab.marks = closed.marks
        /\ tab.trail = closed.trail /\ tab.back = closed.back
        /\ tab.forward = closed.forward
    BY <1>1, <1>4 DEF Tab
  <1> HIDE DEF tab
  <1>6. Trails(tab) /\ Leaf(tab) = Leaf(closed)
    BY <1>1, <1>5 DEF Trails, Leaf
  <1>7. made' \in strayed' \/ tab.marks \subseteq {Leaf(tab)}
    BY <1>1, <1>2, <1>5, <1>6 DEF InView
  <1> QED BY <1>2, <1>5, <1>6, <1>7, AddedTab

LEMMA SessionTab ==
    ASSUME TabInv, NEW dir \in Dirs, SessionStarts(dir)
    PROVE  TabInv'
  <1>1. PICK p \in Ptys :
           /\ made < MaxMade /\ made' = made + 1 /\ active' = Len(tabs) + 1
           /\ tabs' = Append(tabs, [makeTab(made', "folder", None, dir) EXCEPT !.term = p])
    BY DEF SessionStarts
  <1> DEFINE new == makeTab(made', "folder", None, dir)
             tab == [new EXCEPT !.term = p]
  <1>2. made \in 1..MaxMade
    BY DEF TabInv, TabTypes
  <1>3. made' \in 1..MaxMade
    BY <1>1, <1>2, Bounds
  <1>4. new \in Tab /\ new.id = made' /\ new.marks = {} /\ Trails(new)
    BY <1>3, MadeTab
  <1> HIDE DEF new
  <1>5. tab \in Tab /\ tab.id = made' /\ tab.marks = {} /\ Trails(tab)
    BY <1>4, WithShell
  <1>6. tabs' = Append(tabs, tab)
    BY <1>1 DEF new
  <1> HIDE DEF tab
  <1>7. UNCHANGED <<closed, strayed>>
    BY DEF SessionStarts, moveVars
  <1> QED BY <1>1, <1>5, <1>6, <1>7, AddedTab

LEMMA ShellTabs ==
    ASSUME TabInv, waiting \subseteq [pty : Ptys, at : Nat], ShellStep
    PROVE  TabInv'
  <1>0. active \in DOMAIN tabs
    BY DEF TabInv, TabTypes
  <1>1. CASE StartTerm
    BY <1>0, <1>1, SameTabs DEF StartTerm, moveVars
  <1>2. CASE AskCloseTerm \/ CancelCloseTerm \/ ConfirmCloseTerm
    BY <1>0, <1>2, SameTabs DEF AskCloseTerm, CancelCloseTerm, ConfirmCloseTerm, moveVars
  <1>3. ASSUME NEW t \in Tasks, StartTaskTerm(t)
        PROVE  TabInv'
    BY <1>3, TaskTabs DEF StartTaskTerm, moveVars
  <1>4. ASSUME NEW dir \in Dirs, StartResume(dir)
        PROVE  TabInv'
    BY <1>4, NewTabs DEF StartResume, moveVars
  <1>5. ASSUME NEW w \in waiting, Spawned(w)
        PROVE  TabInv'
    <2>1. UNCHANGED <<active, made, closed, strayed>>
      BY <1>5 DEF Spawned, moveVars
    <2>2. CASE w.at \in DOMAIN tabs
      <3>1. Update(w.at, [tabs[w.at] EXCEPT !.term = w.pty])
        BY <1>5, <2>2 DEF Spawned, OpenTerminal
      <3>2. w.pty \in Ptys
        BY DEF Call
      <3> QED BY <2>1, <2>2, <3>1, <3>2, TermTabs
    <2>3. CASE w.at \notin DOMAIN tabs
      BY <1>0, <1>5, <2>1, <2>3, SameTabs DEF Spawned, OpenTerminal
    <2> QED BY <2>2, <2>3
  <1>6. ASSUME NEW w \in waiting, SpawnFails(w)
        PROVE  TabInv'
    BY <1>0, <1>6, SameTabs DEF SpawnFails, moveVars
  <1>7. ASSUME NEW p \in Ptys, Exits(p)
        PROVE  TabInv'
    <2>1. UNCHANGED <<active, made, closed, strayed>>
      BY <1>7 DEF Exits, moveVars
    <2>2. CASE Shows(tabs, p)
      BY <1>7, <2>1, <2>2, WithoutTermTabs DEF Exits
    <2>3. CASE ~Shows(tabs, p)
      BY <1>0, <1>7, <2>1, <2>3, SameTabs DEF Exits
    <2> QED BY <2>2, <2>3
  <1>8. ASSUME NEW c \in ending, TermKilled(c)
        PROVE  TabInv'
    BY <1>8, WithoutTermTabs DEF TermKilled, moveVars
  <1> QED BY <1>1, <1>2, <1>3, <1>4, <1>5, <1>6, <1>7, <1>8, SessionTab DEF ShellStep

LEMMA StepTabs ==
    ASSUME TabInv, TabStep
    PROVE  /\ TabInv'
           /\ \/ TermsKept /\ closed' = closed /\ UNCHANGED termVars
              \/ Restore
              \/ \E i \in DOMAIN tabs : Close(i)
  <1>1. CASE OpenFolder
    BY <1>1, HereIsTab, NewTabs DEF OpenFolder, moveVars
  <1>2. CASE OpenHome
    <2> DEFINE same == {i \in DOMAIN tabs : tabs[i].kind = "newhome"}
    <2>1. /\ OpenOrFocus(same, "newhome", None, Leaf(Here))
          /\ UNCHANGED <<closed, strayed, termVars>>
      BY <1>2 DEF OpenHome, moveVars
    <2>2. same \in SUBSET DOMAIN tabs /\ Leaf(Here) \in Dirs
      BY HereIsTab
    <2> HIDE DEF same
    <2> QED BY <2>1, <2>2, FocusedTabs
  <1>3. CASE Restore
    BY <1>3, RestoredTab
  <1>4. ASSUME NEW t \in Tasks, OpenTask(t)
        PROVE  TabInv' /\ TermsKept /\ closed' = closed /\ UNCHANGED termVars
    BY <1>4, TaskTabs DEF OpenTask, moveVars
  <1>5. ASSUME NEW i \in DOMAIN tabs, Select(i)
        PROVE  TabInv' /\ TermsKept /\ closed' = closed /\ UNCHANGED termVars
    BY <1>5, SameTabs DEF Select, moveVars
  <1>6. ASSUME NEW i \in DOMAIN tabs, Close(i)
        PROVE  TabInv'
    BY <1>6, ClosedTab
  <1> QED BY <1>1, <1>2, <1>3, <1>4, <1>5, <1>6 DEF TabStep

(***************************************************************************)
(* The shells.                                                             *)

ShellTypes ==
    /\ shell \in [Ptys -> {"new", "running", "killed", "gone"}]
    /\ waiting \subseteq [pty : Ptys, at : Nat]
    /\ heard \in [Ptys -> Nat] /\ stale \in BOOLEAN

\* A shell on its way goes into a tab without one, and alone.
Awaited ==
    \A w \in waiting :
        /\ w.at \in DOMAIN tabs /\ tabs[w.at].term = None
        /\ shell[w.pty] # "new" /\ ~Shows(tabs, w.pty)
        /\ \A v \in waiting : v.at = w.at \/ v.pty = w.pty => v = w
        /\ closed # None => closed.term # w.pty

\* The terminal of a tab closes that tab's.
Mounted ==
    \A i \in DOMAIN tabs :
        tabs[i].term # None => heard[tabs[i].term] = i /\ shell[tabs[i].term] # "new"

\* The shell of the tab that was closed was killed and is in no other.
ClosedShell ==
    closed # None /\ closed.term # None =>
        ~Shows(tabs, closed.term) /\ shell[closed.term] \in {"killed", "gone"}

ShellInv ==
    /\ ShellTypes /\ NoOrphan
    /\ ~stale => Awaited /\ Mounted /\ ClosedShell

\* A :term-close drops the shell it kills, or finds none and none on its way.
Closing ==
    /\ \A c \in ending : shell[c.pty] \in {"killed", "gone"}
    /\ \A c \in ending \union ({asked} \ {None}) :
          /\ c.at \in DOMAIN tabs /\ tabs[c.at].term \in {c.pty, None}
          /\ shell[c.pty] # "new"
          /\ \A w \in waiting : w.at # c.at

CloseInv ==
    /\ ending \subseteq Call /\ (asked = None \/ asked \in Call)
    /\ ~stale => Closing

\* The shells in the tabs and in the closed one.
LEMMA Terms ==
    ASSUME TabInv
    PROVE  /\ \A i \in DOMAIN tabs : tabs[i].term \in Ptys \union {None}
           /\ closed # None => closed.term \in Ptys \union {None}
           /\ None \notin Ptys
  <1>1. \A i \in DOMAIN tabs : tabs[i] \in Tab
    BY LenProperties, ElementOfSeq DEF TabInv, TabTypes
  <1>2. closed # None => closed \in Tab
    BY DEF TabInv, TabTypes
  <1> QED BY <1>1, <1>2, TabFields, TabsAssumption

LEMMA Showing ==
    ASSUME TabInv, TermsKept, NEW p \in Ptys
    PROVE  Shows(tabs', p) <=> Shows(tabs, p)
  BY Terms DEF Shows, TermsKept

\* Once an index went stale only the types are left to keep.
LEMMA StaleShells ==
    ASSUME stale', ShellTypes'
    PROVE  ShellInv'
  BY DEF ShellInv, NoOrphan

\* No shell begins or comes back.
ShellsEnd ==
    /\ shell' \in [Ptys -> {"new", "running", "killed", "gone"}]
    /\ \A k \in Ptys :
          \/ shell'[k] = shell[k]
          \/ shell'[k] = "gone"
          \/ shell[k] = "running" /\ shell'[k] = "killed"

\* A terminal that is still there was not mounted anew.
HeardKept ==
    /\ heard' \in [Ptys -> Nat]
    /\ \A k \in Ptys : Shows(tabs', k) => heard'[k] = heard[k]

LEMMA Still ==
    ASSUME ShellInv
    PROVE  (UNCHANGED shell => ShellsEnd) /\ (UNCHANGED heard => HeardKept)
  BY DEF ShellInv, ShellTypes, ShellsEnd, HeardKept

\* Every tab keeps its shell.
LEMMA KeptShells ==
    ASSUME TabInv, ShellInv, TermsKept, closed' = closed, UNCHANGED <<waiting, stale>>,
           ShellsEnd, HeardKept
    PROVE  ShellInv'
  <1> USE DEF ShellsEnd, HeardKept
  <1>1. ShellTypes'
    BY DEF ShellInv, ShellTypes
  <1>2. NoOrphan'
    BY Showing DEF ShellInv, NoOrphan
  <1>3. ASSUME ~stale
        PROVE  (Awaited /\ Mounted /\ ClosedShell)'
    <2>0. Awaited /\ Mounted /\ ClosedShell /\ waiting \subseteq [pty : Ptys, at : Nat]
      BY <1>3 DEF ShellInv, ShellTypes
    <2>1. \A k \in Ptys : shell[k] # "new" => shell'[k] # "new"
      OBVIOUS
    <2>2. Awaited'
      <3>1. \A w \in waiting : w.pty \in Ptys
        BY <2>0 DEF Call
      <3> QED BY <2>0, <2>1, <3>1, Showing DEF Awaited, TermsKept
    <2>3. Mounted'
      <3> SUFFICES ASSUME NEW j \in DOMAIN tabs', tabs'[j].term # None
                   PROVE  heard'[tabs'[j].term] = j /\ shell'[tabs'[j].term] # "new"
        BY DEF Mounted
      <3>1. j \in DOMAIN tabs /\ tabs'[j].term = tabs[j].term
        BY DEF TermsKept
      <3>2. tabs[j].term \in Ptys /\ Shows(tabs', tabs[j].term)
        BY <3>1, Terms DEF Shows
      <3> QED BY <2>0, <2>1, <3>1, <3>2 DEF Mounted
    <2>4. ClosedShell'
      BY <2>0, Showing, Terms DEF ClosedShell
    <2> QED BY <2>2, <2>3, <2>4
  <1> QED BY <1>1, <1>2, <1>3 DEF ShellInv

LEMMA QuietShells ==
    ASSUME TabInv, ShellInv, TermsKept, UNCHANGED termVars, closed' = closed
    PROVE  ShellInv'
  <1>1. UNCHANGED <<shell, waiting, heard, stale>>
    BY DEF termVars
  <1> QED BY <1>1, Still, KeptShells

LEMMA SpawnedShells ==
    ASSUME TabInv, ShellInv, TermsKept, closed' = closed,
           NEW i \in DOMAIN tabs', tabs'[i].term = None, i \in Nat, Spawns(i)
    PROVE  ShellInv'
  <1>1. PICK p \in Ptys :
           /\ shell[p] = "new"
           /\ shell' = [shell EXCEPT ![p] = "running"]
           /\ waiting' = waiting \union {[pty |-> p, at |-> i]}
           /\ stale' = (stale \/ \E w \in Calls : w.at = i)
           /\ heard' = heard
    BY DEF Spawns
  <1>2. ShellTypes'
    BY <1>1 DEF ShellInv, ShellTypes, Call
  <1>3. \A k \in Ptys : shell'[k] = IF k = p THEN "running" ELSE shell[k]
    BY <1>1 DEF ShellInv, ShellTypes
  <1>4. NoOrphan'
    <2> SUFFICES ASSUME ~stale', NEW k \in Ptys, shell'[k] = "running"
                 PROVE  Shows(tabs', k) \/ \E w \in waiting' : w.pty = k
      BY DEF NoOrphan
    <2>1. CASE k = p
      <3>1. [pty |-> p, at |-> i] \in waiting'
        BY <1>1
      <3> QED BY <2>1, <3>1
    <2>2. CASE k # p
      <3>1. ~stale /\ shell[k] = "running" /\ waiting \subseteq waiting'
        BY <1>1, <1>3, <2>2
      <3> QED BY <3>1, Showing DEF ShellInv, NoOrphan
    <2> QED BY <2>1, <2>2
  <1>5. ASSUME ~stale'
        PROVE  (Awaited /\ Mounted /\ ClosedShell)'
    <2>0. /\ Awaited /\ Mounted /\ ClosedShell /\ waiting \subseteq [pty : Ptys, at : Nat]
          /\ \A w \in waiting : w.at # i
      BY <1>1, <1>5 DEF ShellInv, ShellTypes, Calls
    <2>1. \A w \in waiting : w.pty # p
      BY <1>1, <2>0 DEF Awaited
    <2>2. ~Shows(tabs, p) /\ (closed # None => closed.term # p)
      <3>1. ~Shows(tabs, p)
        BY <1>1, <2>0, Terms DEF Mounted, Shows
      <3> QED BY <1>1, <2>0, <3>1, Terms DEF ClosedShell
    <2>3. Awaited'
      <3>1. ASSUME NEW w \in waiting
            PROVE  /\ w.at \in DOMAIN tabs' /\ tabs'[w.at].term = None
                   /\ shell'[w.pty] # "new" /\ ~Shows(tabs', w.pty)
                   /\ closed' # None => closed'.term # w.pty
        BY <1>3, <2>0, <2>1, Showing DEF Awaited, TermsKept
      <3>2. \A w, v \in waiting : v.at = w.at \/ v.pty = w.pty => v = w
        BY <2>0 DEF Awaited
      <3> DEFINE n == [pty |-> p, at |-> i]
      <3>3. /\ n.at \in DOMAIN tabs' /\ tabs'[n.at].term = None
            /\ shell'[n.pty] # "new" /\ ~Shows(tabs', n.pty)
            /\ closed' # None => closed'.term # n.pty
            /\ \A w \in waiting : w.at # n.at /\ w.pty # n.pty
        BY <1>3, <2>0, <2>1, <2>2, Showing
      <3>4. waiting' = waiting \union {n}
        BY <1>1
      <3> HIDE DEF n
      <3> QED BY <3>1, <3>2, <3>3, <3>4 DEF Awaited
    <2>4. Mounted'
      BY <1>1, <1>3, <2>0, Terms DEF Mounted, TermsKept
    <2>5. ClosedShell'
      BY <1>3, <2>0, <2>2, Showing, Terms DEF ClosedShell
    <2> QED BY <2>3, <2>4, <2>5
  <1> QED BY <1>2, <1>4, <1>5 DEF ShellInv

LEMMA Unmounting ==
    ASSUME Unmounts(heard), heard \in [Ptys -> Nat]
    PROVE  /\ heard' \in [Ptys -> Nat]
           /\ \A k \in Ptys : Shows(tabs', k) => heard'[k] = heard[k]
  BY DEF Unmounts

LEMMA KillingShell ==
    ASSUME ShellTypes, NEW p \in Ptys \union {None}, None \notin Ptys, shell' = Killed(p)
    PROVE  /\ shell' \in [Ptys -> {"new", "running", "killed", "gone"}]
           /\ \A k \in Ptys :
                 shell'[k] = IF k = p /\ shell[k] = "running" THEN "killed" ELSE shell[k]
  <1>1. shell \in [Ptys -> {"new", "running", "killed", "gone"}]
    BY DEF ShellTypes
  <1>2. CASE p = None \/ shell[p] # "running"
    BY <1>1, <1>2 DEF Killed
  <1>3. CASE p # None /\ shell[p] = "running"
    <2>1. shell' = [shell EXCEPT ![p] = "killed"] /\ p \in Ptys
      BY <1>3 DEF Killed
    <2> QED BY <1>1, <1>3, <2>1
  <1> QED BY <1>2, <1>3

LEMMA ClearedTerm ==
    ASSUME TabInv, NEW i \in DOMAIN tabs, tabs' = WithoutTerm(tabs, i)
    PROVE  /\ DOMAIN tabs' = DOMAIN tabs /\ tabs'[i].term = None
           /\ \A j \in DOMAIN tabs : j # i => tabs'[j].term = tabs[j].term
  <1> DEFINE tab == [tabs[i] EXCEPT !.term = None]
  <1>1. tabs \in Seq(Tab) /\ tabs[i] \in Tab
    BY LenProperties, ElementOfSeq DEF TabInv, TabTypes
  <1>2. tab \in Tab /\ tab.term = None
    BY <1>1, WithShell
  <1>3. tabs' = [tabs EXCEPT ![i] = tab]
    BY DEF WithoutTerm
  <1> HIDE DEF tab
  <1> QED BY <1>1, <1>2, <1>3, Replaced

\* A shell ends and its tab lets it go.
LEMMA EndedShell ==
    ASSUME TabInv, ShellInv, NEW i \in DOMAIN tabs, NEW p \in Ptys, tabs[i].term = p,
           tabs' = WithoutTerm(tabs, i), Unmounts(heard),
           shell' \in [Ptys -> {"new", "running", "killed", "gone"}],
           \A k \in Ptys : k # p => shell'[k] = shell[k],
           ~stale => shell'[p] \in {"killed", "gone"},
           UNCHANGED <<closed, waiting, stale>>
    PROVE  ShellInv'
  <1>1. /\ DOMAIN tabs' = DOMAIN tabs /\ tabs'[i].term = None
        /\ \A j \in DOMAIN tabs : j # i => tabs'[j].term = tabs[j].term
    BY ClearedTerm
  <1>2. /\ heard' \in [Ptys -> Nat]
        /\ \A k \in Ptys : Shows(tabs', k) => heard'[k] = heard[k]
    BY Unmounting DEF ShellInv, ShellTypes
  <1>3. ShellTypes'
    BY <1>2 DEF ShellInv, ShellTypes
  <1>4. \A k \in Ptys : /\ Shows(tabs', k) => Shows(tabs, k)
                        /\ k # p /\ Shows(tabs, k) => Shows(tabs', k)
    BY <1>1, Terms DEF Shows
  <1>5. NoOrphan'
    BY <1>4 DEF ShellInv, NoOrphan
  <1>6. ASSUME ~stale
        PROVE  (Awaited /\ Mounted /\ ClosedShell)'
    <2>0. Awaited /\ Mounted /\ ClosedShell /\ waiting \subseteq [pty : Ptys, at : Nat]
      BY <1>6 DEF ShellInv, ShellTypes
    <2>1. \A k \in Ptys : shell[k] # "new" => shell'[k] # "new"
      BY <1>6
    <2>2. Awaited'
      <3>1. \A w \in waiting : w.at \in DOMAIN tabs' /\ tabs'[w.at].term = None
        BY <1>1, <2>0 DEF Awaited
      <3> QED BY <1>4, <2>0, <2>1, <3>1 DEF Awaited
    <2>3. Mounted'
      <3> SUFFICES ASSUME NEW j \in DOMAIN tabs', tabs'[j].term # None
                   PROVE  heard'[tabs'[j].term] = j /\ shell'[tabs'[j].term] # "new"
        BY DEF Mounted
      <3>1. j # i /\ j \in DOMAIN tabs /\ tabs'[j].term = tabs[j].term
        BY <1>1
      <3>2. tabs[j].term \in Ptys /\ Shows(tabs', tabs[j].term)
        BY <1>1, <3>1, Terms DEF Shows
      <3> QED BY <1>2, <2>0, <2>1, <3>1, <3>2 DEF Mounted
    <2>4. ClosedShell'
      BY <1>4, <1>6, <2>0, Terms DEF ClosedShell
    <2> QED BY <2>2, <2>3, <2>4
  <1> QED BY <1>3, <1>5, <1>6 DEF ShellInv

\* :term-close is asked for, or not gone on with, or the shell is killed.
LEMMA AskedShells ==
    ASSUME TabInv, ShellInv, CloseInv, AskCloseTerm \/ CancelCloseTerm \/ ConfirmCloseTerm
    PROVE  ShellInv'
  <1>1. UNCHANGED <<tabs, closed, waiting, heard, stale>>
    BY DEF AskCloseTerm, CancelCloseTerm, ConfirmCloseTerm
  <1>2. TermsKept
    BY <1>1 DEF TermsKept
  <1>3. HeardKept
    BY <1>1, Still
  <1>4. CASE AskCloseTerm \/ CancelCloseTerm
    <2>1. shell' = shell
      BY <1>4 DEF AskCloseTerm, CancelCloseTerm
    <2> QED BY <1>1, <1>2, <1>3, <2>1, Still, KeptShells
  <1>5. CASE ConfirmCloseTerm
    <2>1. asked.pty \in Ptys /\ shell' = Killed(asked.pty)
      BY <1>5 DEF ConfirmCloseTerm, CloseInv, Call
    <2>2. /\ shell' \in [Ptys -> {"new", "running", "killed", "gone"}]
          /\ \A k \in Ptys : shell'[k] = IF k = asked.pty /\ shell[k] = "running"
                                         THEN "killed" ELSE shell[k]
      BY <2>1, KillingShell, Terms DEF ShellInv
    <2>3. ShellsEnd
      BY <2>2 DEF ShellsEnd
    <2> QED BY <1>1, <1>2, <1>3, <2>3, KeptShells
  <1> QED BY <1>4, <1>5

LEMMA ClosedTermShells ==
    ASSUME TabInv, ShellInv, CloseInv, NEW c \in ending, TermKilled(c)
    PROVE  ShellInv'
  <1>1. /\ tabs' = WithoutTerm(tabs, c.at) /\ Unmounts(heard)
        /\ UNCHANGED <<closed, shell, waiting, stale>>
    BY DEF TermKilled
  <1>2. /\ heard' \in [Ptys -> Nat]
        /\ \A k \in Ptys : Shows(tabs', k) => heard'[k] = heard[k]
    BY <1>1, Unmounting DEF ShellInv, ShellTypes
  <1>3. shell \in [Ptys -> {"new", "running", "killed", "gone"}] /\ c.pty \in Ptys
    BY DEF ShellInv, ShellTypes, CloseInv, Call
  <1>4. CASE stale
    BY <1>1, <1>2, <1>4, StaleShells DEF ShellInv, ShellTypes
  <1>5. CASE ~stale
    <2>1. /\ c.at \in DOMAIN tabs /\ tabs[c.at].term \in {c.pty, None}
          /\ shell[c.pty] \in {"killed", "gone"}
      BY <1>5 DEF CloseInv, Closing
    <2>2. CASE tabs[c.at].term = c.pty
      BY <1>1, <1>3, <2>1, <2>2, EndedShell
    <2>3. CASE tabs[c.at].term = None
      <3>1. TermsKept
        BY <1>1, <2>1, <2>3, ClearedTerm DEF TermsKept
      <3>2. HeardKept
        BY <1>2 DEF HeardKept
      <3> QED BY <1>1, <3>1, <3>2, Still, KeptShells
    <2> QED BY <2>1, <2>2, <2>3
  <1> QED BY <1>4, <1>5

LEMMA ExitedShells ==
    ASSUME TabInv, ShellInv, NEW p \in Ptys, Exits(p)
    PROVE  ShellInv'
  <1>1. /\ shell[p] \in {"running", "killed"} /\ shell' = [shell EXCEPT ![p] = "gone"]
        /\ tabs' = IF Shows(tabs, p) THEN WithoutTerm(tabs, heard[p]) ELSE tabs
        /\ Unmounts(heard) /\ UNCHANGED <<closed, waiting, stale>>
    BY DEF Exits
  <1>2. /\ shell' \in [Ptys -> {"new", "running", "killed", "gone"}]
        /\ \A k \in Ptys : shell'[k] = IF k = p THEN "gone" ELSE shell[k]
    BY <1>1 DEF ShellInv, ShellTypes
  <1>3. /\ heard' \in [Ptys -> Nat]
        /\ \A k \in Ptys : Shows(tabs', k) => heard'[k] = heard[k]
    BY <1>1, Unmounting DEF ShellInv, ShellTypes
  <1>4. ShellTypes'
    BY <1>1, <1>2, <1>3 DEF ShellInv, ShellTypes
  <1>5. CASE stale
    BY <1>1, <1>4, <1>5 DEF ShellInv, NoOrphan
  <1>6. CASE ~stale /\ Shows(tabs, p)
    <2>1. PICK i \in DOMAIN tabs : tabs[i].term = p
      BY <1>6 DEF Shows
    <2>2. heard[p] = i
      BY <1>6, <2>1, Terms DEF ShellInv, Mounted
    <2> QED BY <1>1, <1>2, <1>6, <2>1, <2>2, EndedShell
  <1>7. CASE ~Shows(tabs, p)
    <2>1. TermsKept
      BY <1>1, <1>7 DEF TermsKept
    <2>2. ShellsEnd /\ HeardKept
      BY <1>2, <1>3 DEF ShellsEnd, HeardKept
    <2> QED BY <1>1, <2>1, <2>2, KeptShells
  <1> QED BY <1>5, <1>6, <1>7

LEMMA FailedShells ==
    ASSUME TabInv, ShellInv, NEW w \in waiting, SpawnFails(w)
    PROVE  ShellInv'
  <1>1. /\ shell[w.pty] = "running" /\ waiting' = waiting \ {w}
        /\ shell' = [shell EXCEPT ![w.pty] = "gone"]
        /\ UNCHANGED <<tabs, closed, heard, stale>>
    BY DEF SpawnFails
  <1>2. w.pty \in Ptys
    BY DEF ShellInv, ShellTypes, Call
  <1>3. /\ shell' \in [Ptys -> {"new", "running", "killed", "gone"}]
        /\ \A k \in Ptys : shell'[k] = IF k = w.pty THEN "gone" ELSE shell[k]
    BY <1>1, <1>2 DEF ShellInv, ShellTypes
  <1>4. ShellTypes'
    BY <1>1, <1>3 DEF ShellInv, ShellTypes
  <1>5. \A k \in Ptys : Shows(tabs', k) <=> Shows(tabs, k)
    BY <1>1
  <1>6. NoOrphan'
    BY <1>1, <1>3, <1>5 DEF ShellInv, NoOrphan
  <1>7. ASSUME ~stale
        PROVE  (Awaited /\ Mounted /\ ClosedShell)'
    <2>0. Awaited /\ Mounted /\ ClosedShell /\ waiting \subseteq [pty : Ptys, at : Nat]
      BY <1>7 DEF ShellInv, ShellTypes
    <2>1. Awaited'
      BY <1>1, <1>3, <1>5, <2>0 DEF Awaited
    <2>2. Mounted'
      BY <1>1, <1>3, <2>0, Terms DEF Mounted
    <2>3. ClosedShell'
      BY <1>1, <1>3, <1>5, <2>0, Terms DEF ClosedShell
    <2> QED BY <2>1, <2>2, <2>3
  <1> QED BY <1>1, <1>4, <1>6, <1>7 DEF ShellInv

LEMMA ShownShells ==
    ASSUME TabInv, ShellInv, NEW w \in waiting, Spawned(w)
    PROVE  ShellInv'
  <1> DEFINE p == w.pty
             i == w.at
  <1>1. waiting' = waiting \ {w} /\ OpenTerminal(p, i) /\ UNCHANGED <<closed, shell, stale>>
    BY DEF Spawned
  <1>2. p \in Ptys /\ i \in Nat /\ w = [pty |-> p, at |-> i]
    BY DEF ShellInv, ShellTypes, Call
  <1> HIDE DEF p, i
  <1>3. CASE i \notin DOMAIN tabs
    <2>1. UNCHANGED <<tabs, heard>>
      BY <1>1, <1>3 DEF OpenTerminal
    <2>2. stale
      BY <1>2, <1>3 DEF ShellInv, Awaited
    <2> QED BY <1>1, <2>1, <2>2 DEF ShellInv, ShellTypes, NoOrphan
  <1>4. CASE i \in DOMAIN tabs
    <2> DEFINE tab == [tabs[i] EXCEPT !.term = p]
               h == [heard EXCEPT ![p] = i]
    <2>1. tabs' = [tabs EXCEPT ![i] = tab] /\ Unmounts(h)
      BY <1>1, <1>4 DEF OpenTerminal, Update
    <2>2. tabs \in Seq(Tab) /\ tabs[i] \in Tab
      BY <1>4, LenProperties, ElementOfSeq DEF TabInv, TabTypes
    <2>3. tab \in Tab /\ tab.term = p
      BY <1>2, <2>2, WithShell
    <2> HIDE DEF tab
    <2>4. /\ DOMAIN tabs' = DOMAIN tabs /\ tabs'[i].term = p
          /\ \A j \in DOMAIN tabs : j # i => tabs'[j].term = tabs[j].term
      BY <1>4, <2>1, <2>2, <2>3, Replaced
    <2>5. h \in [Ptys -> Nat] /\ \A k \in Ptys : h[k] = IF k = p THEN i ELSE heard[k]
      BY <1>2 DEF ShellInv, ShellTypes
    <2> HIDE DEF h
    <2>6. /\ heard' \in [Ptys -> Nat]
          /\ \A k \in Ptys : Shows(tabs', k) => heard'[k] = h[k]
      BY <2>1, <2>5 DEF Unmounts
    <2>7. ShellTypes'
      BY <1>1, <2>6 DEF ShellInv, ShellTypes
    <2>8. CASE stale
      BY <1>1, <2>7, <2>8 DEF ShellInv, NoOrphan
    <2>9. CASE ~stale
      <3>0. Awaited /\ Mounted /\ ClosedShell /\ waiting \subseteq [pty : Ptys, at : Nat]
        BY <2>9 DEF ShellInv, ShellTypes
      <3>1. /\ tabs[i].term = None /\ shell[p] # "new" /\ ~Shows(tabs, p)
            /\ \A v \in waiting : v.at = i \/ v.pty = p => v = w
            /\ closed # None => closed.term # p
        BY <3>0 DEF Awaited, p, i
      <3>2. \A k \in Ptys : Shows(tabs', k) <=> Shows(tabs, k) \/ k = p
        BY <1>4, <2>4, <3>1, Terms DEF Shows
      <3>3. NoOrphan'
        <4> SUFFICES ASSUME NEW k \in Ptys, shell[k] = "running"
                     PROVE  Shows(tabs', k) \/ \E v \in waiting' : v.pty = k
          BY <1>1 DEF NoOrphan
        <4>1. k # p => Shows(tabs, k) \/ \E v \in waiting : v.pty = k /\ v # w
          BY <2>9 DEF ShellInv, NoOrphan, p
        <4> QED BY <1>1, <3>2, <4>1
      <3>4. Awaited'
        <4>1. \A v \in waiting' : v \in waiting /\ v.at # i /\ v.pty # p
          BY <1>1, <3>1
        <4>2. \A v \in waiting' : v.pty \in Ptys
          BY <1>1, <3>0
        <4> QED BY <1>1, <2>4, <3>0, <3>2, <4>1, <4>2 DEF Awaited
      <3>5. Mounted'
        <4> SUFFICES ASSUME NEW j \in DOMAIN tabs', tabs'[j].term # None
                     PROVE  heard'[tabs'[j].term] = j /\ shell[tabs'[j].term] # "new"
          BY <1>1 DEF Mounted
        <4>1. CASE j = i
          BY <1>2, <2>4, <2>5, <2>6, <3>1, <3>2, <4>1
        <4>2. CASE j # i
          <5>1. j \in DOMAIN tabs /\ tabs'[j].term = tabs[j].term
            BY <2>4, <4>2
          <5>2. tabs[j].term \in Ptys /\ Shows(tabs, tabs[j].term)
            BY <5>1, Terms DEF Shows
          <5>3. tabs[j].term # p
            BY <3>1, <5>2
          <5> QED BY <2>5, <2>6, <3>0, <3>2, <5>1, <5>2, <5>3 DEF Mounted
        <4> QED BY <4>1, <4>2
      <3>6. ClosedShell'
        BY <1>1, <3>0, <3>1, <3>2, Terms DEF ClosedShell
      <3> QED BY <2>7, <3>3, <3>4, <3>5, <3>6 DEF ShellInv
    <2> QED BY <2>8, <2>9
  <1> QED BY <1>3, <1>4

\* A tab is put last with its shell in it.
LEMMA AddedShell ==
    ASSUME TabInv, ShellInv, NEW tab \in Tab, tabs' = Append(tabs, tab),
           NEW p, p = tab.term, p \in Ptys => ~Shows(tabs, p),
           heard' = [k \in Ptys |-> IF k = p THEN Len(tabs) + 1 ELSE heard[k]],
           shell' \in [Ptys -> {"new", "running", "killed", "gone"}],
           \A k \in Ptys : k # p => shell'[k] = shell[k],
           p \in Ptys => shell'[p] # "new",
           ~stale => \A w \in waiting : w.pty # p,
           ~stale => ClosedShell', ~stale => closed' = closed \/ closed' = None,
           UNCHANGED <<waiting, stale>>
    PROVE  ShellInv'
  <1> DEFINE n == Len(tabs) + 1
  <1>1. tabs \in Seq(Tab) /\ Len(tabs) \in Nat /\ n \in Nat
    BY LenProperties DEF TabInv, TabTypes
  <1>2. /\ DOMAIN tabs' = DOMAIN tabs \union {n} /\ n \notin DOMAIN tabs
        /\ tabs'[n].term = p /\ \A j \in DOMAIN tabs : tabs'[j].term = tabs[j].term
    BY <1>1, Appended
  <1> HIDE DEF n
  <1>3. /\ heard' \in [Ptys -> Nat]
        /\ \A k \in Ptys : heard'[k] = IF k = p THEN n ELSE heard[k]
    BY <1>1 DEF n, ShellInv, ShellTypes
  <1>4. ShellTypes'
    BY <1>3 DEF ShellInv, ShellTypes
  <1>5. \A k \in Ptys : Shows(tabs', k) <=> Shows(tabs, k) \/ k = p
    BY <1>2 DEF Shows
  <1>6. NoOrphan'
    BY <1>5 DEF ShellInv, NoOrphan
  <1>7. ASSUME ~stale
        PROVE  Awaited' /\ Mounted'
    <2>0. Awaited /\ Mounted /\ waiting \subseteq [pty : Ptys, at : Nat]
      BY <1>7 DEF ShellInv, ShellTypes
    <2>1. Awaited'
      <3>1. \A w \in waiting : w.pty \in Ptys /\ w.pty # p
        BY <1>7, <2>0
      <3>2. \A w \in waiting : closed' # None => closed'.term # w.pty
        BY <1>7, <2>0 DEF Awaited
      <3> QED BY <1>2, <1>5, <2>0, <3>1, <3>2 DEF Awaited
    <2>2. Mounted'
      <3> SUFFICES ASSUME NEW j \in DOMAIN tabs', tabs'[j].term # None
                   PROVE  heard'[tabs'[j].term] = j /\ shell'[tabs'[j].term] # "new"
        BY DEF Mounted
      <3>1. CASE j = n
        BY <1>2, <1>3, <3>1, TabFields
      <3>2. CASE j \in DOMAIN tabs
        <4>1. tabs'[j].term = tabs[j].term /\ tabs[j].term \in Ptys
          BY <1>2, <3>2, Terms
        <4>2. tabs[j].term # p
          BY <3>2, <4>1 DEF Shows
        <4> QED BY <1>3, <2>0, <3>2, <4>1, <4>2 DEF Mounted
      <3> QED BY <1>2, <3>1, <3>2
    <2> QED BY <2>1, <2>2
  <1> QED BY <1>4, <1>6, <1>7 DEF ShellInv

LEMMA SessionShells ==
    ASSUME TabInv, ShellInv, NEW dir \in Dirs, SessionStarts(dir)
    PROVE  ShellInv'
  <1>1. PICK p \in Ptys :
           /\ shell[p] = "new" /\ shell' = [shell EXCEPT ![p] = "running"]
           /\ made < MaxMade /\ made' = made + 1
           /\ tabs' = Append(tabs, [makeTab(made', "folder", None, dir) EXCEPT !.term = p])
           /\ heard' = [heard EXCEPT ![p] = Len(tabs) + 1]
    BY DEF SessionStarts
  <1>2. UNCHANGED <<closed, waiting, stale>>
    BY DEF SessionStarts
  <1> DEFINE new == makeTab(made', "folder", None, dir)
             tab == [new EXCEPT !.term = p]
  <1>3. made \in 1..MaxMade
    BY DEF TabInv, TabTypes
  <1>4. made' \in 1..MaxMade
    BY <1>1, <1>3, Bounds
  <1>5. new \in Tab
    BY <1>4, MadeTab
  <1>6. tabs' = Append(tabs, tab)
    BY <1>1
  <1> HIDE DEF new
  <1>7. tab \in Tab /\ tab.term = p
    BY <1>5, WithShell
  <1> HIDE DEF tab
  <1>8. /\ heard \in [Ptys -> Nat]
        /\ heard' = [k \in Ptys |-> IF k = p THEN Len(tabs) + 1 ELSE heard[k]]
    BY <1>1 DEF ShellInv, ShellTypes
  <1>9. /\ shell' \in [Ptys -> {"new", "running", "killed", "gone"}]
        /\ \A k \in Ptys : shell'[k] = IF k = p THEN "running" ELSE shell[k]
    BY <1>1 DEF ShellInv, ShellTypes
  <1>10. CASE stale
    <2>1. Len(tabs) + 1 \in Nat
      BY LenProperties DEF TabInv, TabTypes
    <2>2. ShellTypes'
      BY <1>2, <1>8, <1>9, <2>1 DEF ShellInv, ShellTypes
    <2> QED BY <1>2, <1>10, <2>2, StaleShells
  <1>11. CASE ~stale
    <2>0. Awaited /\ Mounted /\ ClosedShell
      BY <1>11 DEF ShellInv
    <2>1. ~Shows(tabs, p) /\ \A w \in waiting : w.pty # p
      BY <1>1, <2>0, Terms DEF Mounted, Awaited, Shows
    <2>2. closed # None => closed.term # p
      BY <1>1, <2>0, Terms DEF ClosedShell
    <2>3. ClosedShell'
      <3> SUFFICES ASSUME closed # None, closed.term # None
                   PROVE  ~Shows(tabs', closed.term) /\ shell'[closed.term] \in {"killed", "gone"}
        BY <1>2 DEF ClosedShell
      <3>1. closed.term \in Ptys /\ closed.term # p /\ ~Shows(tabs, closed.term)
        BY <2>0, <2>2, Terms DEF ClosedShell
      <3>2. ~Shows(tabs', closed.term)
        BY <1>6, <1>7, <3>1, Appended DEF Shows, TabInv, TabTypes
      <3> QED BY <1>9, <2>0, <3>1, <3>2 DEF ClosedShell
    <2> QED BY <1>2, <1>6, <1>7, <1>8, <1>9, <2>1, <2>3, AddedShell
  <1> QED BY <1>10, <1>11

LEMMA RestoredShells ==
    ASSUME TabInv, ShellInv, Restore
    PROVE  ShellInv'
  <1> DEFINE tab == [closed EXCEPT !.id = made']
             p == closed.term
  <1>1. /\ closed # None /\ closed \in Tab /\ made < MaxMade /\ made' = made + 1
        /\ closed' = None /\ tabs' = Append(tabs, tab)
        /\ heard' = [k \in Ptys |-> IF k = p THEN Len(tabs) + 1 ELSE heard[k]]
        /\ UNCHANGED <<shell, waiting, stale>>
    BY DEF Restore, TabInv, TabTypes
  <1>2. made \in 1..MaxMade
    BY DEF TabInv, TabTypes
  <1>3. made' \in 1..MaxMade
    BY <1>1, <1>2, Bounds
  <1>4. tab \in Tab /\ tab.term = p
    BY <1>1, <1>3 DEF Tab
  <1>5. p \in Ptys \union {None} /\ None \notin Ptys
    BY <1>1, Terms
  <1> HIDE DEF tab, p
  <1>6. CASE stale
    <2>1. Len(tabs) + 1 \in Nat
      BY LenProperties DEF TabInv, TabTypes
    <2>2. heard' \in [Ptys -> Nat]
      BY <1>1, <2>1 DEF ShellInv, ShellTypes
    <2>3. ShellTypes'
      BY <1>1, <2>2 DEF ShellInv, ShellTypes
    <2> QED BY <1>1, <1>6, <2>3, StaleShells
  <1>7. CASE ~stale
    <2>0. Awaited /\ ClosedShell /\ ShellTypes
      BY <1>7 DEF ShellInv
    <2>1. p \in Ptys => ~Shows(tabs, p) /\ shell[p] # "new"
      BY <1>1, <1>5, <2>0 DEF ClosedShell, p
    <2>2. \A w \in waiting : w.pty # p
      BY <1>1, <2>0 DEF Awaited, p
    <2>3. ClosedShell'
      BY <1>1 DEF ClosedShell
    <2>4. /\ shell' \in [Ptys -> {"new", "running", "killed", "gone"}]
          /\ \A k \in Ptys : shell'[k] = shell[k]
      BY <1>1, <2>0 DEF ShellTypes
    <2> QED BY <1>1, <1>4, <2>1, <2>2, <2>3, <2>4, AddedShell
  <1> QED BY <1>6, <1>7

\* No index goes stale when the tabs beyond the one that is closed have no
\* shell and none is on its way to them or to it.
LEMMA ClosedShells ==
    ASSUME TabInv, ShellInv, NEW i \in DOMAIN tabs, Close(i)
    PROVE  ShellInv'
  <1> DEFINE At(j) == IF j < i THEN j ELSE j + 1
             p == tabs[i].term
  <1>1. /\ shell' = Killed(p) /\ tabs' = RemoveAt(tabs, i) /\ closed' = tabs[i]
        /\ Unmounts(heard) /\ stale' = (stale \/ Outdates(i)) /\ UNCHANGED waiting
    BY DEF Close
  <1>2. /\ DOMAIN tabs = 1..Len(tabs) /\ Len(tabs) \in Nat
        /\ tabs \in Seq(Tab)
    BY LenProperties DEF TabInv, TabTypes
  <1>3. /\ DOMAIN tabs' = 1..(Len(tabs) - 1)
        /\ \A j \in DOMAIN tabs' : tabs'[j] = tabs[At(j)]
    <2>1. /\ DOMAIN RemoveAt(tabs, i) = 1..(Len(tabs) - 1)
          /\ \A j \in 1..(Len(tabs) - 1) :
                RemoveAt(tabs, i)[j] = IF j < i THEN tabs[j] ELSE tabs[j + 1]
      BY <1>2, Removed
    <2> QED BY <1>1, <2>1
  <1>4. p \in Ptys \union {None} /\ None \notin Ptys
    BY Terms
  <1>5. /\ shell' \in [Ptys -> {"new", "running", "killed", "gone"}]
        /\ \A k \in Ptys :
              shell'[k] = IF k = p /\ shell[k] = "running" THEN "killed" ELSE shell[k]
    BY <1>1, <1>4, KillingShell DEF ShellInv
  <1>6. /\ heard' \in [Ptys -> Nat]
        /\ \A k \in Ptys : Shows(tabs', k) => heard'[k] = heard[k]
    BY <1>1, Unmounting DEF ShellInv, ShellTypes
  <1>7. ShellTypes'
    <2>1. stale' \in BOOLEAN
      BY <1>1 DEF Outdates
    <2> QED BY <1>1, <1>5, <1>6, <2>1 DEF ShellInv, ShellTypes
  <1>8. CASE stale'
    BY <1>7, <1>8, StaleShells
  <1>9. CASE ~stale'
    <2>0. Awaited /\ Mounted /\ ClosedShell /\ ShellTypes /\ ~stale
      BY <1>1, <1>9 DEF ShellInv
    <2>1. /\ \A w \in waiting : ~(w.at >= i)
          /\ \A j \in DOMAIN tabs : tabs[j].term # None => ~(heard[tabs[j].term] > i)
      BY <1>1, <1>9 DEF Outdates, Calls
    <2>2. \A j \in DOMAIN tabs : tabs[j].term # None => heard[tabs[j].term] = j
      BY <2>0 DEF Mounted
    <2>3. \A j \in DOMAIN tabs : j > i => tabs[j].term = None
      BY <1>2, <2>1, <2>2
    <2>4. \A j \in DOMAIN tabs' :
             /\ At(j) \in DOMAIN tabs /\ At(j) # i
             /\ tabs'[j].term = tabs[At(j)].term
             /\ tabs'[j].term # None => j < i /\ At(j) = j
      BY <1>2, <1>3, <2>3
    <2>5. \A j \in DOMAIN tabs : j < i => j \in DOMAIN tabs' /\ tabs'[j].term = tabs[j].term
      BY <1>2, <1>3
    <2> HIDE DEF At
    <2>6. \A j \in DOMAIN tabs : p # None /\ tabs[j].term = p => j = i
      BY <2>2
    <2> HIDE DEF p
    <2>7. \A k \in Ptys : Shows(tabs', k) <=> Shows(tabs, k) /\ k # p
      <3> SUFFICES ASSUME NEW k \in Ptys
                   PROVE  Shows(tabs', k) <=> Shows(tabs, k) /\ k # p
        OBVIOUS
      <3>1. ASSUME NEW j \in DOMAIN tabs', tabs'[j].term = k
            PROVE  Shows(tabs, k) /\ k # p
        BY <1>4, <2>4, <2>6, <3>1 DEF Shows
      <3>2. ASSUME NEW j \in DOMAIN tabs, tabs[j].term = k, k # p
            PROVE  Shows(tabs', k)
        <4>1. j # i /\ ~(j > i)
          BY <1>4, <2>3, <3>2 DEF p
        <4>2. j < i
          BY <1>2, <4>1
        <4> QED BY <2>5, <3>2, <4>2 DEF Shows
      <3> QED BY <3>1, <3>2 DEF Shows
    <2>8. NoOrphan'
      <3> SUFFICES ASSUME NEW k \in Ptys, shell'[k] = "running"
                   PROVE  Shows(tabs', k) \/ \E w \in waiting : w.pty = k
        BY <1>1 DEF NoOrphan
      <3>1. shell[k] = "running" /\ k # p
        BY <1>5
      <3> QED BY <2>0, <2>7, <3>1 DEF ShellInv, NoOrphan
    <2>9. Awaited'
      <3> SUFFICES ASSUME NEW w \in waiting
                   PROVE  /\ w.at \in DOMAIN tabs' /\ tabs'[w.at].term = None
                          /\ shell'[w.pty] # "new" /\ ~Shows(tabs', w.pty)
                          /\ \A v \in waiting : v.at = w.at \/ v.pty = w.pty => v = w
                          /\ tabs[i] # None => tabs[i].term # w.pty
        BY <1>1 DEF Awaited
      <3>1. /\ w.at \in DOMAIN tabs /\ tabs[w.at].term = None
            /\ shell[w.pty] # "new" /\ ~Shows(tabs, w.pty) /\ w.pty \in Ptys
            /\ \A v \in waiting : v.at = w.at \/ v.pty = w.pty => v = w
        BY <2>0 DEF Awaited, ShellTypes
      <3>2. w.at < i
        BY <1>2, <2>1, <3>1
      <3> QED BY <1>5, <2>5, <2>7, <3>1, <3>2 DEF Shows
    <2>10. Mounted'
      <3> SUFFICES ASSUME NEW j \in DOMAIN tabs', tabs'[j].term # None
                   PROVE  heard'[tabs'[j].term] = j /\ shell'[tabs'[j].term] # "new"
        BY DEF Mounted
      <3>1. j \in DOMAIN tabs /\ tabs'[j].term = tabs[j].term
        BY <2>4
      <3>2. tabs[j].term \in Ptys /\ Shows(tabs', tabs[j].term)
        BY <3>1, Terms DEF Shows
      <3> QED BY <1>5, <1>6, <2>0, <3>1, <3>2 DEF Mounted
    <2>11. ClosedShell'
      <3> SUFFICES ASSUME p # None
                   PROVE  ~Shows(tabs', p) /\ shell'[p] \in {"killed", "gone"}
        BY <1>1 DEF ClosedShell, p
      <3>1. shell[p] # "new" /\ p \in Ptys
        BY <1>4, <2>0 DEF Mounted, p
      <3> QED BY <1>5, <2>0, <2>7, <3>1 DEF ShellTypes
    <2> QED BY <1>7, <2>8, <2>9, <2>10, <2>11 DEF ShellInv
  <1> QED BY <1>8, <1>9

LEMMA StepShells ==
    ASSUME TabInv, ShellInv, CloseInv, MoveTypes, Next
    PROVE  TabInv' /\ ShellInv'
  <1>0. /\ waiting \subseteq [pty : Ptys, at : Nat]
        /\ active \in DOMAIN tabs /\ active \in Nat
    BY LenProperties DEF ShellInv, ShellTypes, TabInv, TabTypes
  <1>1. CASE MoveStep
    <2>1. closed' = closed /\ UNCHANGED termVars
      BY <1>1 DEF MoveStep, NavigateTo, OpenPath, PathbarGoes, QuickFindGoes, Opened,
                  OpenFails, GoBack, GoForward, GoLeft, ToggleMark, ClearMarks, InPlace
    <2>2. TabInv' /\ TermsKept
      BY <1>1, MovingTabs
    <2> QED BY <2>1, <2>2, QuietShells
  <1>2. CASE TabStep
    BY <1>2, StepTabs, QuietShells, RestoredShells, ClosedShells
  <1>3. CASE ShellStep
    <2>0. TabInv' /\ active' \in DOMAIN tabs' /\ active' \in Nat
      <3>1. TabInv'
        BY <1>0, <1>3, ShellTabs
      <3>2. tabs' \in Seq(Tab) /\ active' \in DOMAIN tabs'
        BY <3>1 DEF TabInv, TabTypes
      <3> QED BY <3>1, <3>2, LenProperties
    <2>1. CASE StartTerm
      <3>1. /\ Here.term = None /\ Spawns(active) /\ active' = active
            /\ UNCHANGED <<tabs, made, closed, strayed>>
        BY <2>1 DEF StartTerm, moveVars
      <3>2. TermsKept
        BY <1>0, <3>1, SameTabs
      <3>3. active \in DOMAIN tabs' /\ tabs'[active].term = None /\ closed' = closed
        BY <1>0, <3>1 DEF Here
      <3> QED BY <1>0, <2>0, <3>1, <3>2, <3>3, SpawnedShells
    <2>2. ASSUME NEW t \in Tasks, StartTaskTerm(t)
          PROVE  ShellInv'
      <3>1. /\ OpenTaskTab(t) /\ tabs'[active'].term = None /\ Spawns(active')
            /\ UNCHANGED <<closed, strayed>>
        BY <2>2 DEF StartTaskTerm, moveVars
      <3>2. TermsKept
        BY <3>1, TaskTabs
      <3> QED BY <2>0, <3>1, <3>2, SpawnedShells
    <2>3. ASSUME NEW dir \in Dirs, StartResume(dir)
          PROVE  ShellInv'
      <3>1. /\ NewTab("folder", None, dir) /\ Spawns(active')
            /\ UNCHANGED <<closed, strayed>> /\ active' = Len(tabs) + 1
        BY <2>3 DEF StartResume, moveVars, NewTab
      <3>2. TermsKept
        BY <3>1, NewTabs
      <3>3. active' \notin DOMAIN tabs
        <4>1. tabs \in Seq(Tab)
          BY DEF TabInv, TabTypes
        <4>2. DOMAIN tabs = 1..Len(tabs) /\ Len(tabs) \in Nat
          BY <4>1, LenProperties
        <4> QED BY <3>1, <4>2
      <3>4. tabs'[active'].term = None
        BY <2>0, <3>2, <3>3 DEF TermsKept
      <3> QED BY <2>0, <3>1, <3>2, <3>4, SpawnedShells
    <2> QED BY <1>3, <2>0, <2>1, <2>2, <2>3, AskedShells, ClosedTermShells, SessionShells,
               ShownShells,
               FailedShells, ExitedShells DEF ShellStep
  <1> QED BY <1>1, <1>2, <1>3 DEF Next

(***************************************************************************)
(* Closing terminals.                                                      *)

\* The tabs a :term-close is about keep their shell or lose it, no other shell
\* is on its way to them, and a shell that was killed stays so.
ClosingsKept ==
    \A c \in ending \union ({asked} \ {None}) :
        /\ c.at \in DOMAIN tabs =>
              c.at \in DOMAIN tabs' /\ tabs'[c.at].term \in {tabs[c.at].term, None}
        /\ \A w \in waiting' \ waiting : w.at # c.at

ShellsGoOn ==
    \A k \in Ptys :
        /\ shell[k] # "new" => shell'[k] # "new"
        /\ shell[k] \in {"killed", "gone"} => shell'[k] \in {"killed", "gone"}

LEMMA KeptClosings ==
    ASSUME CloseInv, UNCHANGED closeVars, ~stale' => ~stale /\ ClosingsKept /\ ShellsGoOn
    PROVE  CloseInv'
  <1>1. ending' = ending /\ asked' = asked
    BY DEF closeVars
  <1>2. \A c \in ending \union ({asked} \ {None}) : c.pty \in Ptys
    BY DEF CloseInv, Call
  <1>3. ASSUME ~stale'
        PROVE  Closing'
    <2>1. Closing /\ ClosingsKept /\ ShellsGoOn
      BY <1>3 DEF CloseInv
    <2>2. \A c \in ending : shell'[c.pty] \in {"killed", "gone"}
      BY <1>2, <2>1 DEF Closing, ShellsGoOn
    <2>3. ASSUME NEW c \in ending \union ({asked} \ {None})
          PROVE  /\ c.at \in DOMAIN tabs' /\ tabs'[c.at].term \in {c.pty, None}
                 /\ shell'[c.pty] # "new"
                 /\ \A w \in waiting' : w.at # c.at
      BY <1>2, <2>1 DEF Closing, ClosingsKept, ShellsGoOn
    <2> QED BY <1>1, <2>2, <2>3 DEF Closing
  <1> QED BY <1>1, <1>3 DEF CloseInv

LEMMA TermsKeptClosings ==
    ASSUME ShellInv, CloseInv, TermsKept, UNCHANGED termVars
    PROVE  CloseInv'
  <1>1. UNCHANGED <<closeVars, stale, waiting, shell>>
    BY DEF termVars
  <1>2. \A i \in DOMAIN tabs : i \in DOMAIN tabs' /\ tabs'[i].term = tabs[i].term
    BY DEF TermsKept
  <1>3. ClosingsKept /\ ShellsGoOn
    BY <1>1, <1>2 DEF ClosingsKept, ShellsGoOn
  <1> QED BY <1>1, <1>3, KeptClosings

LEMMA SpawnedClosings ==
    ASSUME ShellInv, CloseInv, TermsKept, NEW i, Spawns(i)
    PROVE  CloseInv'
  <1>1. PICK p \in Ptys :
           /\ shell[p] = "new"
           /\ shell' = [shell EXCEPT ![p] = "running"]
           /\ waiting' = waiting \union {[pty |-> p, at |-> i]}
           /\ stale' = (stale \/ \E c \in Calls : c.at = i)
           /\ UNCHANGED closeVars
    BY DEF Spawns
  <1>2. \A j \in DOMAIN tabs : j \in DOMAIN tabs' /\ tabs'[j].term = tabs[j].term
    BY DEF TermsKept
  <1>3. ~stale' => \A c \in ending \union ({asked} \ {None}) : c.at # i
    BY <1>1 DEF Calls
  <1>4. \A k \in Ptys : shell'[k] = IF k = p THEN "running" ELSE shell[k]
    BY <1>1 DEF ShellInv, ShellTypes
  <1>5. ~stale' => ClosingsKept
    BY <1>1, <1>2, <1>3 DEF ClosingsKept
  <1>6. ShellsGoOn
    BY <1>1, <1>4 DEF ShellsGoOn
  <1> QED BY <1>1, <1>5, <1>6, KeptClosings

\* A tab is put last.
LEMMA AddedClosings ==
    ASSUME TabInv, ShellInv, CloseInv, NEW tab \in Tab, tabs' = Append(tabs, tab),
           UNCHANGED <<closeVars, stale, waiting>>, ShellsGoOn
    PROVE  CloseInv'
  <1>1. \A i \in DOMAIN tabs : i \in DOMAIN tabs' /\ tabs'[i] = tabs[i]
    BY Appended DEF TabInv, TabTypes
  <1>2. ClosingsKept
    BY <1>1 DEF ClosingsKept
  <1> QED BY <1>2, KeptClosings

LEMMA RestoredClosings ==
    ASSUME TabInv, ShellInv, CloseInv, Restore
    PROVE  CloseInv'
  <1> DEFINE tab == [closed EXCEPT !.id = made']
  <1>1. closed \in Tab /\ made \in 1..MaxMade /\ made < MaxMade /\ made' = made + 1
    BY DEF Restore, TabInv, TabTypes
  <1>2. made' \in 1..MaxMade
    BY <1>1, Bounds
  <1>3. tab \in Tab
    BY <1>1, <1>2 DEF Tab
  <1>4. tabs' = Append(tabs, tab) /\ UNCHANGED <<closeVars, stale, waiting, shell>>
    BY DEF Restore
  <1>5. ShellsGoOn
    BY <1>4 DEF ShellsGoOn
  <1> HIDE DEF tab
  <1> QED BY <1>3, <1>4, <1>5, AddedClosings

LEMMA SessionClosings ==
    ASSUME TabInv, ShellInv, CloseInv, NEW dir \in Dirs, SessionStarts(dir)
    PROVE  CloseInv'
  <1>1. PICK p \in Ptys :
           /\ shell[p] = "new" /\ shell' = [shell EXCEPT ![p] = "running"]
           /\ made < MaxMade /\ made' = made + 1
           /\ tabs' = Append(tabs, [makeTab(made', "folder", None, dir) EXCEPT !.term = p])
    BY DEF SessionStarts
  <1> DEFINE new == makeTab(made', "folder", None, dir)
             tab == [new EXCEPT !.term = p]
  <1>0. made \in 1..MaxMade
    BY DEF TabInv, TabTypes
  <1>2. made' \in 1..MaxMade
    BY <1>0, <1>1, Bounds
  <1>3. new \in Tab
    BY <1>2, MadeTab
  <1>4. tabs' = Append(tabs, tab)
    BY <1>1
  <1> HIDE DEF new
  <1>5. tab \in Tab
    BY <1>3, WithShell
  <1> HIDE DEF tab
  <1>6. UNCHANGED <<closeVars, stale, waiting>>
    BY DEF SessionStarts
  <1>7. ShellsGoOn
    BY <1>1 DEF ShellInv, ShellTypes, ShellsGoOn
  <1> QED BY <1>4, <1>5, <1>6, <1>7, AddedClosings

\* The tabs beyond the one that is closed are none of a :term-close.
LEMMA ClosedClosings ==
    ASSUME TabInv, ShellInv, CloseInv, NEW i \in DOMAIN tabs, Close(i)
    PROVE  CloseInv'
  <1>1. /\ shell' = Killed(tabs[i].term) /\ tabs' = RemoveAt(tabs, i)
        /\ stale' = (stale \/ Outdates(i)) /\ UNCHANGED <<waiting, closeVars>>
    BY DEF Close
  <1>2. /\ DOMAIN tabs = 1..Len(tabs) /\ Len(tabs) \in Nat
        /\ tabs \in Seq(Tab)
    BY LenProperties DEF TabInv, TabTypes
  <1>3. /\ DOMAIN tabs' = 1..(Len(tabs) - 1)
        /\ \A j \in DOMAIN tabs' : tabs'[j] = IF j < i THEN tabs[j] ELSE tabs[j + 1]
    BY <1>1, <1>2, Removed
  <1>4. \A k \in Ptys : shell'[k] = IF k = tabs[i].term /\ shell[k] = "running"
                                   THEN "killed" ELSE shell[k]
    BY <1>1, KillingShell, Terms DEF ShellInv
  <1>5. ASSUME ~stale', NEW c \in ending \union ({asked} \ {None}), c.at \in DOMAIN tabs
        PROVE  c.at \in DOMAIN tabs' /\ tabs'[c.at] = tabs[c.at]
    <2>1. ~(c.at >= i)
      BY <1>1, <1>5 DEF Outdates, Calls
    <2>2. c.at < i
      BY <1>2, <1>5, <2>1
    <2>3. c.at \in 1..(Len(tabs) - 1)
      BY <1>2, <1>5, <2>2
    <2> QED BY <1>3, <2>2, <2>3
  <1>6. ~stale' => ClosingsKept
    BY <1>1, <1>5 DEF ClosingsKept
  <1>7. ShellsGoOn
    BY <1>4 DEF ShellsGoOn
  <1> QED BY <1>1, <1>6, <1>7, KeptClosings

\* A shell gets into its tab, fails to start or ends.
LEMMA ShownClosings ==
    ASSUME TabInv, ShellInv, CloseInv, NEW w \in waiting, Spawned(w)
    PROVE  CloseInv'
  <1>1. waiting' = waiting \ {w} /\ UNCHANGED <<shell, stale, closeVars>>
    BY DEF Spawned
  <1>2. \A i \in DOMAIN tabs : i # w.at => i \in DOMAIN tabs' /\ tabs'[i] = tabs[i]
    BY DEF Spawned, OpenTerminal, Update
  <1>3. ~stale => \A c \in ending \union ({asked} \ {None}) : w.at # c.at
    BY DEF CloseInv, Closing
  <1>4. ~stale => ClosingsKept
    BY <1>1, <1>2, <1>3 DEF ClosingsKept
  <1>5. ShellsGoOn
    BY <1>1 DEF ShellsGoOn
  <1> QED BY <1>1, <1>4, <1>5, KeptClosings

LEMMA FailedClosings ==
    ASSUME TabInv, ShellInv, CloseInv, NEW w \in waiting, SpawnFails(w)
    PROVE  CloseInv'
  <1>1. /\ waiting' = waiting \ {w} /\ UNCHANGED <<tabs, stale, closeVars>>
        /\ shell' = [shell EXCEPT ![w.pty] = "gone"]
    BY DEF SpawnFails
  <1>2. \A k \in Ptys : shell'[k] \in {shell[k], "gone"}
    BY <1>1 DEF ShellInv, ShellTypes
  <1>3. ClosingsKept /\ ShellsGoOn
    BY <1>1, <1>2 DEF ClosingsKept, ShellsGoOn
  <1> QED BY <1>1, <1>3, KeptClosings

LEMMA Dropped ==
    ASSUME TabInv, NEW i, tabs' = WithoutTerm(tabs, i)
    PROVE  \A j \in DOMAIN tabs : j \in DOMAIN tabs' /\ tabs'[j].term \in {tabs[j].term, None}
  <1>1. CASE i \in DOMAIN tabs
    BY <1>1, ClearedTerm
  <1>2. CASE i \notin DOMAIN tabs
    BY <1>2 DEF WithoutTerm
  <1> QED BY <1>1, <1>2

LEMMA ExitedClosings ==
    ASSUME TabInv, ShellInv, CloseInv, NEW p \in Ptys, Exits(p)
    PROVE  CloseInv'
  <1>1. /\ UNCHANGED <<waiting, stale, closeVars>> /\ shell' = [shell EXCEPT ![p] = "gone"]
        /\ tabs' = IF Shows(tabs, p) THEN WithoutTerm(tabs, heard[p]) ELSE tabs
    BY DEF Exits
  <1>2. \A j \in DOMAIN tabs : j \in DOMAIN tabs' /\ tabs'[j].term \in {tabs[j].term, None}
    BY <1>1, Dropped
  <1>3. \A k \in Ptys : shell'[k] \in {shell[k], "gone"}
    BY <1>1 DEF ShellInv, ShellTypes
  <1>4. ClosingsKept /\ ShellsGoOn
    BY <1>1, <1>2, <1>3 DEF ClosingsKept, ShellsGoOn
  <1> QED BY <1>1, <1>4, KeptClosings

\* The tab a :term-close is asked for has its shell, and none is on its way.
LEMMA AskedClosings ==
    ASSUME TabInv, ShellInv, CloseInv, AskCloseTerm
    PROVE  CloseInv'
  <1> DEFINE c == [pty |-> Here.term, at |-> active]
  <1>1. /\ Here.term # None /\ asked' = c
        /\ UNCHANGED <<tabs, shell, waiting, stale, ending>>
    BY DEF AskCloseTerm
  <1>2. active \in DOMAIN tabs /\ tabs[active].term = Here.term /\ Here.term \in Ptys
    BY <1>1, Terms DEF TabInv, TabTypes, Here
  <1>3. active \in Nat
    BY <1>2, LenProperties DEF TabInv, TabTypes
  <1>4. c \in Call
    BY <1>2, <1>3 DEF Call
  <1>5. ASSUME ~stale
        PROVE  Closing'
    <2>1. /\ shell[Here.term] # "new" /\ \A w \in waiting : w.at # active
          /\ None \notin Ptys
      BY <1>1, <1>2, <1>5, Terms DEF ShellInv, Mounted, Awaited
    <2>2. /\ c.at = active /\ c.pty = Here.term
      OBVIOUS
    <2> HIDE DEF c
    <2> QED BY <1>1, <1>2, <1>5, <2>1, <2>2 DEF CloseInv, Closing
  <1> HIDE DEF c
  <1> QED BY <1>1, <1>4, <1>5 DEF CloseInv

LEMMA ConfirmedClosings ==
    ASSUME TabInv, ShellInv, CloseInv, ConfirmCloseTerm
    PROVE  CloseInv'
  <1>1. /\ asked # None /\ shell' = Killed(asked.pty)
        /\ ending' = ending \union {asked} /\ asked' = None
        /\ UNCHANGED <<tabs, waiting, stale>>
    BY DEF ConfirmCloseTerm
  <1>2. asked \in Call /\ asked.pty \in Ptys
    BY <1>1 DEF CloseInv, Call
  <1>3. \A k \in Ptys : shell'[k] = IF k = asked.pty /\ shell[k] = "running"
                                   THEN "killed" ELSE shell[k]
    BY <1>1, <1>2, KillingShell, Terms DEF ShellInv
  <1>4. ASSUME ~stale
        PROVE  Closing'
    <2>1. \A c \in ending : c.pty \in Ptys
      BY DEF CloseInv, Call
    <2>2. shell'[asked.pty] \in {"killed", "gone"}
      BY <1>1, <1>2, <1>3, <1>4 DEF CloseInv, Closing, ShellInv, ShellTypes
    <2>3. \A c \in ending : shell'[c.pty] \in {"killed", "gone"}
      BY <1>3, <1>4, <2>1 DEF CloseInv, Closing
    <2>4. ending' \union ({asked'} \ {None}) = ending \union ({asked} \ {None})
      BY <1>1
    <2> QED BY <1>1, <1>4, <2>2, <2>3, <2>4 DEF CloseInv, Closing
  <1> QED BY <1>1, <1>2, <1>4 DEF CloseInv

LEMMA KilledClosings ==
    ASSUME TabInv, ShellInv, CloseInv, NEW c \in ending, TermKilled(c)
    PROVE  CloseInv'
  <1>1. /\ ending' \subseteq ending /\ tabs' = WithoutTerm(tabs, c.at)
        /\ UNCHANGED <<asked, shell, waiting, stale>>
    BY DEF TermKilled
  <1>2. \A j \in DOMAIN tabs : j \in DOMAIN tabs' /\ tabs'[j].term \in {tabs[j].term, None}
    BY <1>1, Dropped
  <1>3. ~stale => Closing'
    BY <1>1, <1>2 DEF CloseInv, Closing
  <1> QED BY <1>1, <1>3 DEF CloseInv

LEMMA StepCloses ==
    ASSUME TabInv, ShellInv, CloseInv, MoveTypes, Next
    PROVE  CloseInv'
  <1>0. active \in DOMAIN tabs
    BY DEF TabInv, TabTypes
  <1>1. CASE MoveStep
    <2>1. UNCHANGED termVars
      BY <1>1 DEF MoveStep, NavigateTo, OpenPath, PathbarGoes, QuickFindGoes, Opened,
                  OpenFails, GoBack, GoForward, GoLeft, ToggleMark, ClearMarks, InPlace
    <2>2. TermsKept
      BY <1>1, MovingTabs
    <2> QED BY <2>1, <2>2, TermsKeptClosings
  <1>2. CASE TabStep
    BY <1>2, StepTabs, TermsKeptClosings, RestoredClosings, ClosedClosings
  <1>3. CASE StartTerm
    <2>1. Spawns(active) /\ UNCHANGED <<tabs, active, made, closed, strayed>>
      BY <1>3 DEF StartTerm, moveVars
    <2>2. TermsKept
      BY <1>0, <2>1, SameTabs
    <2> QED BY <2>1, <2>2, SpawnedClosings
  <1>4. ASSUME NEW t \in Tasks, StartTaskTerm(t)
        PROVE  CloseInv'
    <2>1. OpenTaskTab(t) /\ Spawns(active') /\ UNCHANGED <<closed, strayed>>
      BY <1>4 DEF StartTaskTerm, moveVars
    <2>2. TermsKept
      BY <2>1, TaskTabs
    <2> QED BY <2>1, <2>2, SpawnedClosings
  <1>5. ASSUME NEW dir \in Dirs, StartResume(dir)
        PROVE  CloseInv'
    <2>1. NewTab("folder", None, dir) /\ Spawns(active') /\ UNCHANGED <<closed, strayed>>
      BY <1>5 DEF StartResume, moveVars
    <2>2. TermsKept
      BY <2>1, NewTabs
    <2> QED BY <2>1, <2>2, SpawnedClosings
  <1>6. CASE CancelCloseTerm
    <2>1. asked' = None /\ UNCHANGED <<tabs, shell, waiting, stale, ending>>
      BY <1>6 DEF CancelCloseTerm
    <2>2. ~stale => Closing'
      BY <2>1 DEF CloseInv, Closing
    <2> QED BY <2>1, <2>2 DEF CloseInv
  <1> QED BY <1>1, <1>2, <1>3, <1>4, <1>5, <1>6, AskedClosings, ConfirmedClosings,
             KilledClosings, ShownClosings, FailedClosings, ExitedClosings, SessionClosings
          DEF Next, ShellStep

LEMMA StepMoves ==
    ASSUME TabInv, MoveTypes, Next
    PROVE  MoveTypes'
  <1>1. ASSUME Moves PROVE moves' \in 0..MaxMoves
    BY <1>1, TabsAssumption DEF Moves, MoveTypes
  <1>2. CASE MoveStep
    <2>1. moves' = moves \/ Moves
      BY <1>2 DEF MoveStep, NavigateTo, OpenPath, PathbarGoes, QuickFindGoes, Opened,
                  OpenFails, GoBack, GoForward, GoLeft, ToggleMark, ClearMarks, InPlace, moveVars
    <2>2. opening' \subseteq Dirs
      BY <1>2 DEF MoveTypes, MoveStep, NavigateTo, OpenPath, PathbarGoes, QuickFindGoes,
                  Opened, OpenFails, GoBack, GoForward, GoLeft, ToggleMark, ClearMarks,
                  InPlace, moveVars
    <2> QED BY <1>1, <2>1, <2>2 DEF MoveTypes
  <1>3. CASE TabStep
    BY <1>3 DEF MoveTypes, TabStep, OpenFolder, OpenHome, OpenTask, Restore, Select, Close,
       moveVars
  <1>4. CASE ShellStep
    BY <1>4 DEF MoveTypes, ShellStep, StartTerm, StartTaskTerm, StartResume, Spawned,
       SpawnFails, SessionStarts, Exits, AskCloseTerm, CancelCloseTerm, ConfirmCloseTerm,
       TermKilled, moveVars
  <1> QED BY <1>2, <1>3, <1>4 DEF Next

Inv == TabInv /\ ShellInv /\ CloseInv /\ MoveTypes

LEMMA InitInv == Init => Inv
  <1> SUFFICES ASSUME Init PROVE Inv
    OBVIOUS
  <1>1. PICK kind \in {"newhome", "folder"}, dir \in Dirs :
           tabs = <<makeTab(1, kind, None, dir)>>
    BY DEF Init
  <1>2. DOMAIN tabs = {1} /\ tabs[1].term = None
    BY <1>1 DEF makeTab
  <1>3. ShellInv
    BY <1>2 DEF Init, ShellInv, ShellTypes, NoOrphan, Awaited, Mounted, ClosedShell
  <1>4. MoveTypes
    BY TabsAssumption DEF Init, MoveTypes
  <1>5. CloseInv
    BY DEF Init, CloseInv, Closing
  <1> QED BY <1>3, <1>4, <1>5, InitTabs DEF Inv

LEMMA StepInv == Inv /\ [Next]_vars => Inv'
  <1>1. CASE Next
    BY <1>1, StepShells, StepCloses, StepMoves DEF Inv
  <1>2. ASSUME Inv, UNCHANGED vars PROVE Inv'
    <2>1. TabInv' /\ TermsKept
      BY <1>2, SameTabs DEF Inv, vars, moveVars, TabInv, TabTypes
    <2>2. ShellInv' /\ CloseInv'
      BY <1>2, <2>1, QuietShells, TermsKeptClosings DEF Inv, vars
    <2>3. MoveTypes'
      BY <1>2 DEF Inv, MoveTypes, vars, moveVars
    <2> QED BY <2>1, <2>2, <2>3 DEF Inv
  <1> QED BY <1>1, <1>2

LEMMA AlwaysInv == Spec => []Inv
  BY InitInv, StepInv, PTL DEF Spec

-----------------------------------------------------------------------------
(* Every state is made of what TabsTypeOK lists, whatever indices the      *)
(* handlers captured (store.tsx reducer, TerminalSplit.tsx).               *)
THEOREM TabsAreTyped == Spec => []TabsTypeOK
  <1>1. Inv => TabsTypeOK
    BY DEF Inv, TabInv, TabTypes, TabsKnown, Trails, ShellInv, ShellTypes, CloseInv,
       MoveTypes, Call, TabsTypeOK
  <1> QED BY <1>1, AlwaysInv, PTL

(* As long as no captured index went stale, a running shell is in a tab or *)
(* on its way into one, however tabs are opened, closed and restored and   *)
(* terminals closed behind a dialog (Tabbar.tsx closeTab, App.tsx          *)
(* spawnTerminal, Terminal.tsx onExit, ChipPrompt.tsx term-close).         *)
THEOREM NoShellIsOrphaned == Spec => []NoOrphan
  <1>1. Inv => NoOrphan
    BY DEF Inv, ShellInv
  <1> QED BY <1>1, AlwaysInv, PTL

(* The entries marked in a tab are in the directory it shows, through      *)
(* history, restored tabs and late stats, unless the path bar or the quick *)
(* find moved it with entries marked (store.tsx navigateTo, goBack,        *)
(* goForward, restoreTab).                                                 *)
THEOREM MarksStayInView == Spec => []MarksInView
  <1>1. Inv => MarksInView
    BY DEF Inv, TabInv
  <1> QED BY <1>1, AlwaysInv, PTL

=============================================================================
