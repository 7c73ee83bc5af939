------------------------ MODULE HeartbeatHistory_proofs ------------------------
(***************************************************************************)
(* The window for every size.  Three invariants: RecentInOrder, to which   *)
(* is added that a full window ends with the newest sample (Latest), as    *)
(* add_interval drops from a full window only and would otherwise skip two *)
(* samples in a row; the types with the sums, which every operation makes  *)
(* anew or copies (Summed); and the shapes, from which histories that      *)
(* compare equal still do.  What the loop of the sums computes is shown by *)
(* induction, as a fact about sets of natural numbers (Induction).         *)
(***************************************************************************)
EXTENDS HeartbeatHistory, WellFoundedInduction, TLAPS

Latest(this, last) ==
    this.count = this.size => this.intervals[this.count].sample = last

\* A history, whatever its sums.
Fields == {"size", "count", "intervals", "sum", "squares"}
Shape(this) ==
    /\ DOMAIN this = Fields
    /\ this.size \in Nat \ {0}
    /\ this.count \in 0 .. this.size
    /\ this.intervals \in [1 .. this.size -> [length : Int, sample : Nat]]

Window(this, last) ==
    /\ Shape(this)
    /\ Ordered(this)
    /\ Newest(this, last)
    /\ Filled(this, last)
    /\ Latest(this, last)

Inv == /\ DOMAIN history = Histories
       /\ adds \in [Histories -> Nat]
       /\ \A h \in Histories : Window(history[h], adds[h])
-----------------------------------------------------------------------------
\* What a change of some fields leaves of a history.
LEMMA ChangeIntervals ==
    ASSUME NEW this, DOMAIN this = Fields, NEW x
    PROVE  LET new == [this EXCEPT !.intervals = x]
           IN  /\ DOMAIN new = Fields /\ new.size = this.size /\ new.count = this.count
               /\ new.intervals = x
BY DEF Fields

LEMMA ChangeBoth ==
    ASSUME NEW this, DOMAIN this = Fields, NEW x, NEW c
    PROVE  LET new == [this EXCEPT !.intervals = x, !.count = c]
           IN  /\ DOMAIN new = Fields /\ new.size = this.size /\ new.count = c
               /\ new.intervals = x
BY DEF Fields

LEMMA ChangeSlot ==
    ASSUME NEW this, DOMAIN this = Fields, NEW k, NEW x
    PROVE  LET new == [this EXCEPT !.intervals[k] = x]
           IN  /\ DOMAIN new = Fields /\ new.size = this.size /\ new.count = this.count
               /\ new.intervals = [this.intervals EXCEPT ![k] = x]
BY DEF Fields

LEMMA AddSlot ==
    ASSUME NEW this, DOMAIN this = Fields, NEW k, NEW x, NEW c
    PROVE  LET new == [this EXCEPT !.intervals[k] = x, !.count = c]
           IN  /\ DOMAIN new = Fields /\ new.size = this.size /\ new.count = c
               /\ new.intervals = [this.intervals EXCEPT ![k] = x]
BY DEF Fields

LEMMA ChangeSums ==
    ASSUME NEW this, DOMAIN this = Fields, NEW s, NEW q
    PROVE  LET new == [this EXCEPT !.sum = s, !.squares = q]
           IN  /\ DOMAIN new = Fields /\ new.size = this.size /\ new.count = this.count
               /\ new.intervals = this.intervals
BY DEF Fields

\* What the window says does not depend on the sums.
LEMMA SumUpWindow ==
    ASSUME NEW this, NEW last \in Nat, Window(this, last)
    PROVE  Window(SumUp(this), last)
<1> DEFINE new == SumUp(this)
<1>1. DOMAIN this = Fields
  BY DEF Window, Shape
<1>2. DOMAIN new = Fields /\ new.size = this.size /\ new.count = this.count
      /\ new.intervals = this.intervals
  BY <1>1, ChangeSums DEF SumUp
<1> HIDE DEF new
<1>3. Shape(new)
  BY <1>2 DEF Window, Shape
<1>4. Window(new, last)
  BY <1>2, <1>3 DEF Window, Ordered, Newest, Filled, Latest
<1> QED
  BY <1>4 DEF new

LEMMA DropOldestShape ==
    ASSUME NEW this, Shape(this), this.count = this.size
    PROVE  LET new == DropOldest(this)
           IN  /\ Shape(new)
               /\ new.size = this.size /\ new.count = this.count - 1
               /\ \A i \in 1 .. this.size :
                      new.intervals[i] = this.intervals[IF i < this.size THEN i + 1 ELSE i]
<1> DEFINE new == DropOldest(this)
           moved == [i \in 1 .. this.size |-> this.intervals[IF i < this.size THEN i + 1 ELSE i]]
<1>1. this.count # 0
  BY DEF Shape
<1>2. new = [this EXCEPT !.intervals = moved, !.count = this.count - 1]
  BY <1>1 DEF DropOldest
<1>3. DOMAIN this = Fields
  BY DEF Shape
<1>4. DOMAIN new = Fields /\ new.size = this.size /\ new.count = this.count - 1
      /\ new.intervals = moved
  BY <1>2, <1>3, ChangeBoth
<1>5. moved \in [1 .. this.size -> [length : Int, sample : Nat]]
  BY DEF Shape
<1>6. new.count \in 0 .. new.size
  BY <1>1, <1>4 DEF Shape
<1>7. Shape(new)
  BY <1>4, <1>5, <1>6 DEF Shape
<1> QED
  BY <1>4, <1>7

LEMMA AddWindow ==
    ASSUME NEW this, NEW last \in Nat, Window(this, last), NEW length \in Nat
    PROVE  Window(AddInterval(this, [length |-> length, sample |-> last + 1]), last + 1)
<1> DEFINE new == [length |-> length, sample |-> last + 1]
<1>1. new \in [length : Int, sample : Nat] /\ new.sample = last + 1
  OBVIOUS
<1> HIDE DEF new
<1>2. CASE this.count < this.size
  <2> DEFINE k == this.count + 1
             res == [this EXCEPT !.intervals[k] = new, !.count = k]
  <2>1. k \in 1 .. this.size
    BY <1>2 DEF Window, Shape
  <2>2. DOMAIN this = Fields
    BY DEF Window, Shape
  <2>3. DOMAIN res = Fields /\ res.size = this.size /\ res.count = k
        /\ res.intervals = [this.intervals EXCEPT ![k] = new]
    BY <2>2, AddSlot
  <2>4. Shape(res)
    BY <1>1, <2>1, <2>3 DEF Window, Shape
  <2>5. res.intervals[k] = new /\ \A i \in 1 .. this.count : res.intervals[i] = this.intervals[i]
    BY <2>1, <2>3 DEF Window, Shape
  <2> HIDE DEF res
  <2>6. Ordered(res)
    <3>1. SUFFICES ASSUME NEW i \in 1 .. this.count
                   PROVE  /\ res.intervals[i].sample < res.intervals[i + 1].sample
                          /\ res.intervals[i + 1].sample <= res.intervals[i].sample + 2
      BY <2>3 DEF Ordered, Window, Shape
    <3>2. CASE i = this.count
      <4>1. this.count > 0 /\ this.intervals[i].sample \in Nat
        BY <3>2 DEF Window, Shape
      <4>2. last - this.intervals[i].sample \in 0 .. 1
        BY <3>2, <4>1 DEF Window, Newest
      <4> QED
        BY <3>2, <4>1, <4>2, <2>5, <1>1
    <3>3. CASE i # this.count
      <4>1. i \in 1 .. this.count - 1 /\ i + 1 \in 1 .. this.count
        BY <3>3 DEF Window, Shape
      <4> QED
        BY <4>1, <2>5 DEF Window, Ordered
    <3> QED
      BY <3>2, <3>3
  <2>7. Newest(res, last + 1) /\ Latest(res, last + 1)
    BY <1>1, <2>3, <2>5 DEF Newest, Latest
  <2>8. Filled(res, last + 1)
    BY <1>2, <2>3 DEF Window, Filled, Shape
  <2>9. Window(SumUp(res), last + 1)
    BY <2>4, <2>6, <2>7, <2>8, SumUpWindow DEF Window
  <2> QED
    BY <1>2, <2>9 DEF AddInterval, res, new
<1>3. CASE ~(this.count < this.size)
  <2> DEFINE old == DropOldest(this)
             n == this.size
             res == [old EXCEPT !.intervals[n] = new]
  <2>1. this.count = n /\ n \in Nat \ {0}
    BY <1>3 DEF Window, Shape
  <2>2. /\ Shape(old) /\ old.size = n /\ old.count = n - 1
        /\ \A i \in 1 .. n - 1 : old.intervals[i] = this.intervals[i + 1]
    BY <2>1, DropOldestShape DEF Window
  <2> HIDE DEF old
  <2>3. DOMAIN old = Fields
    BY <2>2 DEF Shape
  <2>4. DOMAIN res = Fields /\ res.size = n /\ res.count = n - 1
        /\ res.intervals = [old.intervals EXCEPT ![n] = new]
    BY <2>2, <2>3, ChangeSlot
  <2>5. Shape(res)
    BY <1>1, <2>1, <2>2, <2>4 DEF Shape
  <2>6. \A i \in 1 .. n - 1 : res.intervals[i] = this.intervals[i + 1]
    BY <2>1, <2>2, <2>4 DEF Shape
  <2> HIDE DEF res
  <2>7. Ordered(res)
    <3>1. SUFFICES ASSUME NEW i \in 1 .. n - 2
                   PROVE  /\ res.intervals[i].sample < res.intervals[i + 1].sample
                          /\ res.intervals[i + 1].sample <= res.intervals[i].sample + 2
      BY <2>1, <2>4 DEF Ordered
    <3>2. /\ i \in 1 .. n - 1 /\ i + 1 \in 1 .. n - 1
          /\ res.intervals[i] = this.intervals[i + 1]
          /\ res.intervals[i + 1] = this.intervals[(i + 1) + 1]
      BY <2>1, <2>6
    <3> QED
      BY <3>2, <2>1 DEF Window, Ordered
  <2>8. Newest(res, last + 1)
    <3>1. ASSUME n - 1 > 0
          PROVE  (last + 1) - res.intervals[n - 1].sample \in 0 .. 1
      <4>1. res.intervals[n - 1] = this.intervals[n]
        BY <2>1, <2>6, <3>1
      <4>2. this.intervals[n].sample = last
        BY <2>1 DEF Window, Latest
      <4> QED
        BY <4>1, <4>2
    <3> QED
      BY <2>4, <3>1 DEF Newest
  <2>9. Filled(res, last + 1) /\ Latest(res, last + 1)
    BY <2>1, <2>4 DEF Filled, Latest
  <2>10. Window(SumUp(res), last + 1)
    BY <2>5, <2>7, <2>8, <2>9, SumUpWindow DEF Window
  <2> QED
    BY <1>3, <2>10 DEF AddInterval, res, old, new
<1> QED
  BY <1>2, <1>3

LEMMA ScaleInt ==
    ASSUME NEW length \in Int, NEW missed \in Nat
    PROVE  Scale(length, missed) \in Int
<1>1. Percent(missed) \in Int
  BY DEF Percent
<1>2. length * Percent(missed) \in Int
  BY <1>1
<1> HIDE DEF Percent
<1>3. (length * Percent(missed)) \div 100 \in Int
  BY <1>2
<1> QED
  BY <1>3 DEF Scale

LEMMA AdjustWindow ==
    ASSUME NEW this, NEW last \in Nat, Window(this, last), NEW missed \in Nat
    PROVE  Window(AdjustIntervals(this, missed), last)
<1> DEFINE slots == [i \in 1 .. this.size |->
               IF i <= this.count THEN [this.intervals[i] EXCEPT !.length = Scale(@, missed)]
               ELSE this.intervals[i]]
           res == [this EXCEPT !.intervals = slots]
<1>1. \A i \in 1 .. this.size : /\ slots[i] \in [length : Int, sample : Nat]
                                /\ slots[i].sample = this.intervals[i].sample
  <2>1. SUFFICES ASSUME NEW i \in 1 .. this.size
                 PROVE  /\ slots[i] \in [length : Int, sample : Nat]
                        /\ slots[i].sample = this.intervals[i].sample
    OBVIOUS
  <2>2. this.intervals[i] \in [length : Int, sample : Nat]
    BY DEF Window, Shape
  <2>3. Scale(this.intervals[i].length, missed) \in Int
    BY <2>2, ScaleInt
  <2>4. CASE i <= this.count
    <3>1. slots[i] = [this.intervals[i] EXCEPT !.length = Scale(this.intervals[i].length, missed)]
      BY <2>4
    <3> QED
      BY <3>1, <2>2, <2>3
  <2>5. CASE ~(i <= this.count)
    BY <2>2, <2>5
  <2> QED
    BY <2>4, <2>5
<1>2. slots \in [1 .. this.size -> [length : Int, sample : Nat]]
  BY <1>1
<1> HIDE DEF slots
<1>3. DOMAIN this = Fields
  BY DEF Window, Shape
<1>4. DOMAIN res = Fields /\ res.size = this.size /\ res.count = this.count
      /\ res.intervals = slots
  BY <1>3, ChangeIntervals
<1>5. Shape(res)
  BY <1>2, <1>4 DEF Window, Shape
<1> HIDE DEF res
<1>6. \A i \in 1 .. this.size : res.intervals[i].sample = this.intervals[i].sample
  BY <1>1, <1>4
<1>7. this.size \in Nat /\ this.count \in Nat /\ this.count <= this.size
  BY DEF Window, Shape
<1>8. Ordered(res)
  <2>1. SUFFICES ASSUME NEW i \in 1 .. this.count - 1
                 PROVE  /\ res.intervals[i].sample < res.intervals[i + 1].sample
                        /\ res.intervals[i + 1].sample <= res.intervals[i].sample + 2
    BY <1>4 DEF Ordered
  <2>2. i \in 1 .. this.size /\ i + 1 \in 1 .. this.size
    BY <1>7
  <2> QED
    BY <2>2, <1>6 DEF Window, Ordered
<1>9. Newest(res, last) /\ Latest(res, last) /\ Filled(res, last)
  BY <1>4, <1>6, <1>7 DEF Window, Newest, Latest, Filled, Shape
<1>10. Window(SumUp(res), last)
  BY <1>5, <1>8, <1>9, SumUpWindow DEF Window
<1> QED
  BY <1>10 DEF AdjustIntervals, res, slots

LEMMA UpdateWindow ==
    ASSUME NEW first, Shape(first), NEW this, NEW last \in Nat, Window(this, last)
    PROVE  Window(UpdateHistory(first, this), last)
<1> DEFINE slots == [i \in 1 .. this.size |->
               IF i <= this.count THEN this.intervals[i]
               ELSE IF first.size = this.size THEN first.intervals[i]
               ELSE NoInterval]
           res == [this EXCEPT !.intervals = slots]
<1>1. NoInterval \in [length : Int, sample : Nat]
  BY DEF NoInterval
<1>2. slots \in [1 .. this.size -> [length : Int, sample : Nat]]
  BY <1>1 DEF Window, Shape
<1>3. this.size \in Nat /\ this.count \in Nat /\ this.count <= this.size
  BY DEF Window, Shape
<1>4. \A i \in 1 .. this.count : slots[i] = this.intervals[i]
  BY <1>3
<1> HIDE DEF slots
<1>5. DOMAIN this = Fields
  BY DEF Window, Shape
<1>6. DOMAIN res = Fields /\ res.size = this.size /\ res.count = this.count
      /\ res.intervals = slots
  BY <1>5, ChangeIntervals
<1>7. Shape(res)
  BY <1>2, <1>6 DEF Window, Shape
<1> HIDE DEF res
<1>8. Ordered(res)
  <2>1. SUFFICES ASSUME NEW i \in 1 .. this.count - 1
                 PROVE  /\ res.intervals[i].sample < res.intervals[i + 1].sample
                        /\ res.intervals[i + 1].sample <= res.intervals[i].sample + 2
    BY <1>6 DEF Ordered
  <2>2. i \in 1 .. this.count /\ i + 1 \in 1 .. this.count
    BY <1>3
  <2> QED
    BY <2>2, <1>4, <1>6 DEF Window, Ordered
<1>9. Newest(res, last) /\ Filled(res, last)
  BY <1>3, <1>4, <1>6 DEF Window, Newest, Filled
<1>10. Latest(res, last)
  BY <1>3, <1>4, <1>6 DEF Window, Latest, Shape
<1>11. Window(res, last)
  BY <1>7, <1>8, <1>9, <1>10 DEF Window
<1> QED
  BY <1>11 DEF UpdateHistory, res, slots
-----------------------------------------------------------------------------
LEMMA NewWindow ==
    ASSUME NEW size \in Nat \ {0}
    PROVE  Window(NewHistory(size), 0)
<1> DEFINE new == NewHistory(size)
<1>1. Shape(new) /\ new.count = 0 /\ new.size = size
  BY DEF NewHistory, NoInterval, Shape, Fields
<1> HIDE DEF new
<1>2. Ordered(new) /\ Newest(new, 0) /\ Filled(new, 0) /\ Latest(new, 0)
  BY <1>1 DEF Ordered, Newest, Filled, Latest
<1> QED
  BY <1>1, <1>2 DEF Window, new

LEMMA InitInv == Init => Inv
<1> SUFFICES ASSUME Init PROVE Inv
  OBVIOUS
<1>1. DOMAIN history = Histories /\ adds \in [Histories -> Nat]
  BY DEF Init
<1>2. ASSUME NEW h \in Histories PROVE Window(history[h], adds[h])
  <2>1. PICK size \in Nat \ {0} : history[h] = NewHistory(size) /\ adds[h] = 0
    BY HistoryAssumption DEF Init
  <2> QED
    BY <2>1, NewWindow
<1> QED
  BY <1>1, <1>2 DEF Inv

LEMMA NextInv == Inv /\ [Next]_vars => Inv'
<1> SUFFICES ASSUME Inv, [Next]_vars PROVE Inv'
  OBVIOUS
<1>1. ASSUME NEW h \in Histories, NEW length \in Lengths, Add(h, length) PROVE Inv'
  <2> DEFINE new == AddInterval(history[h], [length |-> length, sample |-> adds[h] + 1])
  <2>1. /\ history' = [history EXCEPT ![h] = new]
        /\ adds' = [adds EXCEPT ![h] = adds[h] + 1]
    BY <1>1 DEF Add
  <2>2. adds[h] \in Nat /\ length \in Nat /\ Window(history[h], adds[h])
    BY HistoryAssumption DEF Inv
  <2>3. Window(new, adds[h] + 1)
    BY <2>2, AddWindow
  <2> HIDE DEF new
  <2> QED
    BY <2>1, <2>2, <2>3 DEF Inv
<1>2. ASSUME NEW h \in Histories, NEW missed \in MissedCounts, Adjust(h, missed) PROVE Inv'
  <2> DEFINE new == AdjustIntervals(history[h], missed)
  <2>1. history' = [history EXCEPT ![h] = new] /\ adds' = adds
    BY <1>2 DEF Adjust
  <2>2. adds[h] \in Nat /\ missed \in Nat /\ Window(history[h], adds[h])
    BY HistoryAssumption DEF Inv
  <2>3. Window(new, adds[h])
    BY <2>2, AdjustWindow
  <2> HIDE DEF new
  <2> QED
    BY <2>1, <2>3 DEF Inv
<1>3. ASSUME NEW first \in Histories, NEW second \in Histories, Update(first, second) PROVE Inv'
  <2> DEFINE new == UpdateHistory(history[first], history[second])
  <2>1. /\ history' = [history EXCEPT ![first] = new]
        /\ adds' = [adds EXCEPT ![first] = adds[second]]
    BY <1>3 DEF Update
  <2>2. /\ adds[second] \in Nat
        /\ Window(history[second], adds[second]) /\ Shape(history[first])
    BY DEF Inv, Window
  <2>3. Window(new, adds[second])
    BY <2>2, UpdateWindow
  <2> HIDE DEF new
  <2> QED
    BY <2>1, <2>2, <2>3 DEF Inv
<1>4. CASE UNCHANGED vars
  BY <1>4 DEF Inv, vars
<1> QED
  BY <1>1, <1>2, <1>3, <1>4 DEF Next

\* However large the window, and however samples are added, scaled and copied,
\* the intervals that count are the latest ones, in order, and no two samples
\* in a row are lost.
THEOREM RecentWindow == Spec => []RecentInOrder
<1>1. Inv => RecentInOrder
  BY DEF Inv, Window, RecentInOrder
<1> QED
  BY <1>1, InitInv, NextInv, PTL DEF Spec
-----------------------------------------------------------------------------
(***************************************************************************)
(* The sums.                                                               *)
(***************************************************************************)

\* Induction up to n, over the numbers in a set.
LEMMA Induction ==
    ASSUME NEW n \in Nat, NEW good,
           0 \in good,
           \A k \in 0 .. n - 1 : k \in good => k + 1 \in good
    PROVE  \A k \in 0 .. n : k \in good
<1> DEFINE less == {p \in Nat \X Nat : p[1] < p[2]}
           bad == {k \in 0 .. n : k \notin good}
<1>1. IsWellFoundedOn(less, Nat)
  BY NatLessThanWellFounded, Zenon DEF OpToRel
<1>2. SUFFICES ASSUME bad # {} PROVE FALSE
  OBVIOUS
<1>3. bad \subseteq Nat
  OBVIOUS
<1> HIDE DEF less
<1>4. PICK k \in bad : \A j \in bad : <<j, k>> \notin less
  BY <1>1, <1>2, <1>3, WFMin
<1>5. k \in 0 .. n /\ k \notin good
  OBVIOUS
<1>6. k # 0 /\ k - 1 \in 0 .. n - 1 /\ (k - 1) + 1 = k
  BY <1>5
<1>7. k - 1 \notin good
  BY <1>5, <1>6
<1>8. k - 1 \in bad
  BY <1>6, <1>7
<1>9. <<k - 1, k>> \in less
  BY <1>3, <1>6, <1>8 DEF less
<1> QED
  BY <1>4, <1>8, <1>9

\* f holds the partial sums of the first n values.
Partial(f, value, n) ==
    f = [i \in 0 .. n |-> IF i = 0 THEN 0 ELSE f[i - 1] + value[i]]

LEMMA PartialExists ==
    ASSUME NEW n \in Nat, NEW value
    PROVE  \E f : Partial(f, value, n)
<1> DEFINE good == {k \in Nat : \E f : Partial(f, value, k)}
<1>1. 0 \in good
  <2>1. Partial([i \in 0 .. 0 |-> 0], value, 0)
    BY DEF Partial
  <2> QED
    BY <2>1
<1>2. ASSUME NEW k \in 0 .. n - 1, k \in good PROVE k + 1 \in good
  <2>1. PICK f : Partial(f, value, k)
    BY <1>2
  <2> DEFINE g == [i \in 0 .. k + 1 |-> IF i = k + 1 THEN f[k] + value[k + 1] ELSE f[i]]
  <2>2. ASSUME NEW i \in 0 .. k + 1
        PROVE  g[i] = IF i = 0 THEN 0 ELSE g[i - 1] + value[i]
    <3>1. CASE i = k + 1
      BY <3>1
    <3>2. CASE i # k + 1
      <4>1. i \in 0 .. k /\ (i # 0 => i - 1 \in 0 .. k + 1 /\ i - 1 # k + 1)
        BY <3>2
      <4>2. f[i] = IF i = 0 THEN 0 ELSE f[i - 1] + value[i]
        BY <2>1, <4>1 DEF Partial
      <4> QED
        BY <3>2, <4>1, <4>2
    <3> QED
      BY <3>1, <3>2
  <2>3. g = [i \in 0 .. k + 1 |-> g[i]]
    OBVIOUS
  <2> HIDE DEF g
  <2>4. Partial(g, value, k + 1)
    BY <2>2, <2>3 DEF Partial
  <2> QED
    BY <2>4
<1> HIDE DEF good
<1>3. n \in good
  BY <1>1, <1>2, Induction
<1> QED
  BY <1>3 DEF good

\* What the loop of add_interval and adjust_intervals computes: the last of the
\* partial sums.
LEMMA SumIsPartial ==
    ASSUME NEW n \in Nat, NEW value \in [1 .. n -> Nat]
    PROVE  \E f \in [0 .. n -> Nat] :
               /\ f[0] = 0
               /\ \A k \in 0 .. n - 1 : f[k + 1] = f[k] + value[k + 1]
               /\ SumOf(value, n) = f[n]
<1> DEFINE f == CHOOSE f : Partial(f, value, n)
<1>1. Partial(f, value, n)
  BY PartialExists, Zenon
<1>2. SumOf(value, n) = f[n]
  BY Zenon DEF SumOf, Partial
<1> HIDE DEF f
<1>3. DOMAIN f = 0 .. n /\ f = [i \in 0 .. n |-> f[i]]
  BY <1>1 DEF Partial
<1>4. f[0] = 0
  BY <1>1 DEF Partial
<1>5. ASSUME NEW k \in 0 .. n - 1 PROVE f[k + 1] = f[k] + value[k + 1]
  <2>1. k + 1 \in 0 .. n /\ k + 1 # 0 /\ (k + 1) - 1 = k
    OBVIOUS
  <2>2. f[k + 1] = f[(k + 1) - 1] + value[k + 1]
    BY <1>1, <2>1 DEF Partial
  <2> QED
    BY <2>1, <2>2
<1> DEFINE good == {k \in 0 .. n : f[k] \in Nat}
<1>6. 0 \in good
  BY <1>4
<1>7. ASSUME NEW k \in 0 .. n - 1, k \in good PROVE k + 1 \in good
  <2>1. k + 1 \in 1 .. n /\ k + 1 \in 0 .. n
    OBVIOUS
  <2>2. value[k + 1] \in Nat
    BY <2>1
  <2>3. f[k] \in Nat
    BY <1>7
  <2> QED
    BY <1>5, <2>1, <2>2, <2>3
<1>8. \A k \in 0 .. n : k \in good
  <2> HIDE DEF good
  <2> QED
    BY <1>6, <1>7, Induction
<1>9. f \in [0 .. n -> Nat]
  BY <1>3, <1>8
<1> QED
  BY <1>2, <1>4, <1>5, <1>9

LEMMA SquareOfDifference ==
    ASSUME NEW v \in Int, NEW x \in Int
    PROVE  v * v + x * x - 2 * (v * x) >= 0
<1>1. (v - x) * (v - x) >= 0
  <2>1. \A d \in Int : d * d >= 0
    OBVIOUS
  <2> QED
    BY <2>1
<1>2. (v - x) * (v - x) = v * v + x * x - 2 * (v * x)
  OBVIOUS
<1> QED
  BY <1>1, <1>2

LEMMA SpreadStep ==
    ASSUME NEW k \in Int, NEW q \in Int, NEW s \in Int, NEW v \in Int, NEW x \in Int,
           q + k * (x * x) - 2 * (s * x) >= 0, v * v + x * x - 2 * (v * x) >= 0
    PROVE  (q + v * v) + (k + 1) * (x * x) - 2 * ((s + v) * x) >= 0
<1>1. (s + v) * x = s * x + v * x
  OBVIOUS
<1>2. (k + 1) * (x * x) = k * (x * x) + x * x
  OBVIOUS
<1> DEFINE kxx == k * (x * x)
           xx == x * x
           sx == s * x
           vx == v * x
           vv == v * v
<1>3. kxx \in Int /\ xx \in Int /\ sx \in Int /\ vx \in Int /\ vv \in Int
  OBVIOUS
<1>4. q + kxx - 2 * sx >= 0 /\ vv + xx - 2 * vx >= 0
  OBVIOUS
<1> HIDE DEF kxx, xx, sx, vx, vv
<1>5. (q + vv) + (kxx + xx) - 2 * (sx + vx) >= 0
  BY <1>3, <1>4
<1> QED
  BY <1>1, <1>2, <1>5 DEF kxx, xx, sx, vx, vv

LEMMA SpreadGrows ==
    ASSUME NEW k \in Int, NEW q \in Int, NEW s \in Int, NEW v \in Int,
           k * q >= s * s, q + k * (v * v) - 2 * (s * v) >= 0
    PROVE  (k + 1) * (q + v * v) >= (s + v) * (s + v)
<1>1. (k + 1) * (q + v * v) = k * q + q + k * (v * v) + v * v
  OBVIOUS
<1>2. (s + v) * (s + v) = s * s + 2 * (s * v) + v * v
  OBVIOUS
<1> DEFINE kq == k * q
           ss == s * s
           kvv == k * (v * v)
           sv == s * v
           vv == v * v
<1>3. kq \in Int /\ ss \in Int /\ kvv \in Int /\ sv \in Int /\ vv \in Int
  OBVIOUS
<1>4. kq >= ss /\ q + kvv - 2 * sv >= 0
  OBVIOUS
<1> HIDE DEF kq, ss, kvv, sv, vv
<1>5. kq + q + kvv + vv >= ss + 2 * sv + vv
  BY <1>3, <1>4
<1> QED
  BY <1>1, <1>2, <1>5 DEF kq, ss, kvv, sv, vv

\* Cauchy-Schwarz: by induction, the squares of what the values are away from
\* any x add up to no negative number; from that, by another one, the claim.
LEMMA VarianceIsPositive ==
    ASSUME NEW n \in Nat, NEW value \in [1 .. n -> Nat]
    PROVE  LET s == SumOf(value, n)
               q == SumOf([i \in 1 .. n |-> value[i] * value[i]], n)
           IN  s \in Nat /\ q \in Nat /\ n * q >= s * s
<1> DEFINE square == [i \in 1 .. n |-> value[i] * value[i]]
<1>1. square \in [1 .. n -> Nat]
  <2>1. SUFFICES ASSUME NEW i \in 1 .. n PROVE value[i] * value[i] \in Nat
    OBVIOUS
  <2>2. value[i] \in Nat
    OBVIOUS
  <2> QED
    BY <2>2
<1>2. \A k \in 0 .. n - 1 : square[k + 1] = value[k + 1] * value[k + 1]
  <2>1. SUFFICES ASSUME NEW k \in 0 .. n - 1 PROVE square[k + 1] = value[k + 1] * value[k + 1]
    OBVIOUS
  <2>2. k + 1 \in 1 .. n
    OBVIOUS
  <2> QED
    BY <2>2
<1> HIDE DEF square
<1>3. PICK s \in [0 .. n -> Nat] :
          /\ s[0] = 0
          /\ \A k \in 0 .. n - 1 : s[k + 1] = s[k] + value[k + 1]
          /\ SumOf(value, n) = s[n]
  BY SumIsPartial
<1>4. PICK q \in [0 .. n -> Nat] :
          /\ q[0] = 0
          /\ \A k \in 0 .. n - 1 : q[k + 1] = q[k] + square[k + 1]
          /\ SumOf(square, n) = q[n]
  BY <1>1, SumIsPartial
<1>5. ASSUME NEW x \in Nat
      PROVE  \A k \in 0 .. n : q[k] + k * (x * x) - 2 * (s[k] * x) >= 0
  <2> DEFINE P(k) == q[k] + k * (x * x) - 2 * (s[k] * x) >= 0
             good == {k \in 0 .. n : P(k)}
  <2>1. P(0)
    BY <1>3, <1>4
  <2>2. ASSUME NEW k \in 0 .. n - 1, P(k) PROVE P(k + 1)
    <3> DEFINE v == value[k + 1]
    <3>1. k + 1 \in 1 .. n /\ k \in 0 .. n /\ k + 1 \in 0 .. n
      OBVIOUS
    <3>2. v \in Nat /\ s[k] \in Nat /\ q[k] \in Nat /\ k \in Nat
      BY <3>1
    <3>3. s[k + 1] = s[k] + v /\ q[k + 1] = q[k] + v * v
      BY <1>2, <1>3, <1>4
    <3>4. q[k] + k * (x * x) - 2 * (s[k] * x) >= 0
      BY <2>2
    <3> HIDE DEF v
    <3>5. v * v + x * x - 2 * (v * x) >= 0
      BY <3>2, SquareOfDifference
    <3>7. (q[k] + v * v) + (k + 1) * (x * x) - 2 * ((s[k] + v) * x) >= 0
      <4>1. q[k] \in Int /\ k \in Int /\ s[k] \in Int /\ v \in Int /\ x \in Int
        BY <3>2
      <4> QED
        BY <4>1, <3>4, <3>5, SpreadStep, Zenon
    <3> QED
      BY <3>3, <3>7
  <2> HIDE DEF P
  <2>3. 0 \in good /\ \A k \in 0 .. n - 1 : k \in good => k + 1 \in good
    BY <2>1, <2>2
  <2>4. \A k \in 0 .. n : k \in good
    <3> HIDE DEF good
    <3> QED
      BY <2>3, Induction
  <2> QED
    BY <2>4 DEF P
<1> DEFINE P(k) == k * q[k] >= s[k] * s[k]
           good == {k \in 0 .. n : P(k)}
<1>6. P(0)
  BY <1>3, <1>4
<1>7. ASSUME NEW k \in 0 .. n - 1, P(k) PROVE P(k + 1)
  <2> DEFINE v == value[k + 1]
  <2>1. k + 1 \in 1 .. n /\ k \in 0 .. n /\ k + 1 \in 0 .. n
    OBVIOUS
  <2>2. v \in Nat /\ s[k] \in Nat /\ q[k] \in Nat /\ k \in Nat
    BY <2>1
  <2>3. s[k + 1] = s[k] + v /\ q[k + 1] = q[k] + v * v
    BY <1>2, <1>3, <1>4
  <2>4. k * q[k] >= s[k] * s[k]
    BY <1>7
  <2>5. q[k] + k * (v * v) - 2 * (s[k] * v) >= 0
    BY <1>5, <2>1, <2>2
  <2> HIDE DEF v
  <2>6. (k + 1) * (q[k] + v * v) >= (s[k] + v) * (s[k] + v)
    <3>1. q[k] \in Int /\ k \in Int /\ s[k] \in Int /\ v \in Int
      BY <2>2
    <3> QED
      BY <3>1, <2>4, <2>5, SpreadGrows, Zenon
  <2> QED
    BY <2>1, <2>3, <2>6
<1> HIDE DEF P
<1>8. 0 \in good /\ \A k \in 0 .. n - 1 : k \in good => k + 1 \in good
  BY <1>6, <1>7
<1>9. P(n)
  <2>1. \A k \in 0 .. n : k \in good
    <3> HIDE DEF good
    <3> QED
      BY <1>8, Induction
  <2> QED
    BY <2>1
<1>10. n * q[n] >= s[n] * s[n] /\ s[n] \in Nat /\ q[n] \in Nat
  BY <1>9 DEF P
<1> QED
  BY <1>3, <1>4, <1>10 DEF square

\* A history of n slots.
HistoryOf(n) == [size : {n}, count : 0 .. n, intervals : [1 .. n -> Interval],
                 sum : Nat, squares : Nat]

Summed(this) == this.sum = Sum(this) /\ this.squares = Squares(this)

LEMMA FieldsOf ==
    ASSUME NEW n \in Nat, NEW this \in HistoryOf(n)
    PROVE  /\ DOMAIN this = Fields
           /\ this.size = n /\ this.count \in 0 .. n
           /\ this.intervals \in [1 .. n -> Interval]
           /\ Shape(this) <=> n # 0
<1>1. /\ DOMAIN this = Fields
      /\ this.size = n /\ this.count \in 0 .. n
      /\ this.intervals \in [1 .. n -> Interval]
  BY DEF HistoryOf, Fields
<1>2. \A f \in [1 .. n -> Interval] : f \in [1 .. n -> [length : Int, sample : Nat]]
  BY DEF Interval
<1> QED
  BY <1>1, <1>2 DEF Shape

LEMMA LengthsOf ==
    ASSUME NEW n \in Nat, NEW this \in HistoryOf(n)
    PROVE  Length(this) \in [1 .. this.count -> Nat]
<1>1. this.count \in 0 .. n /\ this.intervals \in [1 .. n -> Interval]
  BY FieldsOf
<1>2. ASSUME NEW i \in 1 .. this.count PROVE this.intervals[i].length \in Nat
  <2>1. i \in 1 .. n
    BY <1>1
  <2>2. this.intervals[i] \in Interval
    BY <1>1, <2>1
  <2> QED
    BY <2>2 DEF Interval
<1> QED
  BY <1>2 DEF Length

LEMMA SumsOf ==
    ASSUME NEW n \in Nat, NEW this \in HistoryOf(n)
    PROVE  /\ Sum(this) \in Nat /\ Squares(this) \in Nat
           /\ this.count * Squares(this) >= Sum(this) * Sum(this)
<1>1. this.count \in Nat /\ Length(this) \in [1 .. this.count -> Nat]
  BY FieldsOf, LengthsOf
<1> DEFINE value == Length(this)
           count == this.count
           square == [i \in 1 .. count |-> value[i] * value[i]]
<1>2. Sum(this) = SumOf(value, count) /\ Squares(this) = SumOf(square, count)
  BY DEF Sum, Squares, Square
<1> HIDE DEF value, count
<1>3. /\ SumOf(value, count) \in Nat /\ SumOf(square, count) \in Nat
      /\ count * SumOf(square, count) >= SumOf(value, count) * SumOf(value, count)
  <2>1. count \in Nat /\ value \in [1 .. count -> Nat]
    BY <1>1 DEF count, value
  <2> QED
    BY <2>1, VarianceIsPositive, Zenon
<1> QED
  BY <1>2, <1>3 DEF count

\* The sums are those of the lengths, and of nothing else.
LEMMA SameSums ==
    ASSUME NEW one, NEW other, Length(one) = Length(other), one.count = other.count
    PROVE  Sum(one) = Sum(other) /\ Squares(one) = Squares(other)
<1>1. Square(one) = Square(other)
  BY DEF Square
<1> QED
  BY <1>1 DEF Sum, Squares

LEMMA SameLength ==
    ASSUME NEW one, NEW other, one.count = other.count,
           \A i \in 1 .. one.count : one.intervals[i].length = other.intervals[i].length
    PROVE  Length(one) = Length(other)
BY DEF Length

LEMMA SumUpSums ==
    ASSUME NEW this, DOMAIN this = Fields
    PROVE  Summed(SumUp(this))
<1> DEFINE s == Sum(this)
           q == Squares(this)
           new == [this EXCEPT !.sum = s, !.squares = q]
<1>1. SumUp(this) = new
  BY DEF SumUp
<1> HIDE DEF s, q
<1>2. new.sum = s /\ new.squares = q /\ new.count = this.count /\ new.intervals = this.intervals
  BY DEF Fields
<1> HIDE DEF new
<1>3. Length(new) = Length(this)
  BY <1>2, SameLength
<1>4. Sum(new) = Sum(this) /\ Squares(new) = Squares(this)
  BY <1>2, <1>3, SameSums
<1> QED
  BY <1>1, <1>2, <1>4 DEF s, q, Summed

LEMMA SumUpTyped ==
    ASSUME NEW n \in Nat, NEW this \in HistoryOf(n)
    PROVE  SumUp(this) \in HistoryOf(n) /\ Summed(SumUp(this))
<1>1. Sum(this) \in Nat /\ Squares(this) \in Nat
  BY SumsOf
<1>2. SumUp(this) \in HistoryOf(n)
  BY <1>1 DEF SumUp, HistoryOf
<1> QED
  BY <1>2, FieldsOf, SumUpSums

LEMMA DropOldestTyped ==
    ASSUME NEW n \in Nat, NEW this \in HistoryOf(n)
    PROVE  DropOldest(this) \in HistoryOf(n)
<1>1. this.size = n /\ this.count \in 0 .. n /\ this.intervals \in [1 .. n -> Interval]
  BY FieldsOf
<1>2. CASE this.count = 0
  BY <1>2 DEF DropOldest
<1>3. CASE this.count # 0
  <2> DEFINE moved == [i \in 1 .. this.size |-> this.intervals[IF i < this.size THEN i + 1 ELSE i]]
             c == this.count - 1
  <2>1. moved \in [1 .. n -> Interval]
    BY <1>1
  <2>2. c \in 0 .. n
    BY <1>1, <1>3
  <2>3. DropOldest(this) = [this EXCEPT !.intervals = moved, !.count = c]
    BY <1>3 DEF DropOldest
  <2> HIDE DEF moved, c
  <2> QED
    BY <2>1, <2>2, <2>3 DEF HistoryOf
<1> QED
  BY <1>2, <1>3

LEMMA AddTyped ==
    ASSUME NEW n \in Nat \ {0}, NEW this \in HistoryOf(n), NEW new \in Interval
    PROVE  LET res == AddInterval(this, new) IN res \in HistoryOf(n) /\ Summed(res)
<1>1. this.size = n /\ this.count \in 0 .. n /\ this.intervals \in [1 .. n -> Interval]
  BY FieldsOf
<1>2. CASE this.count < this.size
  <2> DEFINE k == this.count + 1
             slots == [this.intervals EXCEPT ![k] = new]
             res == [this EXCEPT !.intervals[k] = new, !.count = k]
  <2>1. k \in 0 .. n /\ slots \in [1 .. n -> Interval]
    BY <1>1, <1>2
  <2>2. res = [this EXCEPT !.intervals = slots, !.count = k]
    BY DEF HistoryOf
  <2> HIDE DEF k, slots
  <2>3. res \in HistoryOf(n)
    BY <2>1, <2>2 DEF HistoryOf
  <2>4. AddInterval(this, new) = SumUp(res)
    BY <1>2 DEF AddInterval, k
  <2> HIDE DEF res
  <2> QED
    BY <2>3, <2>4, SumUpTyped
<1>3. CASE ~(this.count < this.size)
  <2> DEFINE old == DropOldest(this)
             slots == [old.intervals EXCEPT ![n] = new]
             res == [old EXCEPT !.intervals[n] = new]
  <2>1. old \in HistoryOf(n)
    BY DropOldestTyped
  <2>2. AddInterval(this, new) = SumUp(res)
    BY <1>1, <1>3 DEF AddInterval
  <2> HIDE DEF old
  <2>3. old.intervals \in [1 .. n -> Interval]
    BY <2>1, FieldsOf
  <2>4. slots \in [1 .. n -> Interval]
    BY <2>3
  <2>5. res = [old EXCEPT !.intervals = slots]
    BY <2>1 DEF HistoryOf
  <2> HIDE DEF slots
  <2>6. res \in HistoryOf(n)
    BY <2>1, <2>4, <2>5 DEF HistoryOf
  <2> HIDE DEF res
  <2> QED
    BY <2>2, <2>6, SumUpTyped
<1> QED
  BY <1>2, <1>3

LEMMA ScaleNat ==
    ASSUME NEW length \in Nat, NEW missed \in Nat
    PROVE  Scale(length, missed) \in Nat
<1>1. CASE Percent(missed) < 0
  BY <1>1 DEF Scale
<1>2. CASE ~(Percent(missed) < 0)
  <2>1. Percent(missed) \in Nat
    BY <1>2 DEF Percent
  <2> DEFINE p == length * Percent(missed)
  <2>2. p \in Nat
    <3> HIDE DEF Percent
    <3> QED
      BY <2>1
  <2> HIDE DEF p
  <2>3. p \div 100 \in Nat
    BY <2>2
  <2> QED
    BY <1>2, <2>3 DEF Scale, p
<1> QED
  BY <1>1, <1>2

LEMMA AdjustTyped ==
    ASSUME NEW n \in Nat, NEW this \in HistoryOf(n), NEW missed \in Nat
    PROVE  LET res == AdjustIntervals(this, missed) IN res \in HistoryOf(n) /\ Summed(res)
<1> DEFINE slots == [i \in 1 .. this.size |->
               IF i <= this.count THEN [this.intervals[i] EXCEPT !.length = Scale(@, missed)]
               ELSE this.intervals[i]]
           res == [this EXCEPT !.intervals = slots]
<1>1. this.size = n /\ this.count \in 0 .. n /\ this.intervals \in [1 .. n -> Interval]
  BY FieldsOf
<1>2. ASSUME NEW i \in 1 .. n PROVE slots[i] \in Interval
  <2> DEFINE slot == this.intervals[i]
  <2>1. slot \in Interval
    BY <1>1
  <2> HIDE DEF slot
  <2>2. slot.length \in Nat
    BY <2>1 DEF Interval
  <2>3. Scale(slot.length, missed) \in Nat
    BY <2>2, ScaleNat
  <2>4. [slot EXCEPT !.length = Scale(slot.length, missed)] \in Interval
    BY <2>1, <2>3 DEF Interval
  <2> QED
    BY <1>1, <2>1, <2>4 DEF slot
<1>3. slots \in [1 .. n -> Interval]
  BY <1>1, <1>2
<1>4. AdjustIntervals(this, missed) = SumUp(res)
  BY DEF AdjustIntervals
<1> HIDE DEF slots
<1>5. res \in HistoryOf(n)
  BY <1>3 DEF HistoryOf
<1> HIDE DEF res
<1> QED
  BY <1>4, <1>5, SumUpTyped

LEMMA UpdateTyped ==
    ASSUME NEW m \in Nat, NEW first \in HistoryOf(m),
           NEW n \in Nat, NEW this \in HistoryOf(n), Summed(this)
    PROVE  LET res == UpdateHistory(first, this) IN res \in HistoryOf(n) /\ Summed(res)
<1> DEFINE slots == [i \in 1 .. this.size |->
               IF i <= this.count THEN this.intervals[i]
               ELSE IF first.size = this.size THEN first.intervals[i]
               ELSE NoInterval]
           res == [this EXCEPT !.intervals = slots]
<1>1. /\ this.size = n /\ this.count \in 0 .. n /\ this.intervals \in [1 .. n -> Interval]
      /\ DOMAIN this = Fields
  BY FieldsOf
<1>2. first.size = m /\ first.intervals \in [1 .. m -> Interval]
  BY FieldsOf
<1>3. NoInterval \in Interval
  BY DEF NoInterval, Interval
<1>4. slots \in [1 .. n -> Interval]
  BY <1>1, <1>2, <1>3
<1>5. \A i \in 1 .. this.count : slots[i] = this.intervals[i]
  BY <1>1
<1>6. UpdateHistory(first, this) = res
  BY DEF UpdateHistory
<1> HIDE DEF slots
<1>7. res \in HistoryOf(n)
  BY <1>4 DEF HistoryOf
<1>8. /\ res.intervals = slots /\ res.count = this.count
      /\ res.sum = this.sum /\ res.squares = this.squares
  BY <1>1 DEF Fields
<1> HIDE DEF res
<1>9. Sum(res) = Sum(this) /\ Squares(res) = Squares(this)
  BY <1>5, <1>8, SameLength, SameSums
<1> QED
  BY <1>6, <1>7, <1>8, <1>9 DEF Summed

LEMMA NewTyped ==
    ASSUME NEW n \in Nat \ {0}
    PROVE  NewHistory(n) \in HistoryOf(n) /\ Summed(NewHistory(n))
<1> DEFINE new == NewHistory(n)
<1>1. new \in HistoryOf(n) /\ new.count = 0 /\ new.sum = 0 /\ new.squares = 0
  BY DEF NewHistory, NoInterval, HistoryOf, Interval
<1> HIDE DEF new
<1>2. ASSUME NEW value \in [1 .. 0 -> Nat] PROVE SumOf(value, 0) = 0
  BY SumIsPartial
<1>3. Length(new) \in [1 .. 0 -> Nat] /\ Square(new) \in [1 .. 0 -> Nat]
  BY <1>1 DEF Length, Square
<1>4. Sum(new) = 0 /\ Squares(new) = 0
  BY <1>1, <1>2, <1>3 DEF Sum, Squares
<1> QED
  BY <1>1, <1>4 DEF Summed, new

TypedInv == /\ DOMAIN history = Histories
            /\ \A h \in Histories : \E n \in 1 .. WindowSize : history[h] \in HistoryOf(n)
            /\ \A h \in Histories : Summed(history[h])
            /\ adds \in [Histories -> 0 .. MaxAdds]
            /\ adjusts \in 0 .. MaxAdjusts

LEMMA InitTyped == Init => TypedInv
<1> SUFFICES ASSUME Init PROVE TypedInv
  OBVIOUS
<1>1. /\ DOMAIN history = Histories
      /\ adds \in [Histories -> 0 .. MaxAdds] /\ adjusts \in 0 .. MaxAdjusts
  BY HistoryAssumption DEF Init
<1>2. ASSUME NEW h \in Histories
      PROVE  Summed(history[h]) /\ \E n \in 1 .. WindowSize : history[h] \in HistoryOf(n)
  <2>1. PICK n \in 1 .. WindowSize : history[h] = NewHistory(n)
    BY HistoryAssumption DEF Init
  <2> QED
    BY <2>1, NewTyped
<1> QED
  BY <1>1, <1>2 DEF TypedInv

LEMMA NextTyped == TypedInv /\ [Next]_vars => TypedInv'
<1> SUFFICES ASSUME TypedInv, [Next]_vars PROVE TypedInv'
  OBVIOUS
<1>1. WindowSize \in Nat /\ MaxAdds \in Nat /\ MaxAdjusts \in Nat
  BY HistoryAssumption
<1>2. ASSUME NEW h \in Histories, NEW length \in Lengths, Add(h, length) PROVE TypedInv'
  <2> DEFINE interval == [length |-> length, sample |-> adds[h] + 1]
             new == AddInterval(history[h], interval)
  <2>1. /\ history' = [history EXCEPT ![h] = new] /\ adjusts' = adjusts
        /\ adds' = [adds EXCEPT ![h] = adds[h] + 1] /\ adds[h] < MaxAdds
    BY <1>2 DEF Add
  <2>2. adds[h] + 1 \in 0 .. MaxAdds
    BY <1>1, <2>1 DEF TypedInv
  <2>3. interval \in Interval
    BY <2>2, HistoryAssumption DEF Interval
  <2> HIDE DEF interval
  <2>4. PICK n \in 1 .. WindowSize : history[h] \in HistoryOf(n)
    BY DEF TypedInv
  <2>5. new \in HistoryOf(n) /\ Summed(new)
    BY <1>1, <2>3, <2>4, AddTyped
  <2> HIDE DEF new
  <2> QED
    BY <2>1, <2>2, <2>4, <2>5 DEF TypedInv
<1>3. ASSUME NEW h \in Histories, NEW missed \in MissedCounts, Adjust(h, missed) PROVE TypedInv'
  <2> DEFINE new == AdjustIntervals(history[h], missed)
  <2>1. /\ history' = [history EXCEPT ![h] = new] /\ adds' = adds
        /\ adjusts' = adjusts + 1 /\ adjusts < MaxAdjusts
    BY <1>3 DEF Adjust
  <2>2. adjusts' \in 0 .. MaxAdjusts
    BY <1>1, <2>1 DEF TypedInv
  <2>3. PICK n \in 1 .. WindowSize : history[h] \in HistoryOf(n)
    BY DEF TypedInv
  <2>4. missed \in Nat
    BY HistoryAssumption
  <2>5. new \in HistoryOf(n) /\ Summed(new)
    BY <1>1, <2>3, <2>4, AdjustTyped
  <2> HIDE DEF new
  <2> QED
    BY <2>1, <2>2, <2>3, <2>5 DEF TypedInv
<1>4. ASSUME NEW first \in Histories, NEW second \in Histories, Update(first, second)
      PROVE  TypedInv'
  <2> DEFINE new == UpdateHistory(history[first], history[second])
  <2>1. /\ history' = [history EXCEPT ![first] = new] /\ adjusts' = adjusts
        /\ adds' = [adds EXCEPT ![first] = adds[second]]
    BY <1>4 DEF Update
  <2>2. PICK m \in 1 .. WindowSize : history[first] \in HistoryOf(m)
    BY DEF TypedInv
  <2>3. PICK n \in 1 .. WindowSize : history[second] \in HistoryOf(n)
    BY DEF TypedInv
  <2>4. Summed(history[second])
    BY DEF TypedInv
  <2>5. new \in HistoryOf(n) /\ Summed(new)
    BY <1>1, <2>2, <2>3, <2>4, UpdateTyped
  <2> HIDE DEF new
  <2> QED
    BY <2>1, <2>3, <2>5 DEF TypedInv
<1>5. CASE UNCHANGED vars
  BY <1>5 DEF TypedInv, vars
<1> QED
  BY <1>2, <1>3, <1>4, <1>5 DEF Next

THEOREM TypedHistories == Spec => []TypedInv
BY InitTyped, NextTyped, PTL DEF Spec

\* Whatever is added, scaled and copied: the counters of both windows stay within
\* their memory, and lengths and sums are no negative numbers.
THEOREM HistoryTypes == Spec => []TypeOK
<1>1. TypedInv => TypeOK
  BY DEF TypedInv, TypeOK, HistoryOf
<1> QED
  BY <1>1, TypedHistories, PTL

\* The sums that mean and variance read are those of the intervals that
\* count, and the variance they give is never negative, for every size of the window,
\* every length and every missed count (add_interval, adjust_intervals,
\* update_history).
THEOREM SumsAreRight == Spec => []SumsTracked
<1>1. TypedInv => SumsTracked
  <2> SUFFICES ASSUME TypedInv, NEW h \in Histories
               PROVE  /\ Summed(history[h])
                      /\ history[h].count * history[h].squares >= history[h].sum * history[h].sum
    BY DEF SumsTracked, Summed
  <2>1. PICK n \in 1 .. WindowSize : history[h] \in HistoryOf(n)
    BY DEF TypedInv
  <2>2. Summed(history[h])
    BY DEF TypedInv
  <2>3. n \in Nat
    BY HistoryAssumption
  <2>4. history[h].count * Squares(history[h]) >= Sum(history[h]) * Sum(history[h])
    BY <2>1, <2>3, SumsOf
  <2> QED
    BY <2>2, <2>4 DEF Summed
<1> QED
  BY <1>1, TypedHistories, PTL
-----------------------------------------------------------------------------
(***************************************************************************)
(* Histories that compare equal.                                           *)
(***************************************************************************)

\* Two histories are alike that have the same lengths where they count.
Alike(one, other) ==
    /\ DOMAIN one = Fields /\ DOMAIN other = Fields
    /\ one.size = other.size /\ one.count = other.count
    /\ \A i \in 1 .. one.count : one.intervals[i].length = other.intervals[i].length

LEMMA SumUpEqual ==
    ASSUME NEW one, NEW other, Alike(one, other)
    PROVE  CompareHistory(SumUp(one), SumUp(other))
<1> DEFINE new == SumUp(one)
           new2 == SumUp(other)
<1>1. /\ new.size = one.size /\ new.count = one.count /\ new.intervals = one.intervals
      /\ new2.size = other.size /\ new2.count = other.count
      /\ new2.intervals = other.intervals
  BY ChangeSums DEF SumUp, Alike
<1>2. Summed(new) /\ Summed(new2)
  BY SumUpSums DEF Alike
<1> HIDE DEF new, new2
<1>3. Length(new) = Length(new2) /\ new.count = new2.count
  BY <1>1, SameLength DEF Alike
<1>4. new.sum = new2.sum /\ new.squares = new2.squares
  BY <1>2, <1>3, SameSums DEF Summed
<1>5. CompareHistory(new, new2)
  BY <1>1, <1>4 DEF CompareHistory, Alike
<1> QED
  BY <1>5 DEF new, new2

\* What add_interval makes of a history, before the loop of the sums: the slots
\* that count are those before, moved by one if the window was full, and the new.
Added(this, res, new) ==
    /\ Shape(res) /\ res.size = this.size
    /\ IF this.count < this.size
       THEN /\ res.count = this.count + 1
            /\ \A i \in 1 .. this.count : res.intervals[i] = this.intervals[i]
            /\ res.intervals[this.count + 1] = new
       ELSE /\ res.count = this.count - 1
            /\ \A i \in 1 .. this.count - 1 : res.intervals[i] = this.intervals[i + 1]

LEMMA AddIs ==
    ASSUME NEW this, Shape(this), NEW new \in [length : Int, sample : Nat]
    PROVE  \E res : Added(this, res, new) /\ AddInterval(this, new) = SumUp(res)
<1>1. CASE this.count < this.size
  <2> DEFINE k == this.count + 1
             res == [this EXCEPT !.intervals[k] = new, !.count = k]
  <2>1. DOMAIN res = Fields /\ res.size = this.size /\ res.count = k
        /\ res.intervals = [this.intervals EXCEPT ![k] = new]
    BY AddSlot DEF Shape
  <2>2. AddInterval(this, new) = SumUp(res)
    BY <1>1 DEF AddInterval
  <2> HIDE DEF res
  <2>3. k \in 1 .. this.size /\ this.size \in Nat \ {0}
    BY <1>1 DEF Shape
  <2>4. Shape(res)
    BY <2>1, <2>3 DEF Shape
  <2>5. res.intervals[k] = new /\ \A i \in 1 .. this.count : res.intervals[i] = this.intervals[i]
    BY <2>1, <2>3 DEF Shape
  <2>6. Added(this, res, new)
    BY <1>1, <2>1, <2>4, <2>5 DEF Added
  <2> QED
    BY <2>2, <2>6
<1>2. CASE ~(this.count < this.size)
  <2> DEFINE old == DropOldest(this)
             n == this.size
             res == [old EXCEPT !.intervals[n] = new]
  <2>1. this.count = n /\ n \in Nat \ {0}
    BY <1>2 DEF Shape
  <2>2. /\ Shape(old) /\ old.size = n /\ old.count = n - 1
        /\ \A i \in 1 .. n - 1 : old.intervals[i] = this.intervals[i + 1]
    BY <2>1, DropOldestShape
  <2>3. AddInterval(this, new) = SumUp(res)
    BY <1>2 DEF AddInterval
  <2> HIDE DEF old
  <2>4. DOMAIN res = Fields /\ res.size = n /\ res.count = n - 1
        /\ res.intervals = [old.intervals EXCEPT ![n] = new]
    BY <2>2, ChangeSlot DEF Shape
  <2> HIDE DEF res
  <2>5. Shape(res)
    <3>1. old.intervals \in [1 .. n -> [length : Int, sample : Nat]]
      BY <2>2 DEF Shape
    <3>2. res.intervals \in [1 .. n -> [length : Int, sample : Nat]]
      BY <2>4, <3>1
    <3>3. res.count \in 0 .. res.size
      BY <2>1, <2>4
    <3> QED
      BY <2>1, <2>4, <3>2, <3>3 DEF Shape
  <2>6. \A i \in 1 .. n - 1 : res.intervals[i] = this.intervals[i + 1]
    BY <2>1, <2>2, <2>4 DEF Shape
  <2>7. Added(this, res, new)
    BY <1>2, <2>1, <2>4, <2>5, <2>6 DEF Added
  <2> QED
    BY <2>3, <2>7
<1> QED
  BY <1>1, <1>2

LEMMA SumUpShape ==
    ASSUME NEW this, Shape(this)
    PROVE  Shape(SumUp(this))
BY ChangeSums DEF SumUp, Shape

LEMMA AddEqual ==
    ASSUME NEW one, Shape(one), NEW other, Shape(other), CompareHistory(one, other),
           NEW new \in [length : Int, sample : Nat]
    PROVE  /\ CompareHistory(AddInterval(one, new), AddInterval(other, new))
           /\ Shape(AddInterval(one, new)) /\ Shape(AddInterval(other, new))
<1>1. PICK res : Added(one, res, new) /\ AddInterval(one, new) = SumUp(res)
  BY AddIs
<1>2. PICK res2 : Added(other, res2, new) /\ AddInterval(other, new) = SumUp(res2)
  BY AddIs
<1>3. /\ one.size = other.size /\ one.count = other.count
      /\ one.size \in Nat /\ one.count \in 0 .. one.size
      /\ \A i \in 1 .. one.count : one.intervals[i].length = other.intervals[i].length
  BY DEF CompareHistory, Shape
<1>4. res.size = res2.size /\ res.count = res2.count /\ Shape(res) /\ Shape(res2)
  BY <1>1, <1>2, <1>3 DEF Added
<1>5. \A i \in 1 .. res.count : res.intervals[i].length = res2.intervals[i].length
  <2>1. CASE one.count < one.size
    <3>1. SUFFICES ASSUME NEW i \in 1 .. one.count + 1
                   PROVE  res.intervals[i].length = res2.intervals[i].length
      BY <1>1, <2>1 DEF Added
    <3>2. CASE i = one.count + 1
      BY <1>1, <1>2, <1>3, <2>1, <3>2 DEF Added
    <3>3. CASE i # one.count + 1
      <4>1. i \in 1 .. one.count
        BY <1>3, <3>3
      <4>2. res.intervals[i] = one.intervals[i] /\ res2.intervals[i] = other.intervals[i]
        BY <1>1, <1>2, <1>3, <2>1, <4>1 DEF Added
      <4> QED
        BY <1>3, <4>1, <4>2
    <3> QED
      BY <3>2, <3>3
  <2>2. CASE ~(one.count < one.size)
    <3>1. SUFFICES ASSUME NEW i \in 1 .. one.count - 1
                   PROVE  res.intervals[i].length = res2.intervals[i].length
      BY <1>1, <2>2 DEF Added
    <3>2. i + 1 \in 1 .. one.count
      BY <1>3
    <3>3. res.intervals[i] = one.intervals[i + 1] /\ res2.intervals[i] = other.intervals[i + 1]
      BY <1>1, <1>2, <1>3, <2>2 DEF Added
    <3> QED
      BY <1>3, <3>2, <3>3
  <2> QED
    BY <2>1, <2>2
<1>6. Alike(res, res2)
  BY <1>4, <1>5 DEF Alike, Shape
<1> QED
  BY <1>1, <1>2, <1>4, <1>6, SumUpEqual, SumUpShape

LEMMA AdjustEqual ==
    ASSUME NEW one, Shape(one), NEW other, Shape(other), CompareHistory(one, other),
           NEW missed
    PROVE  CompareHistory(AdjustIntervals(one, missed), AdjustIntervals(other, missed))
<1> DEFINE slots(this) == [i \in 1 .. this.size |->
               IF i <= this.count THEN [this.intervals[i] EXCEPT !.length = Scale(@, missed)]
               ELSE this.intervals[i]]
           res(this) == [this EXCEPT !.intervals = slots(this)]
<1>1. ASSUME NEW this, Shape(this)
      PROVE  /\ AdjustIntervals(this, missed) = SumUp(res(this))
             /\ DOMAIN res(this) = Fields /\ res(this).size = this.size
             /\ res(this).count = this.count
             /\ \A i \in 1 .. this.count :
                    res(this).intervals[i].length = Scale(this.intervals[i].length, missed)
  <2>1. AdjustIntervals(this, missed) = SumUp(res(this))
    BY DEF AdjustIntervals
  <2>2. ASSUME NEW i \in 1 .. this.count
        PROVE  slots(this)[i].length = Scale(this.intervals[i].length, missed)
    <3> DEFINE slot == this.intervals[i]
    <3>1. i \in 1 .. this.size /\ i <= this.count
      BY <1>1 DEF Shape
    <3>2. slots(this)[i] = [slot EXCEPT !.length = Scale(slot.length, missed)]
      BY <3>1
    <3>3. slot \in [length : Int, sample : Nat]
      BY <1>1, <3>1 DEF Shape
    <3> QED
      BY <3>2, <3>3
  <2> HIDE DEF slots
  <2>3. /\ DOMAIN res(this) = Fields /\ res(this).size = this.size
        /\ res(this).count = this.count /\ res(this).intervals = slots(this)
    BY <1>1, ChangeIntervals DEF Shape
  <2> QED
    BY <2>1, <2>2, <2>3
<1> HIDE DEF res
<1>2. Alike(res(one), res(other))
  BY <1>1 DEF Alike, CompareHistory
<1> QED
  BY <1>1, <1>2, SumUpEqual

\* Histories that compare_history finds equal are equal again after the same
\* intervals have been added to both, or the same missed count applied, whatever
\* stands in the slots that it does not look at; for every size of the window.
THEOREM EqualHistories == Spec => []EqualStaysEqual
<1>1. Inv => EqualStaysEqual
  <2> DEFINE one == history["detector"]
             other == history["state"]
             new(length) == [length |-> length, sample |-> 0]
  <2> SUFFICES ASSUME Inv, CompareHistory(one, other)
               PROVE  /\ \A a, b \in Lengths :
                             CompareHistory(AddInterval(AddInterval(one, new(a)), new(b)),
                                            AddInterval(AddInterval(other, new(a)), new(b)))
                      /\ \A missed \in MissedCounts :
                             CompareHistory(AdjustIntervals(one, missed), AdjustIntervals(other, missed))
    BY DEF EqualStaysEqual
  <2>1. Shape(one) /\ Shape(other)
    BY DEF Inv, Window, Histories
  <2>2. \A a \in Lengths : new(a) \in [length : Int, sample : Nat]
    BY HistoryAssumption
  <2> HIDE DEF one, other, new
  <2>3. ASSUME NEW a \in Lengths, NEW b \in Lengths
        PROVE  CompareHistory(AddInterval(AddInterval(one, new(a)), new(b)),
                              AddInterval(AddInterval(other, new(a)), new(b)))
    <3>1. /\ CompareHistory(AddInterval(one, new(a)), AddInterval(other, new(a)))
          /\ Shape(AddInterval(one, new(a))) /\ Shape(AddInterval(other, new(a)))
      BY <2>1, <2>2, AddEqual
    <3> QED
      BY <2>2, <3>1, AddEqual
  <2> QED
    BY <2>1, <2>3, AdjustEqual
<1> QED
  BY <1>1, InitInv, NextInv, PTL DEF Spec
=============================================================================
