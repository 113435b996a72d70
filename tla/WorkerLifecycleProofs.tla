------------------------ MODULE WorkerLifecycleProofs ------------------------
(***************************************************************************)
(* The plugins of an account, their order, their workers and their end,    *)
(* for any choice of plugins and any number of connects and failures.      *)
(***************************************************************************)
EXTENDS WorkerLifecycle, SequenceTheorems, FiniteSetTheorems, WellFoundedInduction, TLAPS

-----------------------------------------------------------------------------
(* Numbers *)

\* A nonempty set of numbers has a least one, which Min gives.
LEMMA MinIsLeast ==
    ASSUME NEW S \in SUBSET Nat, S # {}
    PROVE  Min(S) \in S /\ \A n \in S : Min(S) <= n
<1> DEFINE R == OpToRel(<, Nat)
<1>1. \A m, n \in Nat : m < n => <<m, n>> \in R
    BY DEF OpToRel
<1>2. IsWellFoundedOn(R, Nat)
    BY NatLessThanWellFounded
<1> HIDE DEF R
<1>3. \E n \in S : \A m \in S : ~ (<<m, n>> \in R)
    BY <1>2, WFMin
<1>4. PICK n \in S : \A m \in S : ~ (<<m, n>> \in R)
    BY <1>3
<1>5. \A m \in S : ~ (m < n)
    BY <1>1, <1>4
<1>6. \A m \in S : n <= m
    BY <1>5
<1> QED
    BY <1>6 DEF Min

\* A bounded one has a greatest, which Max gives.
LEMMA MaxIsGreatest ==
    ASSUME NEW S \in SUBSET Nat, S # {}, NEW bound \in Nat, \A n \in S : n <= bound
    PROVE  Max(S) \in S /\ \A n \in S : Max(S) >= n
<1> DEFINE distances == {d \in Nat : bound - d \in S}
<1>1. PICK s \in S : TRUE
    OBVIOUS
<1>2. bound - s \in distances
    <2>1. bound - s \in Nat /\ bound - (bound - s) = s
        BY <1>1
    <2> QED
        BY <1>1, <2>1
<1>3. PICK d \in distances : \A e \in distances : d <= e
    BY <1>2, MinIsLeast
<1>4. ASSUME NEW n \in S PROVE n <= bound - d
    <2>1. bound - n \in Nat /\ bound - (bound - n) = n
        BY <1>4
    <2>2. bound - n \in distances
        BY <1>4, <2>1
    <2>3. d <= bound - n /\ d \in Nat /\ n \in Nat
        BY <1>3, <1>4, <2>2
    <2> QED
        BY <2>3
<1>5. bound - d \in S
    BY <1>3
<1> HIDE DEF distances
<1>6. \A n \in S : bound - d >= n
    BY <1>4, <1>5
<1> QED
    BY <1>5, <1>6 DEF Max

-----------------------------------------------------------------------------
(* Sorting the plugins *)

\* What is before the place of an insertion stays, the rest moves by one.
LEMMA Inserted ==
    ASSUME NEW S, NEW seq \in Seq(S), NEW k \in 1..(Len(seq) + 1), NEW e \in S,
           NEW new, new = InsertAt(seq, k, e)
    PROVE  /\ new \in Seq(S) /\ Len(new) = Len(seq) + 1
           /\ new[k] = e
           /\ \A i \in 1..(k - 1) : new[i] = seq[i]
           /\ \A i \in k..Len(seq) : new[i + 1] = seq[i]
<1> DEFINE front == SubSeq(seq, 1, k - 1)
           back == SubSeq(seq, k, Len(seq))
<1>8. new = (front \o <<e>>) \o back
    BY DEF InsertAt
<1>1. /\ Len(seq) \in Nat /\ k \in Nat /\ k >= 1
      /\ \A i \in 1..Len(seq) : seq[i] \in S
    OBVIOUS
<1>2. /\ front \in Seq(S) /\ Len(front) = k - 1
      /\ \A i \in 1..(k - 1) : front[i] = seq[i]
    BY <1>1
<1>3. /\ back \in Seq(S) /\ Len(back) = Len(seq) + 1 - k
      /\ \A i \in 1..(Len(seq) + 1 - k) : back[i] = seq[i + k - 1]
    BY <1>1
<1> HIDE DEF front, back
<1>4. /\ front \o <<e>> \in Seq(S) /\ Len(front \o <<e>>) = k
      /\ (front \o <<e>>)[k] = e
      /\ \A i \in 1..(k - 1) : (front \o <<e>>)[i] = seq[i]
    BY <1>1, <1>2
<1>5. /\ new \in Seq(S) /\ Len(new) = Len(seq) + 1
      /\ \A i \in 1..k : new[i] = (front \o <<e>>)[i]
      /\ \A i \in (k + 1)..(Len(seq) + 1) : new[i] = back[i - k]
    <2>1. /\ new \in Seq(S) /\ Len(new) = k + Len(back)
          /\ \A i \in 1..(k + Len(back)) : new[i] =
                IF i <= k THEN (front \o <<e>>)[i] ELSE back[i - k]
        <3> DEFINE begin == front \o <<e>>
        <3>1. begin \in Seq(S) /\ Len(begin) = k /\ new = begin \o back
            BY <1>4, <1>8
        <3> HIDE DEF begin
        <3>2. /\ begin \o back \in Seq(S) /\ Len(begin \o back) = Len(begin) + Len(back)
              /\ \A i \in 1..(Len(begin) + Len(back)) : (begin \o back)[i] =
                    IF i <= Len(begin) THEN begin[i] ELSE back[i - Len(begin)]
            BY <1>3, <3>1, ConcatProperties
        <3> QED
            BY <3>1, <3>2 DEF begin
    <2>2. Len(back) = Len(seq) + 1 - k /\ k + Len(back) = Len(seq) + 1
        BY <1>1, <1>3
    <2>3. ASSUME NEW i \in 1..k PROVE new[i] = (front \o <<e>>)[i]
        <3>1. i \in 1..(k + Len(back)) /\ i <= k
            BY <1>1, <2>2
        <3> QED
            BY <2>1, <3>1
    <2>4. ASSUME NEW i \in (k + 1)..(Len(seq) + 1) PROVE new[i] = back[i - k]
        <3>1. i \in 1..(k + Len(back)) /\ ~ (i <= k)
            BY <1>1, <2>2
        <3> QED
            BY <2>1, <3>1
    <2> QED
        BY <2>1, <2>2, <2>3, <2>4
<1>6. new[k] = e /\ \A i \in 1..(k - 1) : new[i] = seq[i]
    BY <1>1, <1>4, <1>5
<1>7. ASSUME NEW i \in k..Len(seq) PROVE new[i + 1] = seq[i]
    <2>1. /\ i + 1 \in (k + 1)..(Len(seq) + 1) /\ (i + 1) - k \in 1..(Len(seq) + 1 - k)
          /\ ((i + 1) - k) + k - 1 = i
        BY <1>1
    <2> QED
        BY <1>3, <1>5, <2>1
<1> QED
    BY <1>5, <1>6, <1>7

\* The sorting of the first users is a function, whatever an insertion does.
LEMMA SortingUnfolds ==
    ASSUME NEW defaults, NEW users, NEW n \in Nat, n = Len(users)
    PROVE  \E f : /\ SortUserPlugins(defaults, users) = f[n]
                  /\ f[0] = [thrown |-> FALSE, plugins |-> defaults]
                  /\ \A i \in 1..n : f[i] = Placed(f[i - 1], users[i])
<1> DEFINE base == [thrown |-> FALSE, plugins |-> defaults]
           Sorts(f, m) ==
               f = [i \in 0..m |-> IF i = 0 THEN base ELSE Placed(f[i - 1], users[i])]
           prefix == CHOOSE f : Sorts(f, n)
           unsorted == {m \in Nat : ~ \E f : Sorts(f, m)}
<1>a. SortUserPlugins(defaults, users) = prefix[n]
    BY DEF SortUserPlugins
<1> HIDE DEF base
<1>b. ASSUME unsorted = {}
      PROVE  \E f : /\ SortUserPlugins(defaults, users) = f[n]
                    /\ f[0] = base
                    /\ \A i \in 1..n : f[i] = Placed(f[i - 1], users[i])
    <2>1. Sorts(prefix, n)
        <3> HIDE DEF Sorts
        <3> QED
            BY <1>b
    <2> HIDE DEF prefix
    <2>2. prefix = [i \in 0..n |-> IF i = 0 THEN base ELSE Placed(prefix[i - 1], users[i])]
        BY <2>1
    <2> HIDE DEF Sorts
    <2>3. 0 \in 0..n /\ \A i \in 1..n : i \in 0..n /\ i # 0
        OBVIOUS
    <2>4. prefix[0] = base /\ \A i \in 1..n : prefix[i] = Placed(prefix[i - 1], users[i])
        BY <2>2, <2>3
    <2> QED
        BY <1>a, <2>4
<1> SUFFICES ASSUME unsorted # {} PROVE FALSE
    BY <1>b DEF base
<1> HIDE DEF prefix
<1>1. PICK m \in unsorted : \A k \in unsorted : m <= k
    BY MinIsLeast
<1>2. m # 0
    <2>1. Sorts([i \in 0..0 |-> base], 0)
        OBVIOUS
    <2> QED
        BY <1>1, <2>1
<1>3. m - 1 \in Nat /\ m - 1 \notin unsorted
    BY <1>1, <1>2
<1>4. PICK f : Sorts(f, m - 1)
    BY <1>3
<1> DEFINE g == [i \in 0..m |-> IF i = m THEN Placed(f[m - 1], users[m]) ELSE f[i]]
<1>5. \A i \in 0..(m - 1) : f[i] = IF i = 0 THEN base ELSE Placed(f[i - 1], users[i])
    BY <1>4
<1>6. ASSUME NEW i \in 0..m
      PROVE  g[i] = IF i = 0 THEN base ELSE Placed(g[i - 1], users[i])
    <2>1. CASE i = m
        <3>1. g[i] = Placed(f[m - 1], users[m])
            BY <2>1
        <3>2. g[i - 1] = f[m - 1]
            BY <1>2, <1>3, <2>1
        <3> QED
            BY <1>2, <2>1, <3>1, <3>2
    <2>2. CASE i # m
        <3>1. g[i] = f[i] /\ i \in 0..(m - 1)
            BY <1>3, <2>2
        <3>2. i # 0 => g[i - 1] = f[i - 1]
            BY <1>3, <2>2
        <3> QED
            BY <1>5, <3>1, <3>2
    <2> QED
        BY <2>1, <2>2
<1>7. DOMAIN g = 0..m /\ g = [i \in 0..m |-> g[i]]
    OBVIOUS
<1> HIDE DEF g
<1>8. Sorts(g, m)
    BY <1>6, <1>7
<1> QED
    BY <1>1, <1>8


\* Each plugin is behind those its after names, and in front of the one its
\* before names first.
InPlace(plugins, p) ==
    /\ \A i \in DOMAIN plugins[p].after : \E q \in DOMAIN plugins :
            q < p /\ plugins[q].name = plugins[p].after[i]
    /\ plugins[p].before # <<>> =>
            /\ \E q \in DOMAIN plugins : plugins[q].name = plugins[p].before[1]
            /\ \A q \in DOMAIN plugins :
                    plugins[q].name = plugins[p].before[1] => q > p
Arranged(plugins) ==
    /\ plugins \in Seq(Plugins)
    /\ \A p \in DOMAIN plugins : InPlace(plugins, p)

LEMMA IndexFound ==
    ASSUME NEW plugins \in Seq(Plugins), NEW name
    PROVE  /\ IndexOfName(plugins, name) \in 0..Len(plugins)
           /\ IndexOfName(plugins, name) # 0 =>
                /\ plugins[IndexOfName(plugins, name)].name = name
                /\ \A q \in DOMAIN plugins :
                        plugins[q].name = name => IndexOfName(plugins, name) <= q
<1> DEFINE found == {i \in DOMAIN plugins : plugins[i].name = name}
<1>1. DOMAIN plugins = 1..Len(plugins) /\ Len(plugins) \in Nat
    OBVIOUS
<1>2. found \in SUBSET Nat
    BY <1>1
<1>3. CASE found = {}
    BY <1>1, <1>3 DEF IndexOfName
<1>4. CASE found # {}
    <2>1. Min(found) \in found /\ \A n \in found : Min(found) <= n
        BY <1>2, <1>4, MinIsLeast
    <2>2. IndexOfName(plugins, name) = Min(found)
        BY <1>4 DEF IndexOfName
    <2> QED
        BY <1>1, <2>1, <2>2
<1> QED
    BY <1>3, <1>4

\* Both parts of a concatenation are in it.
LEMMA ConcatElements ==
    ASSUME NEW S, NEW front \in Seq(S), NEW back \in Seq(S)
    PROVE  /\ \A i \in DOMAIN front : front[i] \in Range(front \o back)
           /\ \A i \in DOMAIN back : back[i] \in Range(front \o back)
<1> DEFINE all == front \o back
<1>1. /\ Len(front) \in Nat /\ DOMAIN front = 1..Len(front)
      /\ Len(back) \in Nat /\ DOMAIN back = 1..Len(back)
    OBVIOUS
<1>2. /\ all \in Seq(S) /\ Len(all) = Len(front) + Len(back)
      /\ \A i \in 1..(Len(front) + Len(back)) :
            all[i] = IF i <= Len(front) THEN front[i] ELSE back[i - Len(front)]
    BY ConcatProperties
<1> HIDE DEF all
<1>3. DOMAIN all = 1..(Len(front) + Len(back))
    BY <1>2
<1>4. ASSUME NEW i \in DOMAIN front PROVE front[i] \in Range(all)
    <2>1. i \in 1..(Len(front) + Len(back)) /\ i <= Len(front)
        BY <1>1, <1>4
    <2>2. i \in DOMAIN all /\ all[i] = front[i]
        BY <1>2, <1>3, <2>1
    <2> QED
        BY <2>2 DEF Range
<1>5. ASSUME NEW i \in DOMAIN back PROVE back[i] \in Range(all)
    <2> DEFINE k == Len(front) + i
    <2>1. k \in 1..(Len(front) + Len(back)) /\ ~ (k <= Len(front)) /\ k - Len(front) = i
        BY <1>1, <1>5
    <2> HIDE DEF k
    <2>2. k \in DOMAIN all /\ all[k] = back[i]
        BY <1>2, <1>3, <2>1
    <2> QED
        BY <2>2 DEF Range
<1> QED
    BY <1>4, <1>5 DEF all

\* An insertion that is not refused finds all the names.
LEMMA NamesFound ==
    ASSUME NEW plugins \in Seq(Plugins), NEW plugin,
           plugin.before \in Seq(STRING), plugin.after \in Seq(STRING),
           ~Misplaced(plugins, plugin)
    PROVE  /\ \A i \in DOMAIN plugin.before : IndexOfName(plugins, plugin.before[i]) # 0
           /\ \A i \in DOMAIN plugin.after : IndexOfName(plugins, plugin.after[i]) # 0
<1>1. /\ \A i \in DOMAIN plugin.before :
            plugin.before[i] \in Range(plugin.before \o plugin.after)
      /\ \A i \in DOMAIN plugin.after :
            plugin.after[i] \in Range(plugin.before \o plugin.after)
    BY ConcatElements
<1> QED
    BY <1>1 DEF Misplaced

\* afterIndex is behind all that is found.
LEMMA AfterIndexFound ==
    ASSUME NEW plugins \in Seq(Plugins), NEW names \in Seq(STRING), names # <<>>
    PROVE  /\ AfterIndex(plugins, names) \in 1..(Len(plugins) + 1)
           /\ \A i \in DOMAIN names :
                IndexOfName(plugins, names[i]) + 1 <= AfterIndex(plugins, names)
<1> DEFINE behind == {IndexOfName(plugins, names[i]) + 1 : i \in DOMAIN names}
<1>1. 1 \in DOMAIN names /\ Len(plugins) \in Nat
    OBVIOUS
<1>2. \A i \in DOMAIN names : IndexOfName(plugins, names[i]) \in 0..Len(plugins)
    BY IndexFound
<1>3. \A n \in behind : n \in 1..(Len(plugins) + 1)
    BY <1>1, <1>2
<1>4. behind \in SUBSET Nat /\ behind # {} /\ \A n \in behind : n <= Len(plugins) + 1
    BY <1>1, <1>3
<1>5. Max(behind) \in behind /\ \A n \in behind : Max(behind) >= n
    <2>1. Len(plugins) + 1 \in Nat
        BY <1>1
    <2> HIDE DEF behind
    <2> QED
        BY <1>4, <2>1, MaxIsGreatest
<1>6. AfterIndex(plugins, names) = Max(behind)
    BY DEF AfterIndex
<1>7. \A i \in DOMAIN names : IndexOfName(plugins, names[i]) + 1 \in behind
    OBVIOUS
<1> HIDE DEF behind
<1>8. ASSUME NEW i \in DOMAIN names
      PROVE  IndexOfName(plugins, names[i]) + 1 <= Max(behind)
    <2>1. /\ IndexOfName(plugins, names[i]) + 1 \in behind
          /\ IndexOfName(plugins, names[i]) + 1 \in 1..(Len(plugins) + 1)
          /\ Max(behind) \in 1..(Len(plugins) + 1)
        BY <1>3, <1>5, <1>7
    <2> QED
        BY <1>1, <1>5, <2>1
<1> QED
    BY <1>3, <1>5, <1>6, <1>8

\* It puts the plugin behind all it is to come after, and in front of the
\* one it names first.
LEMMA PlaceFound ==
    ASSUME NEW plugins \in Seq(Plugins), NEW plugin,
           plugin.before \in Seq(STRING), plugin.after \in Seq(STRING),
           ~Misplaced(plugins, plugin), NEW k, k = InjectionIndex(plugins, plugin)
    PROVE  /\ k \in 1..(Len(plugins) + 1)
           /\ \A i \in DOMAIN plugin.after : \E q \in DOMAIN plugins :
                    q < k /\ plugins[q].name = plugin.after[i]
           /\ plugin.before # <<>> =>
                /\ k \in DOMAIN plugins /\ plugins[k].name = plugin.before[1]
                /\ \A q \in DOMAIN plugins : plugins[q].name = plugin.before[1] => k <= q
<1>1. Len(plugins) \in Nat /\ DOMAIN plugins = 1..Len(plugins)
    OBVIOUS
<1>2. CASE plugin.before # <<>>
    <2>1. 1 \in DOMAIN plugin.before
        BY <1>2
    <2>2. k = BeforeIndex(plugins, plugin.before)
        BY <1>2 DEF InjectionIndex
    <2>3. k = IndexOfName(plugins, plugin.before[1])
        BY <1>2, <2>2 DEF BeforeIndex
    <2>4. k # 0
        BY <2>1, <2>3, NamesFound
    <2>5. /\ k \in DOMAIN plugins /\ plugins[k].name = plugin.before[1]
          /\ \A q \in DOMAIN plugins : plugins[q].name = plugin.before[1] => k <= q
        BY <1>1, <2>3, <2>4, IndexFound
    <2>6. ASSUME NEW i \in DOMAIN plugin.after
          PROVE  \E q \in DOMAIN plugins : q < k /\ plugins[q].name = plugin.after[i]
        <3> DEFINE q == IndexOfName(plugins, plugin.after[i])
        <3>1. plugin.after # <<>>
            BY <2>6
        <3>2. /\ q + 1 <= AfterIndex(plugins, plugin.after)
              /\ AfterIndex(plugins, plugin.after) \in 1..(Len(plugins) + 1)
            BY <2>6, <3>1, AfterIndexFound
        <3>3. ~ (AfterIndex(plugins, plugin.after) > k)
            BY <1>2, <2>2 DEF Misplaced
        <3>4. q # 0
            BY <2>6, NamesFound
        <3>5. q \in 0..Len(plugins) /\ plugins[q].name = plugin.after[i]
            BY <3>4, IndexFound
        <3> HIDE DEF q
        <3>6. q \in DOMAIN plugins /\ q < k
            BY <1>1, <2>5, <3>2, <3>3, <3>4, <3>5
        <3> QED
            BY <3>5, <3>6
    <2> QED
        BY <1>1, <2>5, <2>6
<1>3. CASE plugin.before = <<>> /\ plugin.after # <<>>
    <2>1. k = AfterIndex(plugins, plugin.after)
        BY <1>3 DEF InjectionIndex
    <2>2. k \in 1..(Len(plugins) + 1)
        BY <1>3, <2>1, AfterIndexFound
    <2>3. ASSUME NEW i \in DOMAIN plugin.after
          PROVE  \E q \in DOMAIN plugins : q < k /\ plugins[q].name = plugin.after[i]
        <3> DEFINE q == IndexOfName(plugins, plugin.after[i])
        <3>1. q + 1 <= k
            BY <1>3, <2>1, <2>3, AfterIndexFound
        <3>2. q # 0
            BY <2>3, NamesFound
        <3>3. q \in 0..Len(plugins) /\ plugins[q].name = plugin.after[i]
            BY <3>2, IndexFound
        <3> HIDE DEF q
        <3>4. q \in DOMAIN plugins /\ q < k
            BY <1>1, <2>2, <3>1, <3>2, <3>3
        <3> QED
            BY <3>3, <3>4
    <2> QED
        BY <1>3, <2>2, <2>3
<1>4. CASE plugin.before = <<>> /\ plugin.after = <<>>
    <2>1. k = Len(plugins) + 1
        BY <1>4 DEF InjectionIndex
    <2> QED
        BY <1>1, <1>4, <2>1
<1> QED
    BY <1>2, <1>3, <1>4

HasNames(plugin) == plugin.before \in Seq(STRING) /\ plugin.after \in Seq(STRING)
IsNew(plugins, plugin) == \A q \in DOMAIN plugins : plugins[q].name # plugin.name

\* An insertion moves no plugin across another, so that all stay in place.
LEMMA InsertedInPlace ==
    ASSUME NEW plugins, Arranged(plugins), NEW plugin \in Plugins,
           HasNames(plugin), IsNew(plugins, plugin),
           ~Misplaced(plugins, plugin),
           NEW new, new = InsertAt(plugins, InjectionIndex(plugins, plugin), plugin)
    PROVE  /\ Arranged(new)
           /\ \A p \in DOMAIN new :
                new[p] = plugin \/ \E q \in DOMAIN plugins : new[p] = plugins[q]
<1> DEFINE k == InjectionIndex(plugins, plugin)
           Moved(q) == IF q < k THEN q ELSE q + 1
<1>1. /\ plugins \in Seq(Plugins) /\ Len(plugins) \in Nat
      /\ DOMAIN plugins = 1..Len(plugins)
      /\ \A p \in DOMAIN plugins : InPlace(plugins, p)
    BY DEF Arranged
<1>2. /\ k \in 1..(Len(plugins) + 1)
      /\ \A i \in DOMAIN plugin.after : \E q \in DOMAIN plugins :
                q < k /\ plugins[q].name = plugin.after[i]
      /\ plugin.before # <<>> =>
            /\ k \in DOMAIN plugins /\ plugins[k].name = plugin.before[1]
            /\ \A q \in DOMAIN plugins : plugins[q].name = plugin.before[1] => k <= q
    BY <1>1, PlaceFound DEF HasNames
<1>3. new = InsertAt(plugins, k, plugin)
    OBVIOUS
<1> HIDE DEF k
<1>4. /\ new \in Seq(Plugins) /\ Len(new) = Len(plugins) + 1
      /\ new[k] = plugin
      /\ \A i \in 1..(k - 1) : new[i] = plugins[i]
      /\ \A i \in k..Len(plugins) : new[i + 1] = plugins[i]
    <2>1. plugins \in Seq(Plugins) /\ k \in 1..(Len(plugins) + 1)
        BY <1>1, <1>2
    <2> QED
        BY <2>1, <1>3, Inserted
<1>5. DOMAIN new = 1..(Len(plugins) + 1) /\ k \in DOMAIN new
    BY <1>1, <1>2, <1>4
<1>6. ASSUME NEW q \in DOMAIN plugins
      PROVE  Moved(q) \in DOMAIN new /\ new[Moved(q)] = plugins[q]
    <2>1. CASE q < k
        <3>1. q \in 1..(k - 1) /\ q \in 1..(Len(plugins) + 1)
            BY <1>1, <1>2, <2>1
        <3> QED
            BY <1>4, <1>5, <2>1, <3>1
    <2>2. CASE ~ (q < k)
        <3>1. q \in k..Len(plugins) /\ q + 1 \in 1..(Len(plugins) + 1)
            BY <1>1, <1>2, <2>2
        <3> QED
            BY <1>4, <1>5, <2>2, <3>1
    <2> QED
        BY <2>1, <2>2
<1>7. ASSUME NEW p \in DOMAIN new, p # k PROVE \E q \in DOMAIN plugins : p = Moved(q)
    <2>1. CASE p < k
        <3>1. p \in DOMAIN plugins
            BY <1>1, <1>2, <1>5, <2>1
        <3> QED
            BY <2>1, <3>1
    <2>2. CASE ~ (p < k)
        <3>1. p - 1 \in DOMAIN plugins /\ ~ (p - 1 < k) /\ (p - 1) + 1 = p
            BY <1>1, <1>2, <1>5, <1>7, <2>2
        <3> QED
            BY <3>1
    <2> QED
        BY <2>1, <2>2
<1>8. \A q, r \in DOMAIN plugins : q < r => Moved(q) < Moved(r)
    BY <1>1, <1>2
<1>9. \A q \in DOMAIN plugins : (q < k => Moved(q) < k) /\ (k <= q => Moved(q) > k)
    BY <1>1, <1>2
<1> HIDE DEF Moved
<1>10. InPlace(new, k)
    <2>1. ASSUME NEW i \in DOMAIN plugin.after
          PROVE  \E q \in DOMAIN new : q < k /\ new[q].name = plugin.after[i]
        <3>1. PICK q \in DOMAIN plugins : q < k /\ plugins[q].name = plugin.after[i]
            BY <1>2, <2>1
        <3>2. Moved(q) \in DOMAIN new /\ new[Moved(q)] = plugins[q] /\ Moved(q) < k
            BY <1>6, <1>9, <3>1
        <3> QED
            BY <3>1, <3>2
    <2>2. ASSUME plugin.before # <<>>
          PROVE  /\ \E q \in DOMAIN new : new[q].name = plugin.before[1]
                 /\ \A q \in DOMAIN new : new[q].name = plugin.before[1] => q > k
        <3>1. /\ k \in DOMAIN plugins /\ plugins[k].name = plugin.before[1]
              /\ \A q \in DOMAIN plugins : plugins[q].name = plugin.before[1] => k <= q
            BY <1>2, <2>2
        <3>2. Moved(k) \in DOMAIN new /\ new[Moved(k)] = plugins[k]
            BY <1>6, <3>1
        <3>3. ASSUME NEW q \in DOMAIN new, new[q].name = plugin.before[1] PROVE q > k
            <4>1. q # k
                BY <1>4, <3>1, <3>3 DEF IsNew
            <4>2. PICK r \in DOMAIN plugins : q = Moved(r)
                BY <1>7, <4>1
            <4>3. plugins[r].name = plugin.before[1]
                BY <1>6, <3>3, <4>2
            <4> QED
                BY <1>9, <3>1, <4>2, <4>3
        <3> QED
            BY <3>1, <3>2, <3>3
    <2> QED
        BY <1>4, <2>1, <2>2 DEF InPlace
<1>11. ASSUME NEW r \in DOMAIN plugins PROVE InPlace(new, Moved(r))
    <2>1. InPlace(plugins, r) /\ new[Moved(r)] = plugins[r]
        BY <1>1, <1>6
    <2>2. ASSUME NEW i \in DOMAIN plugins[r].after
          PROVE  \E q \in DOMAIN new : q < Moved(r) /\ new[q].name = plugins[r].after[i]
        <3>1. PICK q \in DOMAIN plugins : q < r /\ plugins[q].name = plugins[r].after[i]
            BY <2>1, <2>2 DEF InPlace
        <3>2. Moved(q) \in DOMAIN new /\ new[Moved(q)] = plugins[q] /\ Moved(q) < Moved(r)
            BY <1>6, <1>8, <3>1
        <3> QED
            BY <3>1, <3>2
    <2>3. ASSUME plugins[r].before # <<>>
          PROVE  /\ \E q \in DOMAIN new : new[q].name = plugins[r].before[1]
                 /\ \A q \in DOMAIN new :
                        new[q].name = plugins[r].before[1] => q > Moved(r)
        <3>1. PICK q \in DOMAIN plugins : plugins[q].name = plugins[r].before[1]
            BY <2>1, <2>3 DEF InPlace
        <3>2. Moved(q) \in DOMAIN new /\ new[Moved(q)] = plugins[q]
            BY <1>6
        <3>3. ASSUME NEW s \in DOMAIN new, new[s].name = plugins[r].before[1]
              PROVE  s > Moved(r)
            <4>1. s # k
                BY <1>4, <3>1, <3>3 DEF IsNew
            <4>2. PICK t \in DOMAIN plugins : s = Moved(t)
                BY <1>7, <4>1
            <4>3. plugins[t].name = plugins[r].before[1]
                BY <1>6, <3>3, <4>2
            <4>4. t > r
                BY <2>1, <2>3, <4>3 DEF InPlace
            <4>5. Moved(r) < Moved(t)
                BY <1>1, <1>8, <4>4
            <4>6. Moved(r) \in Nat /\ Moved(t) \in Nat
                BY <1>5, <1>6
            <4> QED
                BY <4>2, <4>5, <4>6
        <3> QED
            BY <3>1, <3>2, <3>3
    <2> QED
        BY <2>1, <2>2, <2>3 DEF InPlace
<1>12. \A p \in DOMAIN new : InPlace(new, p)
    BY <1>7, <1>10, <1>11
<1> QED
    BY <1>4, <1>6, <1>7, <1>12 DEF Arranged

\* The sorted plugins are in place, whatever the user has given.
LEMMA SortedInPlace ==
    ASSUME \A p \in Plugins : HasNames(p),
           NEW defaults \in Seq(Plugins), NEW users \in Seq(Plugins),
           NEW given, given = defaults \o users,
           \A i, j \in DOMAIN given : given[i].name = given[j].name => i = j,
           \A plugin \in Range(defaults) : plugin.before = <<>> /\ plugin.after = <<>>,
           NEW sorting, sorting = SortUserPlugins(defaults, users)
    PROVE  sorting.thrown \in BOOLEAN /\ Arranged(sorting.plugins)
<1> DEFINE d == Len(defaults)
           n == Len(users)
<1>1. d \in Nat /\ n \in Nat /\ DOMAIN defaults = 1..d /\ \A i \in 1..n : users[i] \in Plugins
    OBVIOUS
<1>2. /\ DOMAIN given = 1..(d + n)
      /\ \A i \in 1..(d + n) : given[i] = IF i <= d THEN defaults[i] ELSE users[i - d]
    <2>1. /\ given \in Seq(Plugins) /\ Len(given) = d + n
          /\ \A i \in 1..(d + n) : given[i] = IF i <= d THEN defaults[i] ELSE users[i - d]
        BY ConcatProperties
    <2> QED
        BY <2>1
<1> HIDE DEF d
<1>3. PICK prefix : /\ sorting = prefix[n]
                    /\ prefix[0] = [thrown |-> FALSE, plugins |-> defaults]
                    /\ \A i \in 1..n : prefix[i] = Placed(prefix[i - 1], users[i])
    <2> HIDE DEF n
    <2>1. n \in Nat /\ n = Len(users)
        BY <1>1 DEF n
    <2> QED
        BY <2>1, SortingUnfolds
<1> HIDE DEF n
<1> DEFINE Good(i) == /\ prefix[i].thrown \in BOOLEAN
                      /\ prefix[i] = [thrown |-> prefix[i].thrown, plugins |-> prefix[i].plugins]
                      /\ Arranged(prefix[i].plugins)
                      /\ \A p \in DOMAIN prefix[i].plugins : \E j \in 1..(d + i) :
                            prefix[i].plugins[p] = given[j]
           bad == {i \in 0..n : ~Good(i)}
<1>5. Good(0)
    <2>1. prefix[0].thrown = FALSE /\ prefix[0].plugins = defaults
        BY <1>3
    <2>2. ASSUME NEW p \in DOMAIN defaults PROVE InPlace(defaults, p)
        <3>1. defaults[p].before = <<>> /\ defaults[p].after = <<>>
            BY <2>2 DEF Range
        <3> QED
            BY <3>1 DEF InPlace
    <2>3. ASSUME NEW p \in DOMAIN defaults PROVE \E j \in 1..(d + 0) : defaults[p] = given[j]
        <3>1. p \in 1..d /\ p \in 1..(d + n) /\ p <= d
            BY <1>1
        <3> QED
            BY <1>1, <1>2, <3>1
    <2>4. prefix[0] = [thrown |-> FALSE, plugins |-> defaults]
        BY <1>3
    <2> QED
        BY <2>1, <2>2, <2>3, <2>4 DEF Arranged
<1>6. ASSUME NEW i \in 1..n, Good(i - 1) PROVE Good(i)
    <2> DEFINE old == prefix[i - 1]
               u == users[i]
    <2>1. prefix[i] = Placed(old, u) /\ u \in Plugins
        BY <1>1, <1>3
    <2>2. CASE old.thrown \/ Misplaced(old.plugins, u)
        <3>1. prefix[i] = [old EXCEPT !.thrown = TRUE]
            BY <2>1, <2>2 DEF Placed
        <3>2. prefix[i].thrown = TRUE /\ prefix[i].plugins = old.plugins
              /\ prefix[i] = [thrown |-> TRUE, plugins |-> old.plugins]
            BY <1>6, <3>1
        <3>3. 1..(d + (i - 1)) \subseteq 1..(d + i)
            BY <1>1
        <3>4. /\ Arranged(old.plugins)
              /\ \A p \in DOMAIN old.plugins : \E j \in 1..(d + i) :
                    old.plugins[p] = given[j]
            BY <1>6, <3>3
        <3> DEFINE kept == old.plugins
        <3>5. /\ prefix[i].thrown \in BOOLEAN
              /\ prefix[i] = [thrown |-> prefix[i].thrown, plugins |-> prefix[i].plugins]
              /\ prefix[i].plugins = kept
            BY <3>2
        <3>6. Arranged(kept) /\ \A p \in DOMAIN kept : \E j \in 1..(d + i) : kept[p] = given[j]
            BY <3>4
        <3> HIDE DEF old, kept
        <3> QED
            BY <3>5, <3>6
    <2>3. CASE ~ (old.thrown \/ Misplaced(old.plugins, u))
        <3> DEFINE new == InsertAt(old.plugins, InjectionIndex(old.plugins, u), u)
        <3>1. prefix[i] = [old EXCEPT !.plugins = new]
            BY <2>1, <2>3 DEF Placed
        <3>2. prefix[i].thrown = old.thrown /\ prefix[i].plugins = new
              /\ prefix[i] = [thrown |-> old.thrown, plugins |-> new]
            BY <1>6, <3>1
        <3>3. /\ d + i \in DOMAIN given /\ given[d + i] = u
            <4>1. d + i \in 1..(d + n) /\ ~ (d + i <= d) /\ (d + i) - d = i
                BY <1>1
            <4> QED
                BY <1>2, <4>1
        <3>4. IsNew(old.plugins, u)
            <4> SUFFICES ASSUME NEW q \in DOMAIN old.plugins PROVE old.plugins[q].name # u.name
                BY DEF IsNew
            <4>1. PICK j \in 1..(d + (i - 1)) : old.plugins[q] = given[j]
                BY <1>6
            <4>2. j \in DOMAIN given /\ j # d + i
                <5>1. j \in 1..(d + n) /\ j # d + i
                    BY <1>1
                <5> QED
                    BY <1>2, <5>1
            <4> QED
                BY <3>3, <4>1, <4>2
        <3>5. HasNames(u) /\ Arranged(old.plugins)
              /\ ~Misplaced(old.plugins, u)
            BY <1>6, <2>1, <2>3
        <3> HIDE DEF old, u
        <3>6. /\ Arranged(new)
              /\ \A p \in DOMAIN new :
                    new[p] = u \/ \E q \in DOMAIN old.plugins : new[p] = old.plugins[q]
            BY <2>1, <3>4, <3>5, InsertedInPlace
        <3> HIDE DEF new
        <3>7. ASSUME NEW p \in DOMAIN new PROVE \E j \in 1..(d + i) : new[p] = given[j]
            <4>1. CASE new[p] = u
                <5>1. d + i \in 1..(d + i)
                    BY <1>1, <1>2, <3>3
                <5> QED
                    BY <3>3, <4>1, <5>1
            <4>2. CASE \E q \in DOMAIN old.plugins : new[p] = old.plugins[q]
                <5>1. PICK q \in DOMAIN old.plugins : new[p] = old.plugins[q]
                    BY <4>2
                <5>2. PICK j \in 1..(d + (i - 1)) : old.plugins[q] = given[j]
                    BY <1>6 DEF old
                <5>3. j \in 1..(d + i)
                    BY <1>1
                <5> QED
                    BY <5>1, <5>2, <5>3
            <4> QED
                BY <3>6, <4>1, <4>2
        <3>8. old.thrown \in BOOLEAN
            BY <1>6 DEF old
        <3> QED
            BY <3>2, <3>6, <3>7, <3>8
    <2> QED
        BY <2>2, <2>3
<1> HIDE DEF Good
<1>7. bad = {}
    <2> SUFFICES ASSUME bad # {} PROVE FALSE
        OBVIOUS
    <2>1. PICK i \in bad : \A j \in bad : i <= j
        <3>1. bad \in SUBSET Nat
            BY <1>1
        <3> QED
            BY <3>1, MinIsLeast
    <2>2. i # 0 /\ i \in 0..n
        BY <1>5, <2>1
    <2>3. i \in 1..n /\ i - 1 \in 0..n /\ i - 1 \notin bad
        BY <1>1, <2>1, <2>2
    <2>4. Good(i - 1)
        BY <2>3
    <2> QED
        BY <1>6, <2>1, <2>3, <2>4
<1>8. Good(n)
    <2>1. n \in 0..n
        BY <1>1
    <2> QED
        BY <1>7, <2>1
<1> QED
    BY <1>3, <1>8 DEF Good

-----------------------------------------------------------------------------
(* The invariant *)

Callers == {"inject", "connect", "tick"}
Places == {"restop", "onStart", "execute", "failstop", "laststop", "onInjected"}
TickPlaces == {"execute", "failstop", "laststop"}
CallRecord == [plugin: Nat, by: Callers, at: Places]
WorkerRecord == [timer: BOOLEAN, stray: Nat, pass: Nat, isWorkerRunning: BOOLEAN]

\* How many calls like c are under way
Copies(c, bag) == IF c \in DOMAIN bag THEN bag[c] ELSE 0
\* At most one call of S is.
Solo(S, bag) ==
    \A c, d \in S : Copies(c, bag) > 0 /\ Copies(d, bag) > 0 => c = d /\ Copies(c, bag) = 1
None(S, bag) == \A c \in S : Copies(c, bag) = 0

Injections == {c \in CallRecord : c.by = "inject"}
Executions(p) == {c \in CallRecord : c.plugin = p /\ c.at = "execute"}
FailStops(p) == {c \in CallRecord : c.plugin = p /\ c.at = "failstop"}
Restop(p) == Call(p, "connect", "restop")

Typing ==
    /\ Arranged(order)
    /\ heard \in BOOLEAN /\ broken \in BOOLEAN
    /\ injected \in 0..(Len(order) + 1)
    /\ IsABag(calls)
    /\ worker \in [Plugin -> WorkerRecord]
    /\ polling \in BOOLEAN /\ ready \in BOOLEAN
    /\ leaving \in {"no", "transport", "stopping", "saving", "left", "failed"}
    /\ toStop \subseteq Registered
    /\ connects \in 0..MaxConnects /\ failures \in 0..MaxFailures
    /\ interrupted \subseteq Plugin /\ unstarted \subseteq Plugin /\ restless \in BOOLEAN

\* Who makes which calls
CallOK(c) ==
    /\ c \in CallRecord /\ c.plugin \in Plugin
    /\ c.by = "tick" => c.at \in TickPlaces
    /\ c.at = "restop" => c = Restop(c.plugin) /\ c.plugin \in Registered
    /\ c.by = "inject" => c.plugin = injected
CallsOK == \A c : Copies(c, calls) > 0 => CallOK(c)

\* The chain of injections is at one plugin.
OneInjection == Solo(Injections, calls)

\* The counter of the readiness interval counts each watcher once, and the
\* interval ends when the account is ready.
ReadinessOK ==
    /\ announced \subseteq watchReady /\ watchReady \subseteq Watchers
    /\ readyPlugins = Cardinality(announced)
    /\ polling => ~ready
    /\ injected = 0 => ~polling /\ ~ready

\* Unless it was interrupted, a plugin that is executed has its flag set, is executed once, and
\* is not being stopped after a failure, which would clear the flag.
Exclusive(p, bag, running) ==
    /\ Solo(Executions(p), bag)
    /\ running \/ None(Executions(p), bag)
    /\ None(Executions(p), bag) \/ None(FailStops(p), bag)
ExecutionOK ==
    \A p \in Plugin \ interrupted : Exclusive(p, calls, worker[p].isWorkerRunning)

\* Each connect loses at most one interval of a plugin, at the end of the stop
\* with which it begins.
StraysOK == \A p \in Plugin : worker[p].stray + Copies(Restop(p), calls) <= connects

\* Only workers that are injected have intervals.
TimersOK == \A p \in Plugin : worker[p].timer \/ worker[p].stray > 0 => p \in Registered

\* After a disconnect that found nothing under way only the intervals call, and
\* those still going belong to workers yet to be stopped.
Quiet == leaving # "no" /\ ~restless
QuietOK ==
    /\ leaving # "no" => Initialized
    /\ Quiet =>
        /\ \A c : Copies(c, calls) > 0 => c.by = "tick"
        /\ \A p \in Plugin : worker[p].stray = 0
        /\ leaving = "stopping" =>
                \A p \in Plugin : worker[p].timer => p \in toStop /\ p # Min(toStop)
        /\ leaving \in {"saving", "left"} => \A p \in Plugin : ~worker[p].timer

IInv ==
    /\ Typing
    /\ CallsOK
    /\ OneInjection
    /\ ReadinessOK
    /\ ExecutionOK
    /\ StraysOK
    /\ TimersOK
    /\ QuietOK

-----------------------------------------------------------------------------
(* Bags of calls *)

LEMMA CopiesType ==
    ASSUME NEW bag, IsABag(bag), NEW d
    PROVE  /\ Copies(d, bag) \in Nat
           /\ d \in DOMAIN bag <=> Copies(d, bag) > 0
BY DEF IsABag, Copies

LEMMA CopiesLess ==
    ASSUME NEW bag, IsABag(bag), NEW c \in DOMAIN bag,
           NEW less, less = bag (-) SetToBag({c})
    PROVE  /\ IsABag(less)
           /\ \A d : Copies(d, less) = Copies(d, bag) - (IF d = c THEN 1 ELSE 0)
<1> DEFINE B == [e \in DOMAIN bag |-> IF e \in {c} THEN bag[e] - 1 ELSE bag[e]]
<1>1. \A e \in DOMAIN bag : bag[e] \in Nat /\ bag[e] > 0
    BY DEF IsABag
<1>2. less = [e \in {d \in DOMAIN bag : B[d] > 0} |-> B[e]]
    BY DEF (-), SetToBag
<1>3. \A e \in DOMAIN bag : B[e] = (IF e = c THEN bag[e] - 1 ELSE bag[e]) /\ B[e] \in Nat
    BY <1>1
<1> HIDE DEF B
<1>4. IsABag(less)
    BY <1>2, <1>3 DEF IsABag
<1>5. ASSUME NEW d PROVE Copies(d, less) = Copies(d, bag) - (IF d = c THEN 1 ELSE 0)
    <2> DEFINE D == {e \in DOMAIN bag : B[e] > 0}
    <2>0. /\ DOMAIN less = D
          /\ \A e \in D : less[e] = B[e]
        BY <1>2
    <2>1. CASE d \notin DOMAIN bag
        <3>1. d # c /\ Copies(d, bag) = 0
            BY <2>1 DEF Copies
        <3>2. Copies(d, less) = 0
            BY <2>0, <2>1 DEF Copies
        <3>3. (IF d = c THEN 1 ELSE 0) = 0
            BY <3>1
        <3>4. Copies(d, bag) - (IF d = c THEN 1 ELSE 0) = 0 - 0
            BY <3>1, <3>3
        <3> QED
            BY <3>2, <3>4
    <2>2. CASE d \in DOMAIN bag /\ B[d] > 0
        <3>1. Copies(d, less) = B[d]
            BY <2>0, <2>2 DEF Copies
        <3>2. Copies(d, bag) = bag[d]
            BY <2>2 DEF Copies
        <3>3. B[d] = IF d = c THEN bag[d] - 1 ELSE bag[d]
            BY <1>3, <2>2
        <3>4. bag[d] \in Nat
            BY <1>1, <2>2
        <3> QED
            BY <3>1, <3>2, <3>3, <3>4
    <2>3. CASE d \in DOMAIN bag /\ ~ (B[d] > 0)
        <3>1. d = c /\ bag[d] = 1
            BY <1>1, <1>3, <2>3
        <3>2. Copies(d, less) = 0
            BY <2>0, <2>3 DEF Copies
        <3>3. Copies(d, bag) = 1
            BY <2>3, <3>1 DEF Copies
        <3> QED
            BY <3>1, <3>2, <3>3
    <2> QED
        BY <2>1, <2>2, <2>3
<1> QED
    BY <1>4, <1>5

LEMMA CopiesMore ==
    ASSUME NEW bag, IsABag(bag), NEW S, NEW more, more = bag (+) SetToBag(S)
    PROVE  /\ IsABag(more)
           /\ \A d : Copies(d, more) = Copies(d, bag) + (IF d \in S THEN 1 ELSE 0)
<1>1. \A e \in DOMAIN bag : bag[e] \in Nat /\ bag[e] > 0
    BY DEF IsABag
<1>2. more = [e \in DOMAIN bag \cup S |->
                (IF e \in DOMAIN bag THEN bag[e] ELSE 0) + (IF e \in S THEN 1 ELSE 0)]
    BY DEF (+), SetToBag
<1>3. IsABag(more)
    BY <1>1, <1>2 DEF IsABag
<1>4. ASSUME NEW d PROVE Copies(d, more) = Copies(d, bag) + (IF d \in S THEN 1 ELSE 0)
    <2>1. CASE d \in DOMAIN bag \cup S
        <3>1. more[d] = (IF d \in DOMAIN bag THEN bag[d] ELSE 0) + (IF d \in S THEN 1 ELSE 0)
            BY <1>2, <2>1
        <3>2. Copies(d, more) = more[d]
            BY <1>2, <2>1 DEF Copies
        <3>3. Copies(d, bag) = IF d \in DOMAIN bag THEN bag[d] ELSE 0
            BY DEF Copies
        <3> QED
            BY <3>1, <3>2, <3>3
    <2>2. CASE d \notin DOMAIN bag \cup S
        BY <1>2, <2>2 DEF Copies
    <2> QED
        BY <2>1, <2>2
<1> QED
    BY <1>3, <1>4

LEMMA NoCopies == IsABag(EmptyBag) /\ \A d : Copies(d, EmptyBag) = 0
BY DEF EmptyBag, SetToBag, IsABag, Copies

\* The bag new has one copy less of each call of C, and one more of each of X.
Changed(C, X, bag, new) ==
    /\ IsABag(new)
    /\ \A d : Copies(d, new) =
            Copies(d, bag) - (IF d \in C THEN 1 ELSE 0) + (IF d \in X THEN 1 ELSE 0)

LEMMA WithoutChanges ==
    ASSUME IsABag(calls), NEW c \in Waiting
    PROVE  Changed({c}, {}, calls, Without(c))
<1>1. c \in DOMAIN calls
    BY DEF Waiting, BagToSet
<1>2. /\ IsABag(Without(c))
      /\ \A d : Copies(d, Without(c)) = Copies(d, calls) - (IF d = c THEN 1 ELSE 0)
    BY <1>1, CopiesLess DEF Without
<1>3. \A d : Copies(d, calls) \in Nat
    BY CopiesType
<1> QED
    BY <1>2, <1>3 DEF Changed

LEMMA ReplacedChanges ==
    ASSUME IsABag(calls), NEW c \in Waiting, NEW S
    PROVE  Changed({c}, S, calls, Without(c) (+) SetToBag(S))
<1> DEFINE less == Without(c)
<1>1. IsABag(less) /\ \A d : Copies(d, less) = Copies(d, calls) - (IF d = c THEN 1 ELSE 0)
    <2>1. \A d : Copies(d, calls) \in Nat
        BY CopiesType
    <2> QED
        BY <2>1, WithoutChanges DEF Changed
<1> HIDE DEF less
<1>2. /\ IsABag(less (+) SetToBag(S))
      /\ \A d : Copies(d, less (+) SetToBag(S))
                    = Copies(d, less) + (IF d \in S THEN 1 ELSE 0)
    BY <1>1, CopiesMore
<1> QED
    BY <1>1, <1>2 DEF Changed, less

\* What a set's calls are after a change
LEMMA SoloKept ==
    ASSUME NEW S, NEW C, NEW X, NEW bag, NEW new, IsABag(bag), Changed(C, X, bag, new),
           S \cap X = {}
    PROVE  /\ Solo(S, bag) => Solo(S, new)
           /\ None(S, bag) => None(S, new)
           /\ \A c \in S \cap C : Solo(S, bag) /\ Copies(c, bag) > 0 => None(S, new)
<1>1. \A d : Copies(d, bag) \in Nat /\ Copies(d, new) \in Nat
    BY CopiesType DEF Changed
<1>2. \A d \in S : Copies(d, new) = Copies(d, bag) - (IF d \in C THEN 1 ELSE 0)
    BY <1>1 DEF Changed
<1> QED
    BY <1>1, <1>2 DEF Solo, None

LEMMA SoloAdded ==
    ASSUME NEW S, NEW C, NEW x, NEW bag, NEW new, IsABag(bag), Changed(C, {x}, bag, new),
           None(S, bag) \/ (Solo(S, bag) /\ \E c \in S \cap C : Copies(c, bag) > 0)
    PROVE  Solo(S, new)
<1>1. \A d : Copies(d, bag) \in Nat /\ Copies(d, new) \in Nat
    BY CopiesType DEF Changed
<1>2. \A d : Copies(d, new) =
            Copies(d, bag) - (IF d \in C THEN 1 ELSE 0) + (IF d = x THEN 1 ELSE 0)
    BY DEF Changed
<1>3. \A d \in S : d # x => Copies(d, new) = 0
    BY <1>1, <1>2 DEF Solo, None
<1>4. \A d \in S : d = x => Copies(d, new) <= 1
    BY <1>1, <1>2 DEF Solo, None
<1> QED
    BY <1>1, <1>3, <1>4 DEF Solo

-----------------------------------------------------------------------------
(* The sorted plugins and the workers *)

LEMMA OrderFacts ==
    ASSUME Arranged(order)
    PROVE  /\ Len(order) \in Nat /\ Plugin = 1..Len(order)
           /\ \A p \in Plugin :
                /\ order[p].maxPass \in Nat
                /\ order[p].worker \in BOOLEAN /\ order[p].executeOnStart \in BOOLEAN
                /\ order[p].hooked \in BOOLEAN
<1>1. order \in Seq(Plugins)
    BY DEF Arranged
<1>2. ASSUME NEW plugin \in Plugins
      PROVE  /\ plugin.maxPass \in Nat
             /\ plugin.worker \in BOOLEAN /\ plugin.executeOnStart \in BOOLEAN
             /\ plugin.hooked \in BOOLEAN
    BY LifecycleAssumption DEF LifecycleAssumption
<1>3. \A p \in 1..Len(order) : order[p] \in Plugins
    BY <1>1
<1> QED
    BY <1>1, <1>2, <1>3 DEF Plugin

LEMMA StoppedWorker ==
    ASSUME NEW w \in WorkerRecord
    PROVE  /\ Stopped(w) \in WorkerRecord
           /\ ~Stopped(w).timer /\ Stopped(w).stray = w.stray /\ ~Stopped(w).isWorkerRunning
           /\ Stopped(w).pass = 0
BY DEF Stopped, WorkerRecord

LEMMA TickingWorker ==
    ASSUME NEW w \in WorkerRecord, NEW p
    PROVE  /\ Ticking(p, w) \in WorkerRecord
           /\ Ticking(p, w).isWorkerRunning = w.isWorkerRunning
           /\ Ticking(p, w).stray \in w.stray..(w.stray + 1)
           /\ ~w.timer => Ticking(p, w).stray = w.stray
           /\ Ticking(p, w).pass = w.pass
           /\ w.timer \/ order[p].interval => Ticking(p, w).timer
<1>0. w.stray \in Nat /\ w.timer \in BOOLEAN
    BY DEF WorkerRecord
<1>1. CASE ~order[p].interval
    BY <1>0, <1>1 DEF Ticking
<1>2. CASE order[p].interval
    <2> DEFINE stray == IF w.timer THEN w.stray + 1 ELSE w.stray
    <2>1. Ticking(p, w) = [w EXCEPT !.timer = TRUE, !.stray = stray]
        BY <1>2 DEF Ticking
    <2>2. stray \in Nat /\ stray \in w.stray..(w.stray + 1) /\ (~w.timer => stray = w.stray)
        BY <1>0
    <2> HIDE DEF stray
    <2> QED
        BY <2>1, <2>2 DEF WorkerRecord
<1> QED
    BY <1>1, <1>2

LEMMA ExecutedWorker ==
    ASSUME NEW w \in WorkerRecord, NEW p
    PROVE  /\ Executed(p, w) \in WorkerRecord
           /\ ~Executed(p, w).isWorkerRunning
           /\ Executed(p, w).stray = w.stray /\ Executed(p, w).timer = w.timer
<1> DEFINE pass == IF order[p].maxPass = 0 THEN 0 ELSE w.pass + 1
<1>1. Executed(p, w) = [w EXCEPT !.isWorkerRunning = FALSE, !.pass = pass]
    BY DEF Executed
<1>2. pass \in Nat
    BY DEF WorkerRecord
<1> HIDE DEF pass
<1> QED
    BY <1>1, <1>2 DEF WorkerRecord

LEMMA EnteredWorker ==
    ASSUME NEW w \in WorkerRecord, NEW p
    PROVE  /\ Entered(p, w) \in WorkerRecord
           /\ Entered(p, w).stray = w.stray /\ (Entered(p, w).timer => w.timer)
           /\ ExecWaits(p, w) \in {"nothing", "throw", "execute", "laststop"}
           /\ ExecWaits(p, w) = "nothing" => Entered(p, w) = w
           /\ ExecWaits(p, w) # "nothing" => ~w.isWorkerRunning
           /\ ExecWaits(p, w) = "nothing" => w.isWorkerRunning
           /\ ExecWaits(p, w) = "throw" => Lacking(p)
           /\ ExecWaits(p, w) \in {"throw", "execute"} =>
                /\ Entered(p, w).isWorkerRunning
                /\ Entered(p, w).timer = w.timer /\ Entered(p, w).pass = w.pass
           /\ ExecWaits(p, w) = "laststop" =>
                LastPass(p, w) /\ ~Entered(p, w).isWorkerRunning /\ Entered(p, w).pass = 0
<1>1. CASE w.isWorkerRunning
    BY <1>1 DEF ExecWaits, Entered
<1>2. CASE ~w.isWorkerRunning /\ LastPass(p, w)
    <2>1. ExecWaits(p, w) = "laststop" /\ Entered(p, w) = Stopped(w)
        BY <1>2 DEF ExecWaits, Entered
    <2> QED
        BY <1>2, <2>1, StoppedWorker
<1>3. CASE ~w.isWorkerRunning /\ ~LastPass(p, w)
    <2>1. ExecWaits(p, w) = IF Lacking(p) THEN "throw" ELSE "execute"
        BY <1>3 DEF ExecWaits
    <2>2. Entered(p, w) = [w EXCEPT !.isWorkerRunning = TRUE]
        BY <2>1 DEF Entered
    <2> QED
        BY <1>3, <2>1, <2>2 DEF WorkerRecord
<1> QED
    BY <1>1, <1>2, <1>3

LEMMA IdleWorker == Idle \in WorkerRecord /\ ~Idle.timer /\ Idle.stray = 0
BY DEF Idle, WorkerRecord

-----------------------------------------------------------------------------
(* What the end of a hook may change *)

\* The chain of injections goes on to the next plugin to wait for: at most one
\* call more, and at most its worker gets an interval.
LEMMA InjectionGoesOn ==
    ASSUME Arranged(order), NEW from \in 1..(Len(order) + 1), NEW rest, NEW workers,
           InjectFrom(from, rest, workers)
    PROVE  /\ injected' \in from..(Len(order) + 1)
           /\ \/ calls' = rest
              \/ /\ injected' \in Plugin
                 /\ \E at \in {"onStart", "onInjected"} :
                        calls' = rest (+) SetToBag({Call(injected', "inject", at)})
           /\ \/ worker' = workers
              \/ /\ injected' \in Plugin /\ order[injected'].worker
                 /\ worker' =
                        [workers EXCEPT ![injected'] = Ticking(injected', workers[injected'])]
<1> DEFINE next == {q \in Plugin : q >= from /\ Waits(q)} \cup {Len(order) + 1}
           q == NextToWait(from)
<1>1. Len(order) \in Nat /\ Plugin = 1..Len(order)
    BY OrderFacts
<1>2. q \in next
    <2>1. next \in SUBSET Nat /\ next # {}
        BY <1>1
    <2> HIDE DEF next
    <2>2. Min(next) \in next
        BY <2>1, MinIsLeast
    <2> QED
        BY <2>2 DEF NextToWait, next
<1>3. q \in from..(Len(order) + 1)
    BY <1>1, <1>2
<1>4. injected' = q
    BY DEF InjectFrom
<1>5. \/ calls' = rest
      \/ /\ injected' \in Plugin
         /\ \E at \in {"onStart", "onInjected"} :
                calls' = rest (+) SetToBag({Call(injected', "inject", at)})
    BY DEF InjectFrom
<1>6. \/ worker' = workers
      \/ /\ injected' \in Plugin /\ order[injected'].worker
         /\ worker' = [workers EXCEPT ![injected'] = Ticking(injected', workers[injected'])]
    BY DEF InjectFrom
<1> QED
    BY <1>3, <1>4, <1>5, <1>6

\* Call c ends or comes to its next hook, leaving its worker as w; X is the
\* call it goes on as, if it does, or the next injection.
Stays(c, w, X) ==
    /\ injected' = injected
    /\ worker' = [worker EXCEPT ![c.plugin] = w]
    /\ \/ X = {}
       \/ \E at \in Places \ {"restop"} :
            X = {Call(c.plugin, c.by, at)} /\ (c.by = "tick" => at \in TickPlaces)
GoesOn(c, w, X) ==
    /\ c.by = "inject"
    /\ injected' \in (injected + 1)..(Len(order) + 1)
    /\ \/ X = {}
       \/ /\ injected' \in Plugin
          /\ \E at \in {"onStart", "onInjected"} : X = {Call(injected', "inject", at)}
    /\ LET workers == [worker EXCEPT ![c.plugin] = w]
       IN  \/ worker' = workers
           \/ /\ injected' \in Plugin /\ order[injected'].worker
              /\ worker' =
                    [workers EXCEPT ![injected'] = Ticking(injected', workers[injected'])]
Effect(c, w, X) ==
    /\ Changed({c}, X, calls, calls')
    /\ broken' \in BOOLEAN /\ (broken => broken')
    /\ Stays(c, w, X) \/ GoesOn(c, w, X)
Quietly(X) == \A x \in X : x.at \in {"onStart", "onInjected"}

LEMMA CallRecordOf ==
    ASSUME Typing, CallsOK, NEW c \in Waiting
    PROVE  /\ CallOK(c) /\ Copies(c, calls) > 0 /\ IsABag(calls)
           /\ \A at : [c EXCEPT !.at = at] = Call(c.plugin, c.by, at)
<1>1. IsABag(calls) /\ c \in DOMAIN calls
    BY DEF Typing, Waiting, BagToSet
<1>2. Copies(c, calls) > 0 /\ CallOK(c)
    BY <1>1, CopiesType DEF CallsOK
<1>3. c \in CallRecord
    BY <1>2 DEF CallOK
<1> QED
    BY <1>1, <1>2, <1>3 DEF CallRecord, Call

\* Waiting at the next hook, or ending, without a further injection
LEMMA ReplacedEffect ==
    ASSUME Typing, CallsOK, NEW c \in Waiting, NEW w, NEW at \in Places \ {"restop"},
           c.by = "tick" => at \in TickPlaces,
           calls' = Replaced(c, at), worker' = [worker EXCEPT ![c.plugin] = w],
           UNCHANGED <<injected, broken>>
    PROVE  Effect(c, w, {Call(c.plugin, c.by, at)})
<1>1. IsABag(calls) /\ [c EXCEPT !.at = at] = Call(c.plugin, c.by, at)
    BY CallRecordOf
<1>2. calls' = Without(c) (+) SetToBag({Call(c.plugin, c.by, at)})
    BY <1>1 DEF Replaced, Without
<1>3. Changed({c}, {Call(c.plugin, c.by, at)}, calls, calls')
    BY <1>1, <1>2, ReplacedChanges
<1> QED
    BY <1>3 DEF Effect, Stays, Typing

LEMMA RejectEffect ==
    ASSUME Typing, CallsOK, NEW c \in Waiting, NEW w, Reject(c, w)
    PROVE  Effect(c, w, {})
<1>1. Changed({c}, {}, calls, calls')
    BY CallRecordOf, WithoutChanges DEF Reject
<1>2. (broken \/ c.by = "inject") \in BOOLEAN
    OBVIOUS
<1> QED
    BY <1>1, <1>2 DEF Reject, Effect, Stays

LEMMA ReturnEffect ==
    ASSUME Typing, CallsOK, NEW c \in Waiting, NEW w, Return(c, w)
    PROVE  \E X : Effect(c, w, X) /\ Quietly(X)
<1> DEFINE workers == [worker EXCEPT ![c.plugin] = w]
           hook == order[c.plugin].hooked /\ c.at # "onInjected"
<1>1. CallOK(c) /\ IsABag(calls)
    BY CallRecordOf
<1>2. UNCHANGED broken
    BY DEF Return
<1>3. CASE c.by = "inject" /\ ~hook
    <2>1. c.plugin = injected /\ injected \in Plugin
        BY <1>1, <1>3 DEF CallOK
    <2>2. injected + 1 \in 1..(Len(order) + 1)
        BY <2>1, OrderFacts DEF Typing
    <2>3. InjectFrom(injected + 1, Without(c), workers)
        BY <1>3, <2>1 DEF Return
    <2> HIDE DEF workers
    <2>4. /\ injected' \in (injected + 1)..(Len(order) + 1)
          /\ \/ calls' = Without(c)
             \/ /\ injected' \in Plugin
                /\ \E at \in {"onStart", "onInjected"} :
                        calls' = Without(c) (+) SetToBag({Call(injected', "inject", at)})
          /\ \/ worker' = workers
             \/ /\ injected' \in Plugin /\ order[injected'].worker
                /\ worker' =
                    [workers EXCEPT ![injected'] = Ticking(injected', workers[injected'])]
        BY <2>2, <2>3, InjectionGoesOn DEF Typing
    <2>5. CASE calls' = Without(c)
        <3>1. Changed({c}, {}, calls, calls')
            BY <1>1, <2>5, WithoutChanges
        <3>2. GoesOn(c, w, {})
            BY <1>3, <2>4 DEF GoesOn, workers
        <3> QED
            BY <1>2, <3>1, <3>2 DEF Effect, Quietly, Typing
    <2>6. ASSUME injected' \in Plugin, NEW at \in {"onStart", "onInjected"},
                 calls' = Without(c) (+) SetToBag({Call(injected', "inject", at)})
          PROVE  \E X : Effect(c, w, X) /\ Quietly(X)
        <3> DEFINE X == {Call(injected', "inject", at)}
        <3>1. Changed({c}, X, calls, calls')
            BY <1>1, <2>6, ReplacedChanges
        <3>2. GoesOn(c, w, X)
            BY <1>3, <2>4, <2>6 DEF GoesOn, workers
        <3>3. Quietly(X)
            BY <2>6 DEF Quietly, Call
        <3> QED
            BY <1>2, <3>1, <3>2, <3>3 DEF Effect, Typing
    <2> QED
        BY <2>4, <2>5, <2>6
<1>4. CASE c.by = "inject" /\ hook
    <2>1. calls' = Replaced(c, "onInjected") /\ worker' = workers /\ UNCHANGED injected
        BY <1>4 DEF Return
    <2>2. Effect(c, w, {Call(c.plugin, c.by, "onInjected")})
        BY <1>2, <1>4, <2>1, ReplacedEffect DEF Places
    <2>3. Quietly({Call(c.plugin, c.by, "onInjected")})
        BY DEF Quietly, Call
    <2> QED
        BY <2>2, <2>3
<1>5. CASE c.by # "inject"
    <2>1. calls' = Without(c) /\ worker' = workers /\ UNCHANGED injected
        BY <1>5 DEF Return
    <2>2. Changed({c}, {}, calls, calls')
        BY <1>1, <2>1, WithoutChanges
    <2> QED
        BY <1>2, <2>1, <2>2 DEF Effect, Stays, Quietly, Typing
<1> QED
    BY <1>3, <1>4, <1>5


\* The worker that the end of c leaves ticks only if it did or if it was being
\* started; then it may have lost an interval.
Tame(c, w) ==
    /\ w \in WorkerRecord
    /\ w.timer => worker[c.plugin].timer \/ c.at = "restop"
    /\ w.stray <= worker[c.plugin].stray + (IF c = Restop(c.plugin) THEN 1 ELSE 0)
Steady == UNCHANGED <<order, connects, departure, restless>>

\* Another worker gets at most an interval, if it is the next to be injected.
LEMMA WorkersAfter ==
    ASSUME Typing, CallsOK, TimersOK, NEW c \in Waiting, NEW w, NEW X,
           Effect(c, w, X), Tame(c, w), UNCHANGED order
    PROVE  /\ injected' \in injected..(Len(order) + 1)
           /\ worker' \in [Plugin -> WorkerRecord]
           /\ worker'[c.plugin] = w
           /\ \A p \in Plugin \ {c.plugin} :
                /\ worker'[p].isWorkerRunning = worker[p].isWorkerRunning
                /\ worker'[p].stray = worker[p].stray
                /\ worker'[p].pass = worker[p].pass
                /\ worker[p].timer => worker'[p].timer
                /\ worker'[p].timer =>
                        worker[p].timer \/ (c.by = "inject" /\ p \in Registered')
<1>1. CallOK(c) /\ c.plugin \in Plugin
    BY CallRecordOf DEF CallOK
<1>2. Len(order) \in Nat /\ Plugin = 1..Len(order) /\ injected \in Nat
    BY OrderFacts DEF Typing
<1>3. w \in WorkerRecord /\ worker \in [Plugin -> WorkerRecord]
    BY DEF Tame, Typing
<1>4. CASE Stays(c, w, X)
    <2>1. injected' = injected /\ worker' = [worker EXCEPT ![c.plugin] = w]
        BY <1>4 DEF Stays
    <2>2. injected' \in injected..(Len(order) + 1)
        BY <1>2, <2>1 DEF Typing
    <2> QED
        BY <1>1, <1>3, <2>1, <2>2
<1>5. CASE GoesOn(c, w, X)
    <2> DEFINE workers == [worker EXCEPT ![c.plugin] = w]
               q == injected'
    <2>1. c.by = "inject" /\ q \in (injected + 1)..(Len(order) + 1)
        BY <1>5 DEF GoesOn
    <2>2. c.plugin = injected
        BY <1>1, <2>1 DEF CallOK
    <2>3. workers \in [Plugin -> WorkerRecord] /\ workers[c.plugin] = w
        BY <1>1, <1>3
    <2>4. \A p \in Plugin \ {c.plugin} : workers[p] = worker[p]
        BY <1>3
    <2>5. \/ worker' = workers
          \/ q \in Plugin /\ order[q].worker
                /\ worker' = [workers EXCEPT ![q] = Ticking(q, workers[q])]
        BY <1>5 DEF GoesOn
    <2>6. q \in injected..(Len(order) + 1) /\ q # c.plugin
        BY <1>2, <2>1, <2>2
    <2> HIDE DEF workers
    <2>7. CASE worker' = workers
        BY <2>3, <2>4, <2>6, <2>7
    <2>8. CASE /\ q \in Plugin /\ order[q].worker
               /\ worker' = [workers EXCEPT ![q] = Ticking(q, workers[q])]
        <3>1. q \in Registered' /\ q \notin Registered
            BY <1>2, <2>1, <2>8 DEF Registered, Plugin
        <3>2. workers[q] = worker[q] /\ worker[q] \in WorkerRecord /\ ~worker[q].timer
            BY <1>3, <2>4, <2>6, <2>8, <3>1 DEF TimersOK
        <3> DEFINE t == Ticking(q, workers[q])
        <3>3. /\ t \in WorkerRecord
              /\ t.isWorkerRunning = worker[q].isWorkerRunning
              /\ t.stray = worker[q].stray /\ t.pass = worker[q].pass
            BY <3>2, TickingWorker
        <3>4. worker' = [workers EXCEPT ![q] = t] /\ q \in Plugin
            BY <2>8
        <3> HIDE DEF t
        <3>5. /\ worker' \in [Plugin -> WorkerRecord] /\ worker'[c.plugin] = w
              /\ worker'[q] = t
              /\ \A p \in Plugin \ {c.plugin, q} : worker'[p] = worker[p]
            BY <1>1, <2>3, <2>4, <2>6, <3>3, <3>4
        <3> QED
            BY <2>1, <2>6, <3>1, <3>2, <3>3, <3>5
    <2> QED
        BY <2>5, <2>7, <2>8
<1> QED
    BY <1>4, <1>5 DEF Effect

\* A call that may be added when last is the plugin being injected
NewCallOK(x, last) ==
    /\ x \in CallRecord /\ x.plugin \in Plugin /\ x.at # "restop"
    /\ x.by = "tick" => x.at \in TickPlaces
    /\ x.by = "inject" => x.plugin = last

\* The call added by the end of c, if there is one
LEMMA CallsAfter ==
    ASSUME Typing, CallsOK, NEW c \in Waiting, NEW w, NEW X, Effect(c, w, X), UNCHANGED order
    PROVE  /\ X = {} \/ \E x : X = {x}
           /\ \A x \in X :
                /\ NewCallOK(x, injected') /\ x.by = c.by
                /\ x.plugin = c.plugin \/ x.at \in {"onStart", "onInjected"}
<1>1. CallOK(c) /\ c \in CallRecord /\ c.plugin \in Plugin
    BY CallRecordOf DEF CallOK
<1>2. Len(order) \in Nat /\ Plugin = 1..Len(order) /\ Plugin' = Plugin
    BY OrderFacts DEF Typing, Plugin
<1>3. ASSUME Stays(c, w, X), NEW at \in Places \ {"restop"}, X = {Call(c.plugin, c.by, at)},
             c.by = "tick" => at \in TickPlaces, NEW x \in X
      PROVE  /\ NewCallOK(x, injected') /\ x.by = c.by
             /\ x.plugin = c.plugin
    <2>1. x = Call(c.plugin, c.by, at) /\ injected' = injected
        BY <1>3 DEF Stays
    <2>2. x.plugin = c.plugin /\ x.by = c.by /\ x.at = at
        BY <2>1 DEF Call
    <2>3. x \in CallRecord
        BY <1>1, <1>2, <2>1 DEF Call, CallRecord
    <2>4. NewCallOK(x, injected')
        BY <1>1, <1>2, <1>3, <2>1, <2>2, <2>3 DEF CallOK, NewCallOK
    <2> QED
        BY <2>2, <2>4, <1>3
<1>4. ASSUME GoesOn(c, w, X), NEW at \in {"onStart", "onInjected"}, injected' \in Plugin,
             X = {Call(injected', "inject", at)}, NEW x \in X
      PROVE  /\ NewCallOK(x, injected') /\ x.by = c.by
             /\ x.at \in {"onStart", "onInjected"}
    <2>1. x.plugin = injected' /\ x.by = "inject" /\ x.at = at /\ c.by = "inject"
        BY <1>4 DEF Call, GoesOn
    <2>2. x \in CallRecord
        BY <1>2, <1>4 DEF Call, CallRecord, Callers, Places
    <2>3. NewCallOK(x, injected')
        BY <1>2, <1>4, <2>1, <2>2 DEF NewCallOK
    <2> QED
        BY <1>4, <2>1, <2>3
<1> QED
    BY <1>3, <1>4 DEF Effect, Stays, GoesOn


Grown == injected <= injected' /\ Registered \subseteq Registered' /\ Watchers \subseteq Watchers'

LEMMA InjectedGrows ==
    ASSUME Typing, injected' \in injected..(Len(order) + 1), UNCHANGED order
    PROVE  Grown
BY OrderFacts DEF Typing, Grown, Registered, Watchers, Plugin

\* The parts of the invariant that every end of a hook keeps for the same reason
LEMMA EffectKeeps ==
    ASSUME Typing, CallsOK, OneInjection, StraysOK, TimersOK, QuietOK,
           NEW c \in Waiting, NEW w, NEW X, Effect(c, w, X), Tame(c, w), Steady
    PROVE  /\ IsABag(calls') /\ broken' \in BOOLEAN /\ worker' \in [Plugin -> WorkerRecord]
           /\ injected' \in injected..(Len(order) + 1)
           /\ CallsOK' /\ OneInjection' /\ StraysOK' /\ TimersOK' /\ QuietOK'
<1> USE DEF Steady
<1>1. /\ injected' \in injected..(Len(order) + 1)
      /\ worker' \in [Plugin -> WorkerRecord] /\ worker'[c.plugin] = w
      /\ \A p \in Plugin \ {c.plugin} :
            /\ worker'[p].stray = worker[p].stray
            /\ worker'[p].timer => worker[p].timer \/ (c.by = "inject" /\ p \in Registered')
    BY WorkersAfter
<1>2. Grown /\ Plugin' = Plugin
    BY <1>1, InjectedGrows DEF Plugin
<1>3. /\ X = {} \/ \E x : X = {x}
      /\ \A x \in X : NewCallOK(x, injected') /\ x.by = c.by
    BY CallsAfter
<1>4. CallOK(c) /\ c \in CallRecord /\ c.plugin \in Plugin /\ Copies(c, calls) > 0
    BY CallRecordOf DEF CallOK
<1>5. /\ Changed({c}, X, calls, calls') /\ IsABag(calls) /\ IsABag(calls') /\ broken' \in BOOLEAN
      /\ broken => broken'
    BY DEF Effect, Changed, Typing
<1>6. \A d : Copies(d, calls) \in Nat /\ Copies(d, calls') \in Nat
    BY <1>5, CopiesType
<1>7. \A d : Copies(d, calls') =
            Copies(d, calls) - (IF d = c THEN 1 ELSE 0) + (IF d \in X THEN 1 ELSE 0)
    BY <1>5 DEF Changed
<1>8. \A d : Copies(d, calls') > 0 =>
            d \in X \/ (Copies(d, calls) > 0 /\ (d = c => Copies(d, calls) > 1))
    BY <1>6, <1>7
<1>9. CallsOK'
    <2>1. ASSUME NEW d, Copies(d, calls) > 0, d = c => Copies(d, calls) > 1
          PROVE  CallOK(d)'
        <3>1. CallOK(d) /\ d \in CallRecord
            BY <2>1 DEF CallsOK, CallOK
        <3>2. d.by = "inject" => injected' = injected
            <4>1. ASSUME d.by = "inject", GoesOn(c, w, X) PROVE FALSE
                <5>1. c.by = "inject"
                    BY <4>1 DEF GoesOn
                <5>2. c = d /\ Copies(c, calls) = 1
                    BY <1>4, <2>1, <3>1, <4>1, <5>1 DEF OneInjection, Solo, Injections
                <5> QED
                    BY <2>1, <5>2
            <4> QED
                BY <4>1 DEF Effect, Stays
        <3> QED
            BY <1>2, <3>1, <3>2 DEF CallOK, Grown
    <2>2. ASSUME NEW d \in X PROVE CallOK(d)'
        BY <1>2, <1>3, <2>2 DEF CallOK, NewCallOK
    <2> QED
        BY <1>8, <2>1, <2>2 DEF CallsOK
<1>10. OneInjection'
    <2>1. CASE Injections \cap X = {}
        BY <1>5, <2>1, SoloKept DEF OneInjection
    <2>2. ASSUME NEW x \in X, x \in Injections PROVE OneInjection'
        <3>1. c \in Injections
            BY <1>3, <1>4, <2>2 DEF Injections
        <3>2. X = {x}
            BY <1>3, <2>2
        <3> QED
            BY <1>4, <1>5, <3>1, <3>2, SoloAdded DEF OneInjection
    <2> QED
        BY <2>1, <2>2
<1>11. ASSUME NEW p \in Plugin PROVE worker'[p].stray + Copies(Restop(p), calls') <= connects'
    <2>1. Restop(p).at = "restop" /\ Restop(p).plugin = p
        BY DEF Restop, Call
    <2>2. Restop(p) \notin X
        BY <1>3, <2>1 DEF NewCallOK
    <2>3. Copies(Restop(p), calls') = Copies(Restop(p), calls) - (IF Restop(p) = c THEN 1 ELSE 0)
        BY <1>6, <1>7, <2>2
    <2>4. worker'[p].stray <= worker[p].stray + (IF c = Restop(p) THEN 1 ELSE 0)
        <3>1. CASE p = c.plugin
            BY <1>1, <3>1 DEF Tame
        <3>2. CASE p # c.plugin
            <4>1. c # Restop(p) /\ worker'[p].stray = worker[p].stray
                BY <1>1, <2>1, <3>2
            <4>2. worker[p].stray \in Nat
                BY DEF Typing, WorkerRecord
            <4> QED
                BY <4>1, <4>2
        <3> QED
            BY <3>1, <3>2
    <2>5. worker[p].stray \in Nat /\ worker'[p].stray \in Nat
        BY <1>1 DEF Typing, WorkerRecord
    <2>6. worker[p].stray + Copies(Restop(p), calls) <= connects /\ connects \in Nat
        BY DEF StraysOK, Typing
    <2> QED
        BY <1>6, <2>3, <2>4, <2>5, <2>6
<1>12. StraysOK'
    BY <1>2, <1>11 DEF StraysOK
<1>13. TimersOK'
    <2>1. ASSUME NEW p \in Plugin, worker'[p].timer \/ worker'[p].stray > 0
          PROVE  p \in Registered'
        <3>1. CASE p # c.plugin
            BY <1>1, <1>2, <2>1, <3>1 DEF TimersOK, Grown
        <3>2. CASE p = c.plugin /\ c.at = "restop"
            BY <1>2, <1>4, <3>2 DEF CallOK, Grown
        <3>3. CASE p = c.plugin /\ c.at # "restop"
            <4>1. c # Restop(c.plugin)
                BY <3>3 DEF Restop, Call
            <4>2. worker[p].stray \in Nat /\ worker'[p].stray \in Nat
                BY <1>1 DEF Typing, WorkerRecord
            <4>3. worker[p].timer \/ worker[p].stray > 0
                BY <1>1, <2>1, <3>3, <4>1, <4>2 DEF Tame
            <4> QED
                BY <1>2, <4>3 DEF TimersOK, Grown
        <3> QED
            BY <3>1, <3>2, <3>3
    <2> QED
        BY <1>2, <2>1 DEF TimersOK
<1>14. QuietOK'
    <2>1. leaving' # "no" => Initialized'
        <3>1. injected > 0 => injected' > 0
            BY <1>1 DEF Typing
        <3> QED
            BY <1>5, <3>1 DEF QuietOK, Initialized, departure
    <2>2. ASSUME Quiet'
          PROVE  /\ \A d : Copies(d, calls') > 0 => d.by = "tick"
                 /\ \A p \in Plugin' : worker'[p].stray = 0
                 /\ \A p \in Plugin' : worker'[p].timer => worker[p].timer
        <3>1. Quiet
            BY <2>2 DEF Quiet, departure
        <3>2. \A d : Copies(d, calls) > 0 => d.by = "tick"
            BY <3>1 DEF QuietOK
        <3>3. c.by = "tick" /\ c.at # "restop" /\ c # Restop(c.plugin)
            BY <1>4, <3>2 DEF CallOK, TickPlaces, Restop, Call
        <3>4. \A d : Copies(d, calls') > 0 => d.by = "tick"
            BY <1>3, <1>8, <3>2, <3>3
        <3>5. \A p \in Plugin : worker[p].stray = 0
            BY <3>1 DEF QuietOK
        <3>6. w.stray <= 0 /\ w.stray \in Nat
            BY <1>4, <3>3, <3>5 DEF Tame, WorkerRecord
        <3>7. \A p \in Plugin : worker'[p].stray = 0
            BY <1>1, <3>5, <3>6
        <3>8. \A p \in Plugin : worker'[p].timer => worker[p].timer
            BY <1>1, <3>3 DEF Tame
        <3> QED
            BY <1>2, <3>4, <3>7, <3>8
    <2>3. Quiet' => Quiet
        BY DEF Quiet, departure
    <2> QED
        BY <1>2, <2>1, <2>2, <2>3 DEF QuietOK, departure
<1> QED
    BY <1>1, <1>5, <1>9, <1>10, <1>12, <1>13, <1>14


\* Call c ends or goes on, and its plugin is still executed once at most.
Done(c, w) ==
    \E X : /\ Effect(c, w, X)
           /\ c.plugin \notin interrupted' => Exclusive(c.plugin, calls', w.isWorkerRunning)

LEMMA ExclusiveKept ==
    ASSUME NEW p, NEW C, NEW X, NEW bag, NEW new, IsABag(bag), Changed(C, X, bag, new),
           NEW running, Exclusive(p, bag, running),
           \A x \in X : x.plugin # p \/ x.at \notin {"execute", "failstop"}
    PROVE  Exclusive(p, new, running)
<1>1. Executions(p) \cap X = {} /\ FailStops(p) \cap X = {}
    BY DEF Executions, FailStops
<1>2. /\ Solo(Executions(p), bag) => Solo(Executions(p), new)
      /\ None(Executions(p), bag) => None(Executions(p), new)
    BY <1>1, SoloKept
<1>3. None(FailStops(p), bag) => None(FailStops(p), new)
    BY <1>1, SoloKept
<1> QED
    BY <1>2, <1>3 DEF Exclusive

\* The other plugins are executed as before.
LEMMA ExecutionKept ==
    ASSUME Typing, CallsOK, TimersOK, ExecutionOK, NEW c \in Waiting, NEW w,
           Done(c, w), Tame(c, w), UNCHANGED order, interrupted \subseteq interrupted'
    PROVE  ExecutionOK'
<1>1. PICK X : /\ Effect(c, w, X)
               /\ c.plugin \notin interrupted' =>
                        Exclusive(c.plugin, calls', w.isWorkerRunning)
    BY DEF Done
<1>2. /\ worker'[c.plugin] = w
      /\ \A p \in Plugin \ {c.plugin} : worker'[p].isWorkerRunning = worker[p].isWorkerRunning
    BY <1>1, WorkersAfter
<1>3. \A x \in X : x.plugin = c.plugin \/ x.at \in {"onStart", "onInjected"}
    BY <1>1, CallsAfter
<1>4. Changed({c}, X, calls, calls') /\ IsABag(calls)
    BY <1>1 DEF Effect, Typing
<1>5. ASSUME NEW p \in Plugin \ interrupted'
      PROVE  Exclusive(p, calls', worker'[p].isWorkerRunning)
    <2>1. CASE p = c.plugin
        BY <1>1, <1>2, <1>5, <2>1
    <2>2. CASE p # c.plugin
        <3>1. Exclusive(p, calls, worker[p].isWorkerRunning)
            BY <1>5 DEF ExecutionOK
        <3>2. \A x \in X : x.plugin # p \/ x.at \notin {"execute", "failstop"}
            BY <1>3, <2>2
        <3>3. Exclusive(p, calls', worker[p].isWorkerRunning)
            BY <1>4, <3>1, <3>2, ExclusiveKept
        <3> QED
            BY <1>2, <2>2, <3>3
    <2> QED
        BY <2>1, <2>2
<1>6. Plugin' = Plugin
    BY DEF Plugin
<1> QED
    BY <1>5, <1>6 DEF ExecutionOK

\* A call that neither begins an execution nor the stop of a failed one, nor clears the flag
LEMMA DoneQuietly ==
    ASSUME Typing, CallsOK, ExecutionOK, NEW c \in Waiting, NEW w, NEW X, Effect(c, w, X),
           \A x \in X : x.at \notin {"execute", "failstop"},
           worker[c.plugin].isWorkerRunning => w.isWorkerRunning, interrupted \subseteq interrupted'
    PROVE  Done(c, w)
<1>1. Changed({c}, X, calls, calls') /\ IsABag(calls) /\ c.plugin \in Plugin
    BY CallRecordOf DEF Effect, CallOK
<1>2. ASSUME c.plugin \notin interrupted'
      PROVE  Exclusive(c.plugin, calls', w.isWorkerRunning)
    <2>1. Exclusive(c.plugin, calls, w.isWorkerRunning)
        BY <1>1, <1>2 DEF ExecutionOK, Exclusive
    <2> QED
        BY <1>1, <2>1, ExclusiveKept
<1> QED
    BY <1>2 DEF Done

LEMMA ReturnDone ==
    ASSUME Typing, CallsOK, ExecutionOK, NEW c \in Waiting, NEW w, Return(c, w),
           worker[c.plugin].isWorkerRunning => w.isWorkerRunning, interrupted \subseteq interrupted'
    PROVE  Done(c, w)
<1>1. PICK X : Effect(c, w, X) /\ Quietly(X)
    BY ReturnEffect
<1>2. \A x \in X : x.at \notin {"execute", "failstop"}
    BY <1>1 DEF Quietly
<1> QED
    BY <1>1, <1>2, DoneQuietly

LEMMA RejectDone ==
    ASSUME Typing, CallsOK, ExecutionOK, NEW c \in Waiting, NEW w, Reject(c, w),
           worker[c.plugin].isWorkerRunning => w.isWorkerRunning, interrupted \subseteq interrupted'
    PROVE  Done(c, w)
<1>1. Effect(c, w, {})
    BY RejectEffect
<1> QED
    BY <1>1, DoneQuietly

\* The worker that a call waits for is left as it is.
LEMMA Untouched ==
    ASSUME Typing, CallsOK, NEW c \in Waiting
    PROVE  /\ c.plugin \in Plugin /\ worker[c.plugin] \in WorkerRecord
           /\ Tame(c, worker[c.plugin])
<1>1. c.plugin \in Plugin
    BY CallRecordOf DEF CallOK
<1>2. worker[c.plugin] \in WorkerRecord
    BY <1>1 DEF Typing
<1>3. worker[c.plugin].stray \in Nat
    BY <1>2 DEF WorkerRecord
<1> QED
    BY <1>1, <1>2, <1>3 DEF Tame

LEMMA FailDone ==
    ASSUME Typing, CallsOK, ExecutionOK, NEW c \in Waiting, NEW w, Fail(c, w),
           worker[c.plugin].isWorkerRunning => w.isWorkerRunning, interrupted \subseteq interrupted'
    PROVE  Done(c, w)
BY ReturnDone, RejectDone DEF Fail

\* What else the end of a hook may note
Noted(c) ==
    /\ watchReady' \in {watchReady, Heard(c.plugin)}
    /\ failures' \in 0..MaxFailures
    /\ interrupted \subseteq interrupted' /\ interrupted' \subseteq interrupted \cup {c.plugin}
    /\ unstarted' \subseteq unstarted \cup {c.plugin}
Settled(c) == Noted(c) /\ \E w : Done(c, w) /\ Tame(c, w)

LEMMA Failing == ASSUME Typing, MayFail PROVE failures' \in 0..MaxFailures
BY LifecycleAssumption DEF Typing, MayFail, LifecycleAssumption

LEMMA Disturbing ==
    ASSUME NEW p, NEW at, NEW others
    PROVE  /\ interrupted \subseteq Disturbs(p, at, others)
           /\ Disturbs(p, at, others) \subseteq interrupted \cup {p}
BY DEF Disturbs


-----------------------------------------------------------------------------
(* Hooks settle *)

LEMMA RestoppedSettles ==
    ASSUME IInv, NEW c \in Waiting, Restopped(c) PROVE Settled(c)
<1> DEFINE w == Ticking(c.plugin, worker[c.plugin])
<1>1. Typing /\ CallsOK /\ ExecutionOK
    BY DEF IInv
<1>2. CallOK(c) /\ c.at = "restop" /\ c = Restop(c.plugin) /\ worker[c.plugin] \in WorkerRecord
    BY <1>1, CallRecordOf, Untouched DEF Restopped, CallOK
<1>3. /\ w \in WorkerRecord /\ w.isWorkerRunning = worker[c.plugin].isWorkerRunning
      /\ w.stray \in worker[c.plugin].stray..(worker[c.plugin].stray + 1)
    BY <1>2, TickingWorker
<1>4. /\ \/ calls' = Replaced(c, "onStart") /\ worker' = [worker EXCEPT ![c.plugin] = w]
              /\ UNCHANGED <<injected, broken>>
         \/ Return(c, w)
      /\ UNCHANGED <<watchReady, failures, interrupted, unstarted>>
    BY DEF Restopped
<1> HIDE DEF w
<1>5. Tame(c, w)
    BY <1>2, <1>3 DEF Tame, WorkerRecord
<1>6. Noted(c)
    BY <1>1, <1>4 DEF Noted, Typing
<1>7. CASE Return(c, w)
    BY <1>1, <1>3, <1>4, <1>5, <1>6, <1>7, ReturnDone DEF Settled
<1>8. CASE /\ calls' = Replaced(c, "onStart") /\ worker' = [worker EXCEPT ![c.plugin] = w]
           /\ UNCHANGED <<injected, broken>>
    <2> DEFINE x == Call(c.plugin, c.by, "onStart")
    <2>1. c.by # "tick"
        BY <1>2 DEF Restop, Call
    <2>2. Effect(c, w, {x})
        BY <1>1, <1>8, <2>1, ReplacedEffect DEF Places
    <2>3. x.at = "onStart"
        BY DEF Call
    <2> HIDE DEF x
    <2>4. \A y \in {x} : y.at \notin {"execute", "failstop"}
        BY <2>3
    <2> QED
        BY <1>1, <1>3, <1>4, <1>5, <1>6, <2>2, <2>4, DoneQuietly DEF Settled
<1> QED
    BY <1>4, <1>7, <1>8

\* execWorker, called when flag is as ExecWaits requires: who executes then is alone, unless
\* the stop of a failed execution is under way.
LEMMA ExecutionBegins ==
    ASSUME NEW p \in Plugin, NEW at \in {"execute", "laststop"}, NEW x, x.at = at,
           x.plugin = p, NEW w, at = "execute" => w.isWorkerRunning,
           NEW bag, IsABag(bag), NEW C, NEW new, Changed(C, {x}, bag, new),
           Exclusive(p, bag, FALSE), at = "execute" => None(FailStops(p), bag)
    PROVE  Exclusive(p, new, w.isWorkerRunning)
<1>1. None(Executions(p), bag) /\ Solo(Executions(p), bag)
    BY DEF Exclusive
<1>2. CASE at = "laststop"
    <2>1. Exclusive(p, bag, w.isWorkerRunning)
        BY <1>1 DEF Exclusive
    <2>2. \A y \in {x} : y.plugin # p \/ y.at \notin {"execute", "failstop"}
        BY <1>2
    <2> QED
        BY <2>1, <2>2, ExclusiveKept
<1>3. CASE at = "execute"
    <2>1. Solo(Executions(p), new)
        BY <1>1, SoloAdded
    <2>2. FailStops(p) \cap {x} = {}
        BY <1>3 DEF FailStops
    <2>3. None(FailStops(p), new)
        BY <1>3, <2>2, SoloKept
    <2> QED
        BY <1>3, <2>1, <2>3 DEF Exclusive
<1> QED
    BY <1>2, <1>3

\* No stop of a failed execution was met.
LEMMA NotDisturbed ==
    ASSUME NEW p \in Plugin, NEW others, p \notin Disturbs(p, "execute", others)
    PROVE  None(FailStops(p), others)
<1>1. "execute" \notin {"nothing", "throw"}
    OBVIOUS
<1>2. Disturbs(p, "execute", others) =
        interrupted \cup
            {q \in {p} : \E c \in DOMAIN others : c.plugin = q /\ c.at \in {"failstop"}}
    BY <1>1 DEF Disturbs, BagToSet
<1>3. \A c \in DOMAIN others : ~ (c.plugin = p /\ c.at = "failstop")
    BY <1>2
<1> QED
    BY <1>3 DEF None, FailStops, Copies

LEMMA WorkerStartedSettles ==
    ASSUME IInv, NEW c \in Waiting, WorkerStarted(c) PROVE Settled(c)
<1> DEFINE p == c.plugin
           w == Entered(p, worker[p])
           at == ExecWaits(p, worker[p])
<1>1. Typing /\ CallsOK /\ ExecutionOK
    BY DEF IInv
<1>2. CallOK(c) /\ IsABag(calls) /\ worker[p] \in WorkerRecord /\ p \in Plugin
    BY <1>1, CallRecordOf, Untouched
<1>3. /\ w \in WorkerRecord /\ w.stray = worker[p].stray /\ (w.timer => worker[p].timer)
      /\ at \in {"nothing", "throw", "execute", "laststop"}
      /\ at = "nothing" => w = worker[p]
      /\ at # "nothing" => ~worker[p].isWorkerRunning
      /\ at \in {"throw", "execute"} => w.isWorkerRunning
    BY <1>2, EnteredWorker
<1>4. /\ c.at = "onStart"
      /\ \/ at = "nothing" /\ Return(c, w)
         \/ at = "throw" /\ Fail(c, w)
         \/ /\ at \notin {"nothing", "throw"}
            /\ calls' = Replaced(c, at) /\ worker' = [worker EXCEPT ![p] = w]
            /\ UNCHANGED <<injected, broken>>
      /\ interrupted' = Disturbs(p, at, Without(c))
      /\ UNCHANGED <<watchReady, failures, unstarted>>
    BY DEF WorkerStarted
<1> HIDE DEF w, at
<1>5. interrupted \subseteq interrupted' /\ interrupted' \subseteq interrupted \cup {p}
    BY <1>4, Disturbing
<1>6. Tame(c, w)
    BY <1>2, <1>3 DEF Tame, WorkerRecord
<1>7. CASE at = "nothing"
    <2>1. Return(c, w) /\ w.isWorkerRunning = worker[c.plugin].isWorkerRunning
        BY <1>3, <1>4, <1>7
    <2> QED
        BY <1>1, <1>4, <1>5, <1>6, <2>1, ReturnDone DEF Settled, Noted, Typing
<1>8. CASE at = "throw"
    <2>1. Fail(c, w) /\ w.isWorkerRunning
        BY <1>3, <1>4, <1>8
    <2> QED
        BY <1>1, <1>4, <1>5, <1>6, <2>1, FailDone DEF Settled, Noted, Typing
<1>9. CASE at \notin {"nothing", "throw"}
    <2> DEFINE x == Call(p, c.by, at)
    <2>1. /\ calls' = Replaced(c, at) /\ worker' = [worker EXCEPT ![p] = w]
          /\ UNCHANGED <<injected, broken>>
        BY <1>4, <1>9
    <2>2. at \in Places \ {"restop"} /\ at \in TickPlaces
        BY <1>3, <1>9 DEF Places, TickPlaces
    <2>3. Effect(c, w, {x})
        BY <1>1, <2>1, <2>2, ReplacedEffect
    <2>4. x.at = at /\ x.plugin = p
        BY DEF Call
    <2> HIDE DEF x
    <2>5. Changed({c}, {x}, calls, calls')
        BY <2>3 DEF Effect
    <2>6. ASSUME p \notin interrupted' PROVE Exclusive(p, calls', w.isWorkerRunning)
        <3>1. Exclusive(p, calls, FALSE)
            BY <1>2, <1>3, <1>5, <1>9, <1>1, <2>6 DEF ExecutionOK, Exclusive
        <3>2. ASSUME at = "execute" PROVE None(FailStops(p), calls)
            <4>1. None(FailStops(p), Without(c))
                BY <1>2, <1>4, <2>6, <3>2, NotDisturbed
            <4>2. Changed({c}, {}, calls, Without(c)) /\ c \notin FailStops(p)
                BY <1>2, <1>4, WithoutChanges DEF FailStops
            <4>3. \A d : Copies(d, calls) \in Nat
                BY <1>2, CopiesType
            <4> QED
                BY <4>1, <4>2, <4>3 DEF None, Changed
        <3>3. at \in {"execute", "laststop"}
            BY <1>3, <1>9
        <3> QED
            BY <1>2, <1>3, <2>4, <2>5, <3>1, <3>2, <3>3, ExecutionBegins
    <2>7. Done(c, w)
        BY <2>3, <2>6 DEF Done
    <2> QED
        BY <1>1, <1>4, <1>5, <1>6, <2>7 DEF Settled, Noted, Typing
<1> QED
    BY <1>7, <1>9, <1>8


LEMMA PluginStartedSettles ==
    ASSUME IInv, NEW c \in Waiting, PluginStarted(c) PROVE Settled(c)
<1>1. Typing /\ CallsOK /\ ExecutionOK
    BY DEF IInv
<1>2. Noted(c) /\ interrupted \subseteq interrupted'
    BY <1>1 DEF PluginStarted, Noted, Typing
<1>3. Done(c, worker[c.plugin]) /\ Tame(c, worker[c.plugin])
    BY <1>1, <1>2, ReturnDone, Untouched DEF PluginStarted
<1> QED
    BY <1>2, <1>3 DEF Settled

LEMMA FailedSettles ==
    ASSUME IInv, NEW c \in Waiting, StartFailed(c) \/ StopFailed(c) PROVE Settled(c)
<1>1. Typing /\ CallsOK /\ ExecutionOK
    BY DEF IInv
<1>2. failures' \in 0..MaxFailures
    BY <1>1, Failing DEF StartFailed, StopFailed
<1>3. Noted(c) /\ interrupted \subseteq interrupted'
    BY <1>2 DEF StartFailed, StopFailed, Noted
<1>4. Fail(c, worker[c.plugin])
    BY DEF StartFailed, StopFailed
<1>5. Done(c, worker[c.plugin]) /\ Tame(c, worker[c.plugin])
    BY <1>1, <1>3, <1>4, FailDone, Untouched
<1> QED
    BY <1>3, <1>5 DEF Settled

\* After an execution, or after the stop of a failed one, none is under way.
LEMMA ExecutedDone ==
    ASSUME Typing, CallsOK, ExecutionOK, NEW c \in Waiting, c.at \in {"execute", "failstop"},
           Return(c, Executed(c.plugin, worker[c.plugin])), interrupted \subseteq interrupted'
    PROVE  /\ Done(c, Executed(c.plugin, worker[c.plugin]))
           /\ Tame(c, Executed(c.plugin, worker[c.plugin]))
<1> DEFINE p == c.plugin
           w == Executed(p, worker[p])
<1>1. c \in CallRecord /\ Copies(c, calls) > 0 /\ IsABag(calls)
    BY CallRecordOf DEF CallOK
<1>2. p \in Plugin /\ worker[p] \in WorkerRecord
    BY Untouched
<1>3. /\ w \in WorkerRecord /\ ~w.isWorkerRunning
      /\ w.stray = worker[p].stray /\ w.timer = worker[p].timer
    BY <1>2, ExecutedWorker
<1>4. PICK X : Effect(c, w, X) /\ Quietly(X)
    BY ReturnEffect
<1> HIDE DEF w
<1>5. Tame(c, w)
    BY <1>2, <1>3 DEF Tame, WorkerRecord
<1>6. ASSUME p \notin interrupted' PROVE Exclusive(p, calls', w.isWorkerRunning)
    <2>1. Exclusive(p, calls, worker[p].isWorkerRunning)
        BY <1>2, <1>6 DEF ExecutionOK
    <2>2. Changed({c}, X, calls, calls') /\ Executions(p) \cap X = {}
        BY <1>4 DEF Effect, Quietly, Executions
    <2>3. None(Executions(p), calls')
        <3>1. CASE c.at = "execute"
            <4>1. c \in Executions(p) /\ Solo(Executions(p), calls)
                BY <1>1, <2>1, <3>1 DEF Executions, Exclusive
            <4> QED
                BY <1>1, <2>2, <4>1, SoloKept
        <3>2. CASE c.at = "failstop"
            <4>1. c \in FailStops(p)
                BY <1>1, <3>2 DEF FailStops
            <4>2. ~None(FailStops(p), calls)
                BY <1>1, <4>1 DEF None
            <4>3. None(Executions(p), calls)
                BY <2>1, <4>2 DEF Exclusive
            <4> QED
                BY <1>1, <2>2, <4>3, SoloKept
        <3> QED
            BY <3>1, <3>2
    <2> QED
        BY <2>3 DEF Exclusive, Solo, None
<1> QED
    BY <1>4, <1>5, <1>6 DEF Done, w

LEMMA ExecutionEndsSettles ==
    ASSUME IInv, NEW c \in Waiting, ExecutionEnds(c) PROVE Settled(c)
<1>1. Typing /\ CallsOK /\ ExecutionOK
    BY DEF IInv
<1>2. Noted(c) /\ interrupted \subseteq interrupted'
    BY <1>1 DEF ExecutionEnds, Noted, Typing
<1>3. /\ Done(c, Executed(c.plugin, worker[c.plugin]))
      /\ Tame(c, Executed(c.plugin, worker[c.plugin]))
    BY <1>1, <1>2, ExecutedDone DEF ExecutionEnds
<1> QED
    BY <1>2, <1>3 DEF Settled

LEMMA StoppedAfterFailureSettles ==
    ASSUME IInv, NEW c \in Waiting, StoppedAfterFailure(c) PROVE Settled(c)
<1>1. Typing /\ CallsOK /\ ExecutionOK
    BY DEF IInv
<1>2. Noted(c) /\ interrupted \subseteq interrupted'
    BY <1>1 DEF StoppedAfterFailure, Noted, Typing
<1>3. CASE Reject(c, worker[c.plugin])
    BY <1>1, <1>2, <1>3, RejectDone, Untouched DEF Settled
<1>4. CASE Return(c, Executed(c.plugin, worker[c.plugin]))
    <2>1. /\ Done(c, Executed(c.plugin, worker[c.plugin]))
          /\ Tame(c, Executed(c.plugin, worker[c.plugin]))
        BY <1>1, <1>2, <1>4, ExecutedDone DEF StoppedAfterFailure
    <2> QED
        BY <1>2, <2>1 DEF Settled
<1> QED
    BY <1>3, <1>4 DEF StoppedAfterFailure

LEMMA ExecutionFailsSettles ==
    ASSUME IInv, NEW c \in Waiting, ExecutionFails(c) PROVE Settled(c)
<1> DEFINE p == c.plugin
           w == Stopped(worker[p])
           x == Call(p, c.by, "failstop")
<1>1. Typing /\ CallsOK /\ ExecutionOK
    BY DEF IInv
<1>2. /\ c \in CallRecord /\ Copies(c, calls) > 0 /\ IsABag(calls)
      /\ p \in Plugin /\ worker[p] \in WorkerRecord /\ worker \in [Plugin -> WorkerRecord]
    BY <1>1, CallRecordOf, Untouched DEF CallOK, Typing
<1>3. failures' \in 0..MaxFailures
    BY <1>1, Failing DEF ExecutionFails
<1>4. interrupted' = Disturbs(p, "failstop", Without(c))
    BY DEF ExecutionFails
<1>5. interrupted \subseteq interrupted' /\ interrupted' \subseteq interrupted \cup {p}
    BY <1>4, Disturbing
<1>6. Noted(c)
    BY <1>3, <1>5 DEF ExecutionFails, Noted
<1>7. w \in WorkerRecord /\ ~w.timer /\ w.stray = worker[p].stray /\ ~w.isWorkerRunning
    BY <1>2, StoppedWorker
<1>8. /\ c.at = "execute" /\ calls' = Replaced(c, "failstop")
      /\ worker' = [worker EXCEPT ![p] = w]
      /\ UNCHANGED <<injected, broken>>
    BY DEF ExecutionFails
<1> HIDE DEF w
<1>9. Tame(c, w)
    BY <1>2, <1>7 DEF Tame, WorkerRecord
<1>10. Effect(c, w, {x})
    BY <1>1, <1>8, ReplacedEffect DEF Places, TickPlaces
<1>11. ASSUME p \notin interrupted' PROVE Exclusive(p, calls', w.isWorkerRunning)
    <2>1. c \in Executions(p) /\ Solo(Executions(p), calls)
        BY <1>1, <1>2, <1>5, <1>8, <1>11 DEF Executions, ExecutionOK, Exclusive
    <2>2. Changed({c}, {x}, calls, calls') /\ Executions(p) \cap {x} = {}
        BY <1>10 DEF Effect, Executions, Call
    <2>3. None(Executions(p), calls')
        BY <1>2, <2>1, <2>2, SoloKept
    <2> QED
        BY <2>3 DEF Exclusive, Solo, None
<1>12. Done(c, w)
    BY <1>10, <1>11 DEF Done
<1> QED
    BY <1>6, <1>9, <1>12 DEF Settled

LEMMA EndedSettles ==
    ASSUME IInv, NEW c \in Waiting, StoppedAfterLast(c) \/ OnInjectedEnds(c) PROVE Settled(c)
<1>1. Typing /\ CallsOK /\ ExecutionOK
    BY DEF IInv
<1>2. failures' \in 0..MaxFailures
    BY <1>1, Failing DEF StoppedAfterLast, OnInjectedEnds, Typing
<1>3. Noted(c) /\ interrupted \subseteq interrupted'
    BY <1>1, <1>2 DEF StoppedAfterLast, OnInjectedEnds, Noted
<1>4. Return(c, worker[c.plugin]) \/ Reject(c, worker[c.plugin])
    BY DEF StoppedAfterLast, OnInjectedEnds
<1>5. Done(c, worker[c.plugin]) /\ Tame(c, worker[c.plugin])
    BY <1>1, <1>3, <1>4, ReturnDone, RejectDone, Untouched
<1> QED
    BY <1>3, <1>5 DEF Settled

\* The invariant survives the end of any hook.
LEMMA SettleKeeps ==
    ASSUME IInv, NEW c \in Waiting, Settle(c) PROVE IInv'
<1>1. Steady /\ UNCHANGED <<order, heard, announced, readyPlugins, polling, ready>>
    BY DEF Settle, Steady
<1>2. Settled(c)
    BY RestoppedSettles, WorkerStartedSettles, PluginStartedSettles, FailedSettles,
       ExecutionEndsSettles, ExecutionFailsSettles, StoppedAfterFailureSettles, EndedSettles
    DEF Settle
<1>3. PICK w : Done(c, w) /\ Tame(c, w)
    BY <1>2 DEF Settled
<1>4. PICK X : Effect(c, w, X)
    BY <1>3 DEF Done
<1>5. Noted(c) /\ c.plugin \in Plugin /\ Plugin' = Plugin
    BY <1>1, <1>2, Untouched DEF Settled, IInv, Plugin
<1>6. /\ IsABag(calls') /\ broken' \in BOOLEAN /\ worker' \in [Plugin -> WorkerRecord]
      /\ injected' \in injected..(Len(order) + 1)
      /\ CallsOK' /\ OneInjection' /\ StraysOK' /\ TimersOK' /\ QuietOK'
    BY <1>1, <1>3, <1>4, EffectKeeps DEF IInv
<1>7. ExecutionOK'
    BY <1>1, <1>3, <1>5, ExecutionKept DEF IInv, Noted
<1>8. Grown
    BY <1>1, <1>6, InjectedGrows DEF IInv
<1>9. ReadinessOK'
    <2>1. watchReady' \subseteq watchReady \cup Watchers /\ watchReady \subseteq watchReady'
        BY <1>5 DEF Noted, Heard
    <2>2. injected' = 0 => injected = 0
        BY <1>6 DEF IInv, Typing
    <2> QED
        BY <1>1, <1>8, <2>1, <2>2 DEF IInv, ReadinessOK, Grown
<1>10. Typing'
    <2>1. injected' \in 0..(Len(order) + 1)
        BY <1>6 DEF IInv, Typing
    <2> QED
        BY <1>1, <1>5, <1>6, <1>8, <2>1 DEF IInv, Typing, Noted, Steady, departure, Grown
<1> QED
    BY <1>6, <1>7, <1>9, <1>10 DEF IInv


-----------------------------------------------------------------------------
(* The initial states and the other actions *)

LEMMA SortingArranged ==
    ASSUME NEW choice \in PluginChoices, NEW sorting,
           sorting = SortUserPlugins(choice[1], choice[2])
    PROVE  sorting.thrown \in BOOLEAN /\ Arranged(sorting.plugins)
<1> DEFINE defaults == choice[1]
           users == choice[2]
           given == defaults \o users
<1>1. \A p \in Plugins : HasNames(p)
    BY LifecycleAssumption DEF LifecycleAssumption, HasNames
<1>2. /\ defaults \in Seq(Plugins) /\ users \in Seq(Plugins)
      /\ \A i, j \in DOMAIN given : given[i].name = given[j].name => i = j
      /\ \A plugin \in Range(defaults) : plugin.before = <<>> /\ plugin.after = <<>>
    BY LifecycleAssumption DEF LifecycleAssumption
<1> HIDE DEF given
<1>3. given = defaults \o users
    BY DEF given
<1> HIDE DEF defaults, users
<1>4. sorting = SortUserPlugins(defaults, users)
    BY DEF defaults, users
<1> QED
    BY <1>1, <1>2, <1>3, <1>4, SortedInPlace

LEMMA InitKeeps == ASSUME Init PROVE IInv
<1>1. PICK choice \in PluginChoices :
        LET sorting == SortUserPlugins(choice[1], choice[2])
        IN  /\ order = IF sorting.thrown THEN <<>> ELSE sorting.plugins
            /\ broken = sorting.thrown
    BY DEF Init
<1> DEFINE sorting == SortUserPlugins(choice[1], choice[2])
<1>2. sorting.thrown \in BOOLEAN /\ Arranged(sorting.plugins)
    BY SortingArranged
<1>3. Arranged(<<>>)
    BY DEF Arranged
<1>4. Arranged(order) /\ broken \in BOOLEAN
    BY <1>1, <1>2, <1>3
<1>5. /\ heard \in Hearing
      /\ injected = 0 /\ calls = EmptyBag /\ worker = [p \in Plugin |-> Idle]
      /\ watchReady = {} /\ announced = {} /\ readyPlugins = 0 /\ polling = FALSE /\ ready = FALSE
      /\ leaving = "no" /\ toStop = {}
      /\ connects = 0 /\ failures = 0
      /\ interrupted = {} /\ unstarted = {} /\ restless = FALSE
    BY DEF Init
<1>6. Len(order) \in Nat /\ Plugin = 1..Len(order)
    BY <1>4, OrderFacts
<1>7. IsABag(calls) /\ \A d : Copies(d, calls) = 0
    BY <1>5, NoCopies
<1>8. \A p \in Plugin : worker[p] \in WorkerRecord /\ ~worker[p].timer /\ worker[p].stray = 0
    BY <1>5, IdleWorker
<1>9. worker \in [Plugin -> WorkerRecord]
    BY <1>5, IdleWorker
<1>10. Typing
    <2>1. heard \in BOOLEAN /\ connects \in 0..MaxConnects /\ failures \in 0..MaxFailures
        BY <1>5, LifecycleAssumption DEF LifecycleAssumption
    <2>2. injected \in 0..(Len(order) + 1)
        BY <1>5, <1>6
    <2>3. /\ polling \in BOOLEAN /\ ready \in BOOLEAN
          /\ leaving \in {"no", "transport", "stopping", "saving", "left", "failed"}
          /\ toStop \subseteq Registered
          /\ interrupted \subseteq Plugin /\ unstarted \subseteq Plugin /\ restless \in BOOLEAN
        BY <1>5
    <2> QED
        BY <1>4, <1>7, <1>9, <2>1, <2>2, <2>3 DEF Typing
<1>11. CallsOK /\ OneInjection
    BY <1>7 DEF CallsOK, OneInjection, Solo
<1>12. ReadinessOK
    BY <1>5, FS_EmptySet DEF ReadinessOK
<1>13. ExecutionOK
    BY <1>7 DEF ExecutionOK, Exclusive, Solo, None
<1>14. StraysOK /\ TimersOK
    BY <1>5, <1>7, <1>8 DEF StraysOK, TimersOK
<1>15. QuietOK
    BY <1>5 DEF QuietOK, Quiet
<1> QED
    BY <1>10, <1>11, <1>12, <1>13, <1>14, <1>15 DEF IInv

LEMMA AddedChanges ==
    ASSUME NEW bag, IsABag(bag), NEW S
    PROVE  Changed({}, S, bag, bag (+) SetToBag(S))
<1> DEFINE more == bag (+) SetToBag(S)
<1>1. /\ IsABag(more)
      /\ \A d : Copies(d, more) = Copies(d, bag) + (IF d \in S THEN 1 ELSE 0)
    BY CopiesMore
<1>2. \A d : Copies(d, bag) \in Nat
    BY CopiesType
<1> HIDE DEF more
<1>3. Changed({}, S, bag, more)
    BY <1>1, <1>2 DEF Changed
<1> QED
    BY <1>3 DEF more

\* The parts about calls, when only calls are added
LEMMA AddedCalls ==
    ASSUME Typing, CallsOK, NEW X, Changed({}, X, calls, calls'), UNCHANGED order,
           injected' \in injected..(Len(order) + 1),
           injected' = injected \/ None(Injections, calls),
           \A x \in X : CallOK(x)'
    PROVE  /\ CallsOK'
           /\ \A d : Copies(d, calls') = Copies(d, calls) + (IF d \in X THEN 1 ELSE 0)
           /\ \A d : Copies(d, calls') \in Nat /\ Copies(d, calls) \in Nat
<1>1. IsABag(calls) /\ IsABag(calls')
    BY DEF Typing, Changed
<1>2. \A d : Copies(d, calls') \in Nat /\ Copies(d, calls) \in Nat
    BY <1>1, CopiesType
<1>3. \A d : Copies(d, calls') = Copies(d, calls) + (IF d \in X THEN 1 ELSE 0)
    BY <1>2 DEF Changed
<1>4. Grown /\ Plugin' = Plugin
    BY InjectedGrows DEF Plugin
<1>5. ASSUME NEW d, Copies(d, calls) > 0 PROVE CallOK(d)'
    <2>1. CallOK(d)
        BY <1>5 DEF CallsOK
    <2>2. d.by = "inject" => injected' = injected
        BY <1>5, <2>1 DEF None, Injections, CallOK
    <2> QED
        BY <1>4, <2>1, <2>2 DEF CallOK, Grown
<1>6. CallsOK'
    BY <1>2, <1>3, <1>5 DEF CallsOK
<1> QED
    BY <1>2, <1>3, <1>6

LEMMA InitializeKeeps == ASSUME IInv, Initialize PROVE IInv'
<1>1. /\ injected = 0 /\ ~broken /\ InjectFrom(1, calls, worker) /\ polling' = TRUE
      /\ UNCHANGED <<order, heard, broken, watchReady, announced, readyPlugins, ready, departure,
                     bounds, history>>
    BY DEF Initialize
<1>2. Typing /\ CallsOK /\ OneInjection /\ TimersOK /\ QuietOK /\ Arranged(order)
    BY DEF IInv, Typing
<1>3. Len(order) \in Nat /\ Plugin = 1..Len(order) /\ Plugin' = Plugin
    BY <1>1, <1>2, OrderFacts DEF Plugin
<1> DEFINE q == injected'
<1>4. 1 \in 1..(Len(order) + 1)
    BY <1>3
<1>5. /\ q \in 1..(Len(order) + 1)
      /\ \/ calls' = calls
         \/ /\ q \in Plugin
            /\ \E at \in {"onStart", "onInjected"} :
                    calls' = calls (+) SetToBag({Call(q, "inject", at)})
      /\ \/ worker' = worker
         \/ q \in Plugin /\ order[q].worker
                /\ worker' = [worker EXCEPT ![q] = Ticking(q, worker[q])]
    BY <1>1, <1>2, <1>4, InjectionGoesOn
<1>6. None(Injections, calls)
    <2>1. ASSUME NEW c \in Injections, Copies(c, calls) # 0 PROVE FALSE
        <3>1. Copies(c, calls) > 0
            BY <1>2, <2>1, CopiesType DEF Typing
        <3>2. CallOK(c) /\ c.by = "inject"
            BY <1>2, <2>1, <3>1 DEF CallsOK, Injections
        <3> QED
            BY <1>1, <1>3, <3>2 DEF CallOK
    <2> QED
        BY <2>1 DEF None
<1>7. PICK X : /\ X = {} \/ \E x : X = {x}
               /\ \A x \in X : NewCallOK(x, q) /\ x.at \notin {"execute", "failstop"}
               /\ Changed({}, X, calls, calls')
    <2>1. CASE calls' = calls
        <3>1. \A d : Copies(d, calls) \in Nat
            BY <1>2, CopiesType DEF Typing
        <3>2. Changed({}, {}, calls, calls')
            BY <1>2, <2>1, <3>1 DEF Changed, Typing
        <3> QED
            BY <3>2
    <2>2. ASSUME q \in Plugin, NEW at \in {"onStart", "onInjected"},
                 calls' = calls (+) SetToBag({Call(q, "inject", at)})
          PROVE  NewCallOK(Call(q, "inject", at), q)
                    /\ Call(q, "inject", at).at \notin {"execute", "failstop"}
                    /\ Changed({}, {Call(q, "inject", at)}, calls, calls')
        <3>1. NewCallOK(Call(q, "inject", at), q)
                    /\ Call(q, "inject", at).at \notin {"execute", "failstop"}
            BY <1>3, <2>2 DEF NewCallOK, Call, CallRecord, Callers, Places
        <3> QED
            BY <1>2, <2>2, <3>1, AddedChanges DEF Typing
    <2> QED
        BY <1>5, <2>1, <2>2
<1>8. q \in injected..(Len(order) + 1)
    BY <1>1, <1>5
<1>9. \A x \in X : CallOK(x)'
    BY <1>3, <1>7 DEF CallOK, NewCallOK
<1>10. /\ CallsOK'
       /\ \A d : Copies(d, calls') = Copies(d, calls) + (IF d \in X THEN 1 ELSE 0)
       /\ \A d : Copies(d, calls') \in Nat /\ Copies(d, calls) \in Nat
    BY <1>1, <1>2, <1>6, <1>7, <1>8, <1>9, AddedCalls
<1>11. Grown
    BY <1>1, <1>2, <1>8, InjectedGrows
<1>12. OneInjection'
    <2>1. IsABag(calls)
        BY <1>2 DEF Typing
    <2>2. CASE X = {}
        <3>1. Injections \cap X = {}
            BY <2>2
        <3>2. Solo(Injections, calls')
            BY <1>2, <1>7, <2>1, <3>1, SoloKept DEF OneInjection
        <3> QED
            BY <3>2 DEF OneInjection
    <2>3. ASSUME NEW x, X = {x} PROVE OneInjection'
        <3>1. Changed({}, {x}, calls, calls')
            BY <1>7, <2>3
        <3>2. Solo(Injections, calls')
            BY <1>6, <2>1, <3>1, SoloAdded
        <3> QED
            BY <3>2 DEF OneInjection
    <2> QED
        BY <1>7, <2>2, <2>3
<1>13. /\ worker' \in [Plugin -> WorkerRecord]
       /\ \A p \in Plugin :
            /\ worker'[p].isWorkerRunning = worker[p].isWorkerRunning
            /\ worker'[p].stray = worker[p].stray
            /\ worker'[p].timer => worker[p].timer \/ p \in Registered'
    <2>1. CASE worker' = worker
        BY <1>2, <2>1 DEF Typing
    <2>2. CASE q \in Plugin /\ order[q].worker
                /\ worker' = [worker EXCEPT ![q] = Ticking(q, worker[q])]
        <3>1. q \in Registered' /\ q \notin Registered
            BY <1>1, <1>3, <1>5, <2>2 DEF Registered, Plugin
        <3>2. worker[q] \in WorkerRecord /\ ~worker[q].timer
            BY <1>2, <2>2, <3>1 DEF TimersOK, Typing
        <3> DEFINE t == Ticking(q, worker[q])
        <3>3. /\ t \in WorkerRecord /\ t.isWorkerRunning = worker[q].isWorkerRunning
              /\ t.stray = worker[q].stray
            BY <3>2, TickingWorker
        <3>4. worker' = [worker EXCEPT ![q] = t] /\ q \in Plugin
            BY <2>2
        <3> HIDE DEF t
        <3>5. /\ worker' \in [Plugin -> WorkerRecord] /\ worker'[q] = t
              /\ \A p \in Plugin \ {q} : worker'[p] = worker[p]
            BY <1>2, <3>3, <3>4 DEF Typing
        <3> QED
            BY <3>1, <3>3, <3>5
    <2> QED
        BY <1>5, <2>1, <2>2
<1>14. ExecutionOK'
    <2>1. ASSUME NEW p \in Plugin \ interrupted
          PROVE  Exclusive(p, calls', worker'[p].isWorkerRunning)
        <3>1. Exclusive(p, calls, worker[p].isWorkerRunning) /\ IsABag(calls)
            BY <1>2, <2>1 DEF IInv, ExecutionOK, Typing
        <3>2. Exclusive(p, calls', worker[p].isWorkerRunning)
            BY <1>7, <3>1, ExclusiveKept
        <3> QED
            BY <1>13, <3>2
    <2> QED
        BY <1>1, <1>3, <2>1 DEF ExecutionOK, history
<1>15. StraysOK'
    <2>1. ASSUME NEW p \in Plugin PROVE worker'[p].stray + Copies(Restop(p), calls') <= connects
        <3>1. Restop(p) \notin X
            BY <1>7 DEF NewCallOK, Restop, Call
        <3>2. Copies(Restop(p), calls') = Copies(Restop(p), calls)
            BY <1>10, <3>1
        <3> QED
            BY <1>13, <3>2 DEF IInv, StraysOK
    <2> QED
        BY <1>1, <1>3, <2>1 DEF StraysOK, bounds
<1>16. TimersOK'
    BY <1>2, <1>3, <1>11, <1>13 DEF TimersOK, Grown
<1>17. QuietOK'
    BY <1>1, <1>2, <1>8 DEF QuietOK, Quiet, Initialized, departure
<1>18. ReadinessOK'
    <2>1. q # 0
        BY <1>5
    <2> QED
        BY <1>1, <1>11, <2>1 DEF IInv, ReadinessOK, Grown
<1>19. Typing'
    <2>1. q \in 0..(Len(order) + 1) /\ IsABag(calls')
        BY <1>3, <1>5, <1>7 DEF Changed
    <2> QED
        BY <1>1, <1>2, <1>3, <1>11, <1>13, <2>1 DEF Typing, Grown, departure, bounds, history
<1> QED
    BY <1>10, <1>12, <1>14, <1>15, <1>16, <1>17, <1>18, <1>19 DEF IInv


\* An interval adds its call, unless execWorker throws.
LEMMA TickChanges ==
    ASSUME IsABag(calls), NEW at, NEW x,
           calls' = IF at = "throw" THEN calls ELSE calls (+) SetToBag({x})
    PROVE  \E X : Changed({}, X, calls, calls') /\ X = IF at = "throw" THEN {} ELSE {x}
<1>1. CASE at = "throw"
    <2>1. \A d : Copies(d, calls) \in Nat
        BY CopiesType
    <2>2. Changed({}, {}, calls, calls')
        BY <1>1, <2>1 DEF Changed
    <2> QED
        BY <1>1, <2>2
<1>2. CASE at # "throw"
    <2>1. Changed({}, {x}, calls, calls')
        BY <1>2, AddedChanges
    <2> QED
        BY <1>2, <2>1
<1> QED
    BY <1>1, <1>2

LEMMA TickKeeps == ASSUME IInv, NEW p \in Plugin, Tick(p) PROVE IInv'
<1> DEFINE at == ExecWaits(p, worker[p])
           w == Entered(p, worker[p])
<1>0. PICK x : x = Call(p, "tick", at)
    OBVIOUS
<1>1. /\ worker[p].timer \/ worker[p].stray > 0
      /\ at # "nothing"
      /\ calls' = IF at = "throw" THEN calls ELSE calls (+) SetToBag({x})
      /\ worker' = [worker EXCEPT ![p] = w]
      /\ interrupted' = Disturbs(p, at, calls)
      /\ UNCHANGED <<injection, readiness, departure, bounds, unstarted, restless>>
    BY <1>0 DEF Tick
<1>2. Typing /\ CallsOK /\ OneInjection /\ ExecutionOK /\ IsABag(calls)
    BY DEF IInv, Typing
<1>3. worker[p] \in WorkerRecord /\ worker \in [Plugin -> WorkerRecord]
    BY <1>2 DEF Typing
<1>4. /\ w \in WorkerRecord /\ w.stray = worker[p].stray /\ (w.timer => worker[p].timer)
      /\ at \in {"throw", "execute", "laststop"}
      /\ ~worker[p].isWorkerRunning
      /\ at \in {"throw", "execute"} => w.isWorkerRunning
    BY <1>1, <1>3, EnteredWorker
<1>5. x.plugin = p /\ x.by = "tick" /\ x.at = at
    BY <1>0 DEF Call
<1>6. at # "throw" => x \in CallRecord
    <2>1. p \in Nat
        BY <1>2, OrderFacts DEF Typing
    <2> QED
        BY <1>0, <1>4, <2>1 DEF Call, CallRecord, Callers, Places
<1>7. PICK X : Changed({}, X, calls, calls') /\ X = IF at = "throw" THEN {} ELSE {x}
    BY <1>1, <1>2, TickChanges
<1> HIDE DEF at, w
<1>8. UNCHANGED order /\ injected' = injected /\ injected \in injected..(Len(order) + 1)
    BY <1>1, <1>2, OrderFacts DEF injection, Typing
<1>9. Plugin' = Plugin /\ Registered' = Registered /\ Watchers' = Watchers
    BY <1>8 DEF Plugin, Registered, Watchers
<1>10. at # "throw" => CallOK(x)'
    BY <1>4, <1>5, <1>6, <1>9 DEF CallOK, TickPlaces
<1>11. /\ CallsOK'
       /\ \A d : Copies(d, calls') = Copies(d, calls) + (IF d \in X THEN 1 ELSE 0)
       /\ \A d : Copies(d, calls') \in Nat /\ Copies(d, calls) \in Nat
    <2>1. \A y \in X : CallOK(y)'
        BY <1>7, <1>10
    <2> QED
        BY <1>2, <1>7, <1>8, <2>1, AddedCalls
<1>12. OneInjection'
    <2>1. Injections \cap X = {}
        BY <1>5, <1>7 DEF Injections
    <2> QED
        BY <1>2, <1>7, <2>1, SoloKept DEF OneInjection
<1>13. /\ worker' \in [Plugin -> WorkerRecord] /\ worker'[p] = w
       /\ \A q \in Plugin \ {p} : worker'[q] = worker[q]
    BY <1>1, <1>3, <1>4
<1>14. /\ interrupted \subseteq interrupted' /\ interrupted' \subseteq interrupted \cup {p}
    BY <1>1, Disturbing
<1>15. ExecutionOK'
    <2>1. ASSUME NEW q \in Plugin \ interrupted'
          PROVE  Exclusive(q, calls', worker'[q].isWorkerRunning)
        <3>0. Exclusive(q, calls, worker[q].isWorkerRunning)
            BY <1>2, <1>14, <2>1 DEF ExecutionOK
        <3>1. CASE q # p
            <4>1. \A y \in X : y.plugin # q \/ y.at \notin {"execute", "failstop"}
                BY <1>5, <1>7, <3>1
            <4>2. Exclusive(q, calls', worker[q].isWorkerRunning)
                BY <1>2, <1>7, <3>0, <4>1, ExclusiveKept
            <4> QED
                BY <1>13, <3>1, <4>2
        <3>2. CASE q = p /\ at = "throw"
            <4>1. Exclusive(p, calls, w.isWorkerRunning)
                BY <1>4, <3>0, <3>2 DEF Exclusive
            <4>2. \A y \in X : y.plugin # p \/ y.at \notin {"execute", "failstop"}
                BY <1>7, <3>2
            <4>3. Exclusive(p, calls', w.isWorkerRunning)
                BY <1>2, <1>7, <4>1, <4>2, ExclusiveKept
            <4> QED
                BY <1>13, <3>2, <4>3
        <3>3. CASE q = p /\ at # "throw"
            <4>1. Exclusive(p, calls, FALSE)
                BY <1>4, <3>0, <3>3 DEF Exclusive
            <4>2. at = "execute" => None(FailStops(p), calls)
                BY <1>1, <2>1, <3>3, NotDisturbed
            <4>3. Changed({}, {x}, calls, calls')
                BY <1>7, <3>3
            <4>4. Exclusive(p, calls', w.isWorkerRunning)
                BY <1>2, <1>4, <1>5, <3>3, <4>1, <4>2, <4>3, ExecutionBegins
            <4> QED
                BY <1>13, <3>3, <4>4
        <3> QED
            BY <3>1, <3>2, <3>3
    <2> QED
        BY <1>9, <2>1 DEF ExecutionOK
<1>16. ASSUME NEW q \in Plugin
       PROVE  worker'[q].stray = worker[q].stray /\ (worker'[q].timer => worker[q].timer)
    BY <1>4, <1>13
<1>17. StraysOK'
    <2>1. ASSUME NEW q \in Plugin PROVE worker'[q].stray + Copies(Restop(q), calls') <= connects
        <3>1. Restop(q) \notin X
            BY <1>5, <1>7 DEF Restop, Call
        <3>2. Copies(Restop(q), calls') = Copies(Restop(q), calls)
            BY <1>11, <3>1
        <3> QED
            BY <1>16, <3>2 DEF IInv, StraysOK
    <2> QED
        BY <1>1, <1>9, <2>1 DEF StraysOK, bounds
<1>18. TimersOK'
    BY <1>9, <1>16 DEF IInv, TimersOK
<1>19. QuietOK'
    <2>1. Quiet' = Quiet /\ leaving' = leaving /\ toStop' = toStop
        BY <1>1 DEF Quiet, departure
    <2>2. Initialized' = Initialized
        BY <1>1 DEF Initialized, injection
    <2>3. ASSUME Quiet, NEW d, Copies(d, calls') > 0 PROVE d.by = "tick"
        BY <1>5, <1>7, <1>11, <2>3 DEF IInv, QuietOK
    <2> QED
        BY <1>9, <1>16, <2>1, <2>2, <2>3 DEF IInv, QuietOK
<1>20. ReadinessOK'
    BY <1>1, <1>9 DEF IInv, ReadinessOK, injection, readiness
<1>21. Typing'
    <2>1. interrupted' \subseteq Plugin /\ IsABag(calls')
        BY <1>2, <1>7, <1>14 DEF Typing, Changed
    <2> QED
        BY <1>1, <1>2, <1>9, <1>13, <2>1 DEF Typing, injection, readiness, departure, bounds
<1> QED
    BY <1>11, <1>12, <1>15, <1>17, <1>18, <1>19, <1>20, <1>21 DEF IInv

\* The interval counts the watchers it has not counted yet.
LEMMA Polled ==
    ASSUME Typing, ReadinessOK, PollReadiness
    PROVE  /\ announced' = watchReady /\ readyPlugins' = Cardinality(watchReady)
           /\ IsFiniteSet(Watchers)
<1>1. Len(order) \in Nat /\ Plugin = 1..Len(order)
    BY OrderFacts DEF Typing
<1>2. IsFiniteSet(Plugin)
    BY <1>1, FS_Interval
<1>3. IsFiniteSet(Watchers)
    BY <1>2, FS_Subset DEF Watchers
<1>4. watchReady \in SUBSET Watchers /\ announced \in SUBSET watchReady
    BY DEF ReadinessOK
<1>5. IsFiniteSet(watchReady)
    BY <1>3, <1>4, FS_Subset
<1>6. IsFiniteSet(announced)
    BY <1>4, <1>5, FS_Subset
<1>7. Cardinality(watchReady \ announced) =
            Cardinality(watchReady) - Cardinality(watchReady \cap announced)
    BY <1>5, FS_Difference
<1>8. Cardinality(watchReady \ announced) = Cardinality(watchReady) - Cardinality(announced)
    <2>1. watchReady \cap announced = announced
        BY <1>4
    <2> QED
        BY <1>7, <2>1
<1>9. Cardinality(watchReady) \in Nat /\ Cardinality(announced) \in Nat
    BY <1>5, <1>6, FS_CardinalityType
<1>10. readyPlugins' = Cardinality(announced) + Cardinality(watchReady \ announced)
    BY DEF PollReadiness, NewlyReady, ReadinessOK
<1>11. readyPlugins' = Cardinality(watchReady)
    BY <1>8, <1>9, <1>10
<1>12. announced' = watchReady
    BY <1>4 DEF PollReadiness, NewlyReady
<1> QED
    BY <1>3, <1>11, <1>12

\* Steps that leave the calls, the workers, the injections and the history of the executions
SameWork == UNCHANGED <<injection, calls, worker, connects, interrupted, unstarted>>

LEMMA SameWorkKeeps ==
    ASSUME IInv, SameWork
    PROVE  /\ CallsOK' /\ OneInjection' /\ ExecutionOK' /\ StraysOK' /\ TimersOK'
           /\ Plugin' = Plugin /\ Registered' = Registered /\ Watchers' = Watchers
           /\ Initialized' = Initialized /\ UNCHANGED <<order, injected>>
<1>1. Plugin' = Plugin /\ Registered' = Registered /\ Watchers' = Watchers
    BY DEF SameWork, injection, Plugin, Registered, Watchers
<1>2. CallsOK'
    <2>1. \A c : CallOK(c) => CallOK(c)'
        BY <1>1 DEF CallOK, SameWork, injection
    <2> QED
        BY <2>1 DEF IInv, CallsOK, SameWork
<1>3. OneInjection' /\ ExecutionOK' /\ StraysOK' /\ TimersOK'
    BY <1>1 DEF IInv, SameWork, OneInjection, ExecutionOK, StraysOK, TimersOK
<1> QED
    BY <1>1, <1>2, <1>3 DEF SameWork, injection, Initialized

LEMMA PollReadinessKeeps == ASSUME IInv, PollReadiness PROVE IInv'
<1>1. announced' = watchReady /\ readyPlugins' = Cardinality(watchReady)
    BY Polled DEF IInv
<1>2. /\ polling /\ ready' \in BOOLEAN /\ polling' = ~ready'
      /\ UNCHANGED <<injection, calls, worker, watchReady, departure, bounds, history>>
    BY DEF PollReadiness
<1>3. SameWork
    BY <1>2 DEF SameWork, bounds, history
<1>4. /\ CallsOK' /\ OneInjection' /\ ExecutionOK' /\ StraysOK' /\ TimersOK'
      /\ Plugin' = Plugin /\ Registered' = Registered /\ Watchers' = Watchers
      /\ Initialized' = Initialized
    BY <1>3, SameWorkKeeps
<1>5. QuietOK'
    BY <1>2, <1>4 DEF IInv, QuietOK, Quiet, departure, history
<1>6. ReadinessOK'
    BY <1>1, <1>2, <1>4 DEF IInv, ReadinessOK, injection
<1>7. Typing'
    BY <1>2, <1>4 DEF IInv, Typing, injection, departure, bounds, history
<1> QED
    BY <1>4, <1>5, <1>6, <1>7 DEF IInv


\* A stop met no execution.
LEMMA NotStopped ==
    ASSUME NEW p \in Plugin, NEW at \in {"restop", "stop"}, NEW others,
           p \notin Disturbs(p, at, others)
    PROVE  None(Executions(p), others)
<1>1. at \notin {"nothing", "throw", "execute"}
    OBVIOUS
<1>2. Disturbs(p, at, others) =
        interrupted \cup
            {q \in {p} : \E c \in DOMAIN others : c.plugin = q /\ c.at \in {"execute"}}
    BY <1>1 DEF Disturbs, BagToSet
<1>3. \A c \in DOMAIN others : ~ (c.plugin = p /\ c.at = "execute")
    BY <1>2
<1> QED
    BY <1>3 DEF None, Executions, Copies

\* A stop of a worker that is not executed, or that is interrupted
LEMMA StopKeepsExclusive ==
    ASSUME NEW p, NEW bag, NEW running, Exclusive(p, bag, running), None(Executions(p), bag)
    PROVE  Exclusive(p, bag, FALSE)
BY DEF Exclusive

LEMMA ConnectKeeps == ASSUME IInv, Connect PROVE IInv'
<1>0. PICK X : X = {Call(p, "connect", Begun(p)) :
                        p \in {q \in Registered : Begun(q) # "nothing"}}
    OBVIOUS
<1>1. /\ Initialized /\ connects < MaxConnects /\ connects' = connects + 1
      /\ worker' = [p \in Plugin |->
           IF p \notin Registered THEN worker[p]
           ELSE IF worker[p].timer THEN Stopped(worker[p]) ELSE Ticking(p, worker[p])]
      /\ calls' = calls (+) SetToBag(X)
      /\ interrupted' = interrupted \cup
           UNION {Disturbs(p, "restop", calls) : p \in {q \in Registered : worker[q].timer}}
      /\ restless' = (restless \/ leaving # "no")
      /\ UNCHANGED <<injection, readiness, departure, failures, unstarted>>
    BY <1>0 DEF Connect
<1>2. Typing /\ CallsOK /\ OneInjection /\ ExecutionOK /\ IsABag(calls)
    BY DEF IInv, Typing
<1>3. UNCHANGED order /\ injected' = injected /\ injected \in injected..(Len(order) + 1)
    BY <1>1, <1>2, OrderFacts DEF injection, Typing
<1>4. Plugin' = Plugin /\ Registered' = Registered /\ Watchers' = Watchers
    BY <1>3 DEF Plugin, Registered, Watchers
<1>5. Registered \subseteq Plugin /\ Plugin \subseteq Nat
    BY <1>2, OrderFacts DEF Registered, Typing
<1>6. \A x \in X : /\ x.plugin \in Registered /\ x.by = "connect"
                   /\ x.at \in {"restop", "onStart"}
                   /\ x = Call(x.plugin, "connect", x.at)
    BY <1>0 DEF Begun, Call
<1>7. Changed({}, X, calls, calls')
    BY <1>1, <1>2, AddedChanges
<1>8. \A x \in X : CallOK(x)'
    <2>1. ASSUME NEW x \in X PROVE x \in CallRecord
        BY <1>5, <1>6 DEF Call, CallRecord, Callers, Places
    <2>2. \A x \in X : x.at = "restop" => x = Restop(x.plugin)
        BY <1>6 DEF Restop
    <2> QED
        BY <1>4, <1>5, <1>6, <2>1, <2>2 DEF CallOK
<1>9. /\ CallsOK'
      /\ \A d : Copies(d, calls') = Copies(d, calls) + (IF d \in X THEN 1 ELSE 0)
      /\ \A d : Copies(d, calls') \in Nat /\ Copies(d, calls) \in Nat
    BY <1>2, <1>3, <1>7, <1>8, AddedCalls
<1>10. OneInjection'
    <2>1. Injections \cap X = {}
        BY <1>6 DEF Injections
    <2> QED
        BY <1>2, <1>7, <2>1, SoloKept DEF OneInjection
<1>11. ASSUME NEW p \in Plugin
       PROVE  /\ worker'[p] \in WorkerRecord
              /\ worker'[p].stray = worker[p].stray
              /\ worker'[p].timer => worker[p].timer \/ p \in Registered
              /\ IF p \in Registered /\ worker[p].timer THEN ~worker'[p].isWorkerRunning
                 ELSE worker'[p].isWorkerRunning = worker[p].isWorkerRunning
    <2>1. worker[p] \in WorkerRecord
        BY <1>2 DEF Typing
    <2>2. CASE p \notin Registered
        BY <1>1, <2>1, <2>2
    <2>3. CASE p \in Registered /\ worker[p].timer
        <3>1. worker'[p] = Stopped(worker[p])
            BY <1>1, <2>3
        <3> QED
            BY <2>1, <2>3, <3>1, StoppedWorker
    <2>4. CASE p \in Registered /\ ~worker[p].timer
        <3>1. worker'[p] = Ticking(p, worker[p])
            BY <1>1, <2>4
        <3> QED
            BY <2>1, <2>4, <3>1, TickingWorker
    <2> QED
        BY <2>2, <2>3, <2>4
<1>12. worker' \in [Plugin -> WorkerRecord]
    <2>1. DOMAIN worker' = Plugin /\ worker' = [p \in Plugin |-> worker'[p]]
        BY <1>1
    <2> QED
        BY <1>11, <2>1
<1>13. interrupted \subseteq interrupted' /\ interrupted' \subseteq interrupted \cup Registered
    BY <1>1, Disturbing
<1>14. ExecutionOK'
    <2>1. ASSUME NEW p \in Plugin \ interrupted'
          PROVE  Exclusive(p, calls', worker'[p].isWorkerRunning)
        <3>1. Exclusive(p, calls, worker[p].isWorkerRunning)
            BY <1>2, <1>13, <2>1 DEF ExecutionOK
        <3>2. Exclusive(p, calls, worker'[p].isWorkerRunning)
            <4>1. CASE p \in Registered /\ worker[p].timer
                <5>1. p \notin Disturbs(p, "restop", calls)
                    BY <1>1, <2>1, <4>1
                <5>2. None(Executions(p), calls)
                    BY <5>1, NotStopped
                <5>3. worker'[p].isWorkerRunning = FALSE
                    BY <1>11, <4>1 DEF WorkerRecord
                <5> QED
                    BY <3>1, <5>2, <5>3, StopKeepsExclusive
            <4>2. CASE ~ (p \in Registered /\ worker[p].timer)
                BY <1>11, <3>1, <4>2
            <4> QED
                BY <4>1, <4>2
        <3>3. \A y \in X : y.plugin # p \/ y.at \notin {"execute", "failstop"}
            BY <1>6
        <3> QED
            BY <1>2, <1>7, <3>2, <3>3, ExclusiveKept
    <2> QED
        BY <1>4, <2>1 DEF ExecutionOK
<1>15. StraysOK'
    <2>1. ASSUME NEW p \in Plugin
          PROVE  worker'[p].stray + Copies(Restop(p), calls') <= connects + 1
        <3>1. Copies(Restop(p), calls') <= Copies(Restop(p), calls) + 1
            BY <1>9
        <3>2. worker[p].stray \in Nat /\ connects \in Nat
            BY <1>2 DEF Typing, WorkerRecord
        <3>3. worker[p].stray + Copies(Restop(p), calls) <= connects
            BY DEF IInv, StraysOK
        <3> QED
            BY <1>9, <1>11, <3>1, <3>2, <3>3
    <2> QED
        BY <1>1, <1>4, <2>1 DEF StraysOK
<1>16. TimersOK'
    BY <1>4, <1>11 DEF IInv, TimersOK
<1>17. QuietOK'
    <2>1. Initialized'
        BY <1>1 DEF Initialized, injection
    <2>2. ~Quiet'
        BY <1>1 DEF Quiet, departure
    <2> QED
        BY <2>1, <2>2 DEF QuietOK
<1>18. ReadinessOK'
    BY <1>1, <1>4 DEF IInv, ReadinessOK, injection, readiness
<1>19. Typing'
    <2>1. connects' \in 0..MaxConnects
        BY <1>1, <1>2, LifecycleAssumption DEF Typing, LifecycleAssumption
    <2>2. interrupted' \subseteq Plugin /\ IsABag(calls') /\ restless' \in BOOLEAN
        BY <1>1, <1>2, <1>5, <1>7, <1>13 DEF Typing, Changed
    <2> QED
        BY <1>1, <1>2, <1>4, <1>12, <2>1, <2>2
        DEF Typing, injection, readiness, departure
<1> QED
    BY <1>9, <1>10, <1>14, <1>15, <1>16, <1>17, <1>18, <1>19 DEF IInv

LEMMA DisconnectKeeps == ASSUME IInv, Disconnect PROVE IInv'
<1>1. /\ Initialized /\ leaving = "no" /\ leaving' = "transport"
      /\ restless' = \/ restless
                     \/ injected \in Plugin /\ ~ broken
                     \/ \E c \in Waiting : c.by # "tick"
                     \/ \E p \in Plugin : worker[p].stray > 0
      /\ UNCHANGED <<injection, calls, worker, readiness, toStop, bounds, interrupted, unstarted>>
    BY DEF Disconnect
<1>2. SameWork
    BY <1>1 DEF SameWork, bounds
<1>3. /\ CallsOK' /\ OneInjection' /\ ExecutionOK' /\ StraysOK' /\ TimersOK'
      /\ Plugin' = Plugin /\ Registered' = Registered /\ Watchers' = Watchers
      /\ Initialized' = Initialized
    BY <1>2, SameWorkKeeps
<1>4. ASSUME ~restless'
      PROVE  /\ \A c : Copies(c, calls) > 0 => c.by = "tick"
             /\ \A p \in Plugin : worker[p].stray = 0
    <2>1. \A c \in DOMAIN calls : c.by = "tick"
        BY <1>1, <1>4 DEF Waiting, BagToSet
    <2>2. \A p \in Plugin : worker[p].stray \in Nat /\ ~ (worker[p].stray > 0)
        BY <1>1, <1>4 DEF IInv, Typing, WorkerRecord
    <2> QED
        BY <2>1, <2>2 DEF Copies
<1>5. QuietOK'
    BY <1>1, <1>3, <1>4 DEF QuietOK, Quiet
<1>6. ReadinessOK'
    BY <1>1, <1>3 DEF IInv, ReadinessOK, injection, readiness
<1>7. Typing'
    <2>1. restless' \in BOOLEAN
        BY <1>1
    <2> QED
        BY <1>1, <1>3, <2>1 DEF IInv, Typing, injection, readiness, bounds
<1> QED
    BY <1>3, <1>5, <1>6, <1>7 DEF IInv

\* disconnect stops the next of the workers, which are the only ones that
\* still tick if it found nothing under way.
LEMMA StopNextKeeps ==
    ASSUME IInv, NEW workers \in SUBSET Registered, StopNext(workers), leaving # "no",
           Quiet => \A p \in Plugin : worker[p].timer => p \in workers,
           UNCHANGED <<injection, calls, readiness, bounds, unstarted, restless>>
    PROVE  IInv'
<1> DEFINE p == Min(workers)
           w == Stopped(worker[p])
<1>1. Typing /\ CallsOK /\ ExecutionOK /\ IsABag(calls)
    BY DEF IInv, Typing
<1>2. Plugin' = Plugin /\ Registered' = Registered /\ Watchers' = Watchers
    BY DEF Plugin, Registered, Watchers, injection
<1>3. /\ toStop' = workers
      /\ leaving' = IF workers = {} THEN "saving" ELSE "stopping"
      /\ worker' = IF workers = {} THEN worker ELSE [worker EXCEPT ![p] = w]
      /\ interrupted' = IF workers = {} THEN interrupted ELSE Disturbs(p, "stop", calls)
    BY DEF StopNext
<1>4. Plugin \subseteq Nat /\ Registered \subseteq Plugin
    BY <1>1, OrderFacts DEF Registered, Typing
<1>5. workers # {} => p \in workers /\ p \in Plugin
    BY <1>4, MinIsLeast
<1>6. worker \in [Plugin -> WorkerRecord]
    BY <1>1 DEF Typing
<1>7. workers # {} =>
        w \in WorkerRecord /\ ~w.timer /\ w.stray = worker[p].stray /\ ~w.isWorkerRunning
    BY <1>5, <1>6, StoppedWorker
<1>8. interrupted \subseteq interrupted' /\ interrupted' \subseteq Plugin
    BY <1>1, <1>3, <1>5, Disturbing DEF Typing
<1>9. workers # {} /\ p \notin interrupted' => None(Executions(p), calls)
    BY <1>3, <1>5, NotStopped
<1> HIDE DEF p, w
<1>10. /\ worker' \in [Plugin -> WorkerRecord]
       /\ workers = {} => worker' = worker
       /\ workers # {} => /\ worker'[p] = w
                          /\ \A q \in Plugin \ {p} : worker'[q] = worker[q]
    BY <1>3, <1>5, <1>6, <1>7
<1>11. ASSUME NEW q \in Plugin
       PROVE  /\ worker'[q].stray = worker[q].stray
              /\ worker'[q].timer => worker[q].timer /\ (workers # {} => q # p)
    BY <1>7, <1>10
<1>12. CallsOK' /\ OneInjection'
    <2>1. \A c : CallOK(c) => CallOK(c)'
        BY <1>2 DEF CallOK, injection
    <2> QED
        BY <2>1 DEF IInv, CallsOK, OneInjection
<1>13. ExecutionOK'
    <2>1. ASSUME NEW q \in Plugin \ interrupted'
          PROVE  Exclusive(q, calls, worker'[q].isWorkerRunning)
        <3>1. Exclusive(q, calls, worker[q].isWorkerRunning)
            BY <1>1, <1>8, <2>1 DEF ExecutionOK
        <3>2. CASE workers # {} /\ q = p
            <4>1. None(Executions(q), calls)
                BY <1>9, <2>1, <3>2
            <4>2. worker'[q].isWorkerRunning = FALSE
                BY <1>7, <1>10, <3>2 DEF WorkerRecord
            <4> QED
                BY <3>1, <4>1, <4>2, StopKeepsExclusive
        <3>3. CASE ~ (workers # {} /\ q = p)
            BY <1>10, <3>1, <3>3
        <3> QED
            BY <3>2, <3>3
    <2> QED
        BY <1>2, <2>1 DEF ExecutionOK
<1>14. StraysOK'
    BY <1>2, <1>11 DEF IInv, StraysOK, bounds
<1>15. TimersOK'
    BY <1>2, <1>11 DEF IInv, TimersOK
<1>16. QuietOK'
    <2>1. Initialized' /\ Quiet' = Quiet
        BY <1>3 DEF IInv, QuietOK, Initialized, injection, Quiet
    <2>2. ASSUME Quiet
          PROVE  /\ \A c : Copies(c, calls) > 0 => c.by = "tick"
                 /\ \A q \in Plugin : worker'[q].stray = 0
        BY <1>11, <2>2 DEF IInv, QuietOK
    <2>3. ASSUME Quiet, leaving' = "stopping", NEW q \in Plugin, worker'[q].timer
          PROVE  q \in toStop' /\ q # Min(toStop')
        BY <1>3, <1>11, <2>3 DEF p
    <2>4. ASSUME Quiet, leaving' \in {"saving", "left"}, NEW q \in Plugin
          PROVE  ~worker'[q].timer
        BY <1>3, <1>11, <2>4
    <2> QED
        BY <1>2, <2>1, <2>2, <2>3, <2>4 DEF QuietOK
<1>17. ReadinessOK'
    BY <1>2 DEF IInv, ReadinessOK, injection, readiness
<1>18. Typing'
    BY <1>1, <1>2, <1>3, <1>8, <1>10 DEF Typing, injection, readiness, bounds
<1> QED
    BY <1>12, <1>13, <1>14, <1>15, <1>16, <1>17, <1>18 DEF IInv

LEMMA StoppingKeeps == ASSUME IInv, TransportDisconnected \/ WorkerStopped PROVE IInv'
<1>1. CASE TransportDisconnected
    <2>1. \A p \in Plugin : worker[p].timer => p \in Registered
        BY DEF IInv, TimersOK
    <2> QED
        BY <1>1, <2>1, StopNextKeeps DEF TransportDisconnected
<1>2. CASE WorkerStopped
    <2>1. leaving = "stopping" /\ StopNext(toStop \ {Min(toStop)})
        BY <1>2 DEF WorkerStopped
    <2>2. Quiet => \A p \in Plugin : worker[p].timer => p \in toStop \ {Min(toStop)}
        BY <2>1 DEF IInv, QuietOK
    <2>3. toStop \ {Min(toStop)} \in SUBSET Registered
        BY DEF IInv, Typing
    <2> QED
        BY <1>2, <2>1, <2>2, <2>3, StopNextKeeps DEF WorkerStopped
<1> QED
    BY <1>1, <1>2

LEMMA DepartureKeeps == ASSUME IInv, StateSaved \/ DisconnectFails PROVE IInv'
<1>1. /\ leaving' \in {"left", "failed"} /\ leaving # "no"
      /\ leaving' = "left" => leaving = "saving"
      /\ polling' \in BOOLEAN /\ (polling' => polling)
      /\ UNCHANGED <<injection, calls, worker, watchReady, announced, readyPlugins, ready, toStop,
                     connects, history>>
    <2>1. CASE StateSaved
        BY <2>1 DEF StateSaved, bounds
    <2>2. CASE DisconnectFails
        <3>1. polling' = polling /\ polling \in BOOLEAN
            BY <2>2 DEF DisconnectFails, readiness, IInv, Typing
        <3> QED
            BY <2>2, <3>1 DEF DisconnectFails, readiness
    <2> QED
        BY <2>1, <2>2
<1>2. failures' \in 0..MaxFailures
    BY Failing DEF IInv, Typing, StateSaved, DisconnectFails, bounds
<1>3. SameWork
    BY <1>1 DEF SameWork, history
<1>4. /\ CallsOK' /\ OneInjection' /\ ExecutionOK' /\ StraysOK' /\ TimersOK'
      /\ Plugin' = Plugin /\ Registered' = Registered /\ Watchers' = Watchers
      /\ Initialized' = Initialized
    BY <1>3, SameWorkKeeps
<1>5. QuietOK'
    BY <1>1, <1>4 DEF IInv, QuietOK, Quiet, history
<1>6. ReadinessOK'
    BY <1>1, <1>4 DEF IInv, ReadinessOK, injection
<1>7. Typing'
    BY <1>1, <1>2, <1>4 DEF IInv, Typing, injection, history
<1> QED
    BY <1>4, <1>5, <1>6, <1>7 DEF IInv

LEMMA StutterKeeps == ASSUME IInv, UNCHANGED vars PROVE IInv'
<1>1. SameWork /\ UNCHANGED <<injection, readiness, departure, bounds, history>>
    BY DEF vars, SameWork, bounds, history
<1>2. /\ CallsOK' /\ OneInjection' /\ ExecutionOK' /\ StraysOK' /\ TimersOK'
      /\ Plugin' = Plugin /\ Registered' = Registered /\ Watchers' = Watchers
      /\ Initialized' = Initialized
    BY <1>1, SameWorkKeeps
<1>3. QuietOK' /\ ReadinessOK' /\ Typing'
    BY <1>1, <1>2
    DEF IInv, QuietOK, Quiet, ReadinessOK, Typing, SameWork, injection, readiness, departure,
        bounds, history
<1> QED
    BY <1>2, <1>3 DEF IInv

\* Every step keeps the invariant.
LEMMA NextKeeps == IInv /\ [Next]_vars => IInv'
<1> SUFFICES ASSUME IInv, [Next]_vars PROVE IInv'
    OBVIOUS
<1>1. CASE Initialize
    BY <1>1, InitializeKeeps
<1>2. ASSUME NEW c \in Waiting, Settle(c) PROVE IInv'
    BY <1>2, SettleKeeps
<1>3. ASSUME NEW p \in Plugin, Tick(p) PROVE IInv'
    BY <1>3, TickKeeps
<1>4. CASE PollReadiness
    BY <1>4, PollReadinessKeeps
<1>5. CASE Connect
    BY <1>5, ConnectKeeps
<1>6. CASE Disconnect
    BY <1>6, DisconnectKeeps
<1>7. CASE TransportDisconnected \/ WorkerStopped
    BY <1>7, StoppingKeeps
<1>8. CASE StateSaved \/ DisconnectFails
    BY <1>8, DepartureKeeps
<1>9. CASE UNCHANGED vars
    BY <1>9, StutterKeeps
<1> QED
    BY <1>1, <1>2, <1>3, <1>4, <1>5, <1>6, <1>7, <1>8, <1>9 DEF Next


-----------------------------------------------------------------------------
(* Who is waited for *)

\* Some call of p waits at one of the places.
Pending(p, places, bag) == \E d : Copies(d, bag) > 0 /\ d.plugin = p /\ d.at \in places
ServingPlaces == {"restop", "onStart", "execute", "failstop"}
Ticks(w) == w.timer \/ w.stray > 0

\* Before anything fails, a plugin that is waited for is being started or
\* executed, and its interval is there or comes back ...
Certain(p, bag, w) ==
    /\ Pending(p, {"onStart", "execute"}, bag)
    /\ ~Unrepeated(p) => Ticks(w) \/ Pending(p, {"restop"}, bag)
\* ... so that one failure leaves one of the two.
Hoped(p, bag, w, lost) ==
    Pending(p, ServingPlaces, bag) \/ Ticks(w) \/ (p \in lost /\ Unrepeated(p))
Served(p, bag, w, lost, n) ==
    /\ n = 0 => Certain(p, bag, w)
    /\ n = 1 => Hoped(p, bag, w, lost)

Watched(p) == order[p].executeOnStart /\ order[p].firstExecutionRequired
Attending == heard /\ leaving = "no"

\* Only injected plugins are called.
BegunOK == \A c : Copies(c, calls) > 0 => c.plugin <= injected
ChainOK == injected \in Plugin /\ ~broken => \E c : Copies(c, calls) > 0 /\ c.by = "inject"
LooksOK == injected > 0 /\ leaving # "left" => ready \/ polling
\* The flag is set by whoever executes, and cleared before the last of them is
\* gone, unless there is no execute.
FlagsOK ==
    \A p \in Plugin : worker[p].isWorkerRunning =>
        Pending(p, {"execute"}, calls) \/ Lacking(p)
\* A pass that is counted has been announced.
PassesOK ==
    Attending => \A p \in Plugin : Watched(p) /\ worker[p].pass > 0 => p \in watchReady
ServedOK ==
    Attending => \A p \in Watchers \ watchReady :
                    Served(p, calls, worker[p], unstarted, failures) \/ Lacking(p)

ServiceOK ==
    /\ BegunOK
    /\ ChainOK
    /\ LooksOK
    /\ FlagsOK
    /\ PassesOK
    /\ ServedOK

LEMMA PendingKept ==
    ASSUME NEW p, NEW places, NEW C, NEW X, NEW bag, NEW new, IsABag(bag),
           Changed(C, X, bag, new), Pending(p, places, bag),
           \A c \in C : c.plugin # p \/ c.at \notin places
    PROVE  Pending(p, places, new)
<1>1. PICK d : Copies(d, bag) > 0 /\ d.plugin = p /\ d.at \in places
    BY DEF Pending
<1>2. d \notin C /\ Copies(d, bag) \in Nat
    BY <1>1, CopiesType
<1>3. Copies(d, new) = Copies(d, bag) + (IF d \in X THEN 1 ELSE 0)
    BY <1>2 DEF Changed
<1>4. Copies(d, new) > 0
    BY <1>1, <1>2, <1>3
<1> QED
    BY <1>1, <1>4 DEF Pending

LEMMA AddedCopies ==
    ASSUME NEW C, NEW X, NEW bag, NEW new, IsABag(bag), Changed(C, X, bag, new),
           \A c \in C : Copies(c, bag) > 0, NEW x \in X
    PROVE  Copies(x, new) > 0
<1>1. Copies(x, bag) \in Nat
    BY CopiesType
<1>2. Copies(x, new) = Copies(x, bag) - (IF x \in C THEN 1 ELSE 0) + 1
    BY DEF Changed
<1> QED
    BY <1>1, <1>2

LEMMA PendingAdded ==
    ASSUME NEW p, NEW places, NEW C, NEW X, NEW bag, NEW new, IsABag(bag),
           Changed(C, X, bag, new), \A c \in C : Copies(c, bag) > 0,
           NEW x \in X, x.plugin = p, x.at \in places
    PROVE  Pending(p, places, new)
<1>1. Copies(x, new) > 0
    BY AddedCopies
<1> QED
    BY <1>1 DEF Pending

LEMMA CertainIsServed ==
    ASSUME NEW p, NEW bag, NEW w, NEW lost, NEW n, Certain(p, bag, w)
    PROVE  Served(p, bag, w, lost, n)
BY DEF Certain, Served, Hoped, Pending, ServingPlaces

\* A plugin whose calls stay, and whose interval stays, is served as before.
Untroubled(p, bag, v, new, w) ==
    /\ \A places \in SUBSET ServingPlaces : Pending(p, places, bag) => Pending(p, places, new)
    /\ Ticks(v) => Ticks(w)

LEMMA ServedKept ==
    ASSUME NEW p, NEW bag, NEW v, NEW lost, NEW n \in Nat, Served(p, bag, v, lost, n),
           NEW new, NEW w, Untroubled(p, bag, v, new, w),
           NEW more, lost \subseteq more, NEW m, m = n \/ m = n + 1
    PROVE  Served(p, new, w, more, m)
<1>1. Certain(p, bag, v) => Certain(p, new, w)
    BY DEF Untroubled, Certain, ServingPlaces
<1>2. Hoped(p, bag, v, lost) => Hoped(p, new, w, more)
    BY DEF Untroubled, Hoped
<1>3. CASE Certain(p, new, w)
    BY <1>3, CertainIsServed
<1>4. CASE ~Certain(p, new, w)
    <2>1. n # 0 /\ (n = 1 => Hoped(p, new, w, more))
        BY <1>1, <1>2, <1>4 DEF Served
    <2>2. m # 0 /\ (m = 1 => n = 1)
        BY <2>1
    <2> QED
        BY <2>1, <2>2 DEF Served
<1> QED
    BY <1>3, <1>4

\* The calls that were added are determined by the bags.
LEMMA ChangedOnce ==
    ASSUME NEW C, NEW X, NEW Y, NEW bag, NEW new, IsABag(bag),
           Changed(C, X, bag, new), Changed(C, Y, bag, new)
    PROVE  X = Y
<1>1. ASSUME NEW d PROVE d \in X <=> d \in Y
    <2>1. Copies(d, bag) \in Nat
        BY CopiesType
    <2>2. Copies(d, new) = Copies(d, bag) - (IF d \in C THEN 1 ELSE 0) + (IF d \in X THEN 1 ELSE 0)
        BY DEF Changed
    <2>3. Copies(d, new) = Copies(d, bag) - (IF d \in C THEN 1 ELSE 0) + (IF d \in Y THEN 1 ELSE 0)
        BY DEF Changed
    <2> QED
        BY <2>1, <2>2, <2>3
<1> QED
    BY <1>1

\* The plugin an injection comes to is called; no other begins to be watched,
\* and its worker, if it has one, gets its interval.
LEMMA InjectionServes ==
    ASSUME Arranged(order), NEW from \in 1..(Len(order) + 1), NEW rest, NEW workers,
           DOMAIN workers = Plugin, InjectFrom(from, rest, workers)
    PROVE  /\ injected' \in Plugin => \E at \in {"onStart", "onInjected"} :
                    calls' = rest (+) SetToBag({Call(injected', "inject", at)})
           /\ \A p \in Plugin : from <= p /\ p <= injected' /\ order[p].executeOnStart =>
                /\ p = injected'
                /\ calls' = rest (+) SetToBag({Call(p, "inject", "onStart")})
                /\ order[p].worker => worker'[p] = Ticking(p, workers[p])
<1> DEFINE next == {q \in Plugin : q >= from /\ Waits(q)} \cup {Len(order) + 1}
           q == NextToWait(from)
<1>1. Len(order) \in Nat /\ Plugin = 1..Len(order)
    BY OrderFacts
<1>2. q \in Nat /\ \A n \in next : q <= n
    <2>1. next \in SUBSET Nat /\ next # {}
        BY <1>1
    <2> HIDE DEF next
    <2>2. Min(next) \in next /\ \A n \in next : Min(next) <= n
        BY <2>1, MinIsLeast
    <2>3. q = Min(next)
        BY DEF NextToWait, next
    <2> QED
        BY <2>1, <2>2, <2>3
<1>3. /\ injected' = q
      /\ q \in Plugin => calls' = rest (+) SetToBag(
            {Call(q, "inject", IF order[q].executeOnStart THEN "onStart" ELSE "onInjected")})
      /\ q \in Plugin /\ order[q].executeOnStart /\ order[q].worker =>
            worker' = [workers EXCEPT ![q] = Ticking(q, workers[q])]
    BY DEF InjectFrom
<1>4. ASSUME NEW p \in Plugin, from <= p, p <= q, order[p].executeOnStart PROVE p = q
    <2>1. p \in next
        BY <1>1, <1>4 DEF Waits
    <2> HIDE DEF q, next
    <2> QED
        BY <1>1, <1>2, <1>4, <2>1
<1> HIDE DEF q, next
<1>5. ASSUME NEW p \in Plugin, from <= p, p <= q, order[p].executeOnStart
      PROVE  /\ p = q
             /\ calls' = rest (+) SetToBag({Call(p, "inject", "onStart")})
             /\ order[p].worker => worker'[p] = Ticking(p, workers[p])
    <2>1. p = q
        BY <1>4, <1>5
    <2>2. calls' = rest (+) SetToBag({Call(p, "inject", "onStart")})
        BY <1>3, <1>5, <2>1
    <2>3. order[p].worker => worker'[p] = Ticking(p, workers[p])
        BY <1>3, <1>5, <2>1
    <2> QED
        BY <2>1, <2>2, <2>3
<1> QED
    BY <1>3, <1>5

\* The end of c that leaves its worker as w and adds the calls X also keeps the
\* chain of injections, and calls whoever begins to be watched.
Serves(c, w, X) ==
    /\ Effect(c, w, X)
    /\ c.by = "inject" /\ injected' \in Plugin /\ ~broken' => X # {}
    /\ \A p \in Watchers' \ Watchers :
            /\ \E x \in X : x.plugin = p /\ x.at = "onStart"
            /\ ~Unrepeated(p) => worker'[p].timer

LEMMA StayingServes ==
    ASSUME NEW c, NEW w, NEW X, Effect(c, w, X), UNCHANGED <<order, injected>>,
           X # {} \/ c.by # "inject" \/ broken'
    PROVE  Serves(c, w, X)
<1>1. Watchers' = Watchers
    BY DEF Watchers, Plugin
<1> QED
    BY <1>1 DEF Serves

LEMMA RejectServes ==
    ASSUME Typing, CallsOK, NEW c \in Waiting, NEW w, Reject(c, w), UNCHANGED order
    PROVE  Serves(c, w, {})
<1>1. Effect(c, w, {})
    BY RejectEffect
<1>2. UNCHANGED injected /\ (c.by # "inject" \/ broken')
    BY DEF Reject
<1> QED
    BY <1>1, <1>2, StayingServes

LEMMA ReturnServes ==
    ASSUME Typing, CallsOK, NEW c \in Waiting, NEW w \in WorkerRecord, Return(c, w),
           UNCHANGED order
    PROVE  \E X : Serves(c, w, X) /\ Quietly(X)
<1> DEFINE workers == [worker EXCEPT ![c.plugin] = w]
           hook == order[c.plugin].hooked /\ c.at # "onInjected"
<1>1. PICK X : Effect(c, w, X) /\ Quietly(X)
    BY ReturnEffect
<1>2. Changed({c}, X, calls, calls') /\ IsABag(calls) /\ CallOK(c)
    BY <1>1, CallRecordOf DEF Effect
<1>3. CASE c.by = "inject" /\ ~hook
    <2>1. c.plugin = injected /\ injected \in Plugin
        BY <1>2, <1>3 DEF CallOK
    <2>2. injected + 1 \in 1..(Len(order) + 1) /\ Plugin \subseteq Nat /\ Plugin' = Plugin
        BY <2>1, OrderFacts DEF Typing, Plugin
    <2>3. InjectFrom(injected + 1, Without(c), workers)
        BY <1>3, <2>1 DEF Return
    <2>4. workers \in [Plugin -> WorkerRecord]
        BY <2>1 DEF Typing
    <2> HIDE DEF workers
    <2>5. /\ injected' \in Plugin => \E at \in {"onStart", "onInjected"} :
                    calls' = Without(c) (+) SetToBag({Call(injected', "inject", at)})
          /\ \A p \in Plugin : injected + 1 <= p /\ p <= injected' /\ order[p].executeOnStart =>
                /\ p = injected'
                /\ calls' = Without(c) (+) SetToBag({Call(p, "inject", "onStart")})
                /\ order[p].worker => worker'[p] = Ticking(p, workers[p])
        BY <2>2, <2>3, <2>4, InjectionServes DEF Typing
    <2>6. ASSUME NEW Y, calls' = Without(c) (+) SetToBag(Y) PROVE X = Y
        <3>1. Changed({c}, Y, calls, calls')
            BY <1>2, <2>6, ReplacedChanges
        <3> QED
            BY <1>2, <3>1, ChangedOnce
    <2>7. injected' \in Plugin => X # {}
        BY <2>5, <2>6
    <2>8. ASSUME NEW p \in Watchers' \ Watchers
          PROVE  /\ \E x \in X : x.plugin = p /\ x.at = "onStart"
                 /\ ~Unrepeated(p) => worker'[p].timer
        <3>1. p \in Plugin /\ p <= injected' /\ order[p].executeOnStart /\ ~ (p <= injected)
            BY <2>2, <2>8 DEF Watchers
        <3>2. injected + 1 <= p
            BY <2>1, <2>2, <3>1
        <3>3. /\ calls' = Without(c) (+) SetToBag({Call(p, "inject", "onStart")})
              /\ order[p].worker => worker'[p] = Ticking(p, workers[p])
            BY <2>5, <3>1, <3>2
        <3>4. X = {Call(p, "inject", "onStart")}
            BY <2>6, <3>3
        <3>5. workers[p] \in WorkerRecord
            BY <2>4, <3>1
        <3>6. ~Unrepeated(p) => worker'[p].timer
            BY <3>3, <3>5, TickingWorker DEF Unrepeated
        <3> QED
            BY <3>4, <3>6 DEF Call
    <2> QED
        BY <1>1, <2>7, <2>8 DEF Serves
<1>4. CASE c.by = "inject" /\ hook
    <2>1. calls' = Replaced(c, "onInjected") /\ UNCHANGED injected
        BY <1>4 DEF Return
    <2>2. calls' = Without(c) (+) SetToBag({[c EXCEPT !.at = "onInjected"]})
        BY <2>1 DEF Replaced, Without
    <2>3. Changed({c}, {[c EXCEPT !.at = "onInjected"]}, calls, calls')
        BY <1>2, <2>2, ReplacedChanges
    <2>4. X # {}
        BY <1>2, <2>3, ChangedOnce
    <2> QED
        BY <1>1, <2>1, <2>4, StayingServes
<1>5. CASE c.by # "inject"
    <2>1. UNCHANGED injected
        BY <1>5 DEF Return
    <2> QED
        BY <1>1, <1>5, <2>1, StayingServes
<1> QED
    BY <1>3, <1>4, <1>5

LEMMA ReplacedServes ==
    ASSUME Typing, CallsOK, NEW c \in Waiting, NEW w, NEW at \in Places \ {"restop"},
           c.by = "tick" => at \in TickPlaces,
           calls' = Replaced(c, at), worker' = [worker EXCEPT ![c.plugin] = w],
           UNCHANGED <<order, injected, broken>>
    PROVE  Serves(c, w, {Call(c.plugin, c.by, at)})
<1>1. Effect(c, w, {Call(c.plugin, c.by, at)})
    BY ReplacedEffect
<1> QED
    BY <1>1, StayingServes

\* What such an end does for the plugin of c
Attended(c, w, X) ==
    /\ Serves(c, w, X)
    /\ Tame(c, w)
    /\ w.isWorkerRunning =>
            \/ worker[c.plugin].isWorkerRunning /\ c.at # "execute"
            \/ \E x \in X : x.plugin = c.plugin /\ x.at = "execute"
            \/ Lacking(c.plugin)
    /\ failures' \in {failures, failures + 1}
    /\ unstarted \subseteq unstarted' /\ watchReady \subseteq watchReady'
    /\ Attending /\ Watched(c.plugin) /\ c.plugin \notin watchReady' =>
            /\ w.pass > 0 => worker[c.plugin].pass > 0
            /\ Served(c.plugin, calls, worker[c.plugin], unstarted, failures) =>
                    Served(c.plugin, calls', w, unstarted', failures') \/ Lacking(c.plugin)

\* The invariant survives it.
LEMMA AttendedKeeps ==
    ASSUME IInv, ServiceOK, NEW c \in Waiting, NEW w, NEW X, Attended(c, w, X), Steady,
           UNCHANGED <<heard, polling, ready>>
    PROVE  ServiceOK'
<1> DEFINE own == c.plugin
<1>1. Typing /\ CallsOK /\ TimersOK /\ IsABag(calls) /\ UNCHANGED order
    BY DEF IInv, Typing, Steady
<1>2. Serves(c, w, X) /\ Effect(c, w, X) /\ Tame(c, w) /\ Changed({c}, X, calls, calls')
    BY DEF Attended, Serves, Effect
<1>3. CallOK(c) /\ Copies(c, calls) > 0 /\ own \in Plugin /\ own <= injected
    BY <1>1, CallRecordOf DEF CallOK, ServiceOK, BegunOK
<1>4. /\ injected' \in injected..(Len(order) + 1)
      /\ worker'[own] = w
      /\ \A p \in Plugin \ {own} :
            /\ worker'[p].isWorkerRunning = worker[p].isWorkerRunning
            /\ worker'[p].stray = worker[p].stray
            /\ worker'[p].pass = worker[p].pass
            /\ worker[p].timer => worker'[p].timer
    BY <1>1, <1>2, WorkersAfter
<1>5. Len(order) \in Nat /\ Plugin = 1..Len(order) /\ injected \in Nat /\ Plugin' = Plugin
    BY <1>1, OrderFacts DEF Typing, Plugin
<1>6. UNCHANGED <<leaving, heard>> /\ Attending' = Attending
    BY DEF Steady, departure, Attending
<1>7. \A d : Copies(d, calls') > 0 => d \in X \/ Copies(d, calls) > 0
    <2>1. \A d : Copies(d, calls) \in Nat /\ Copies(d, calls') =
            Copies(d, calls) - (IF d \in {c} THEN 1 ELSE 0) + (IF d \in X THEN 1 ELSE 0)
        BY <1>1, <1>2, CopiesType DEF Changed
    <2> QED
        BY <1>3, <2>1
<1>8. \A x \in X : Copies(x, calls') > 0 /\ x.by = c.by
    <2>1. \A x \in X : x.by = c.by
        BY <1>1, <1>2, CallsAfter
    <2> QED
        BY <1>1, <1>2, <1>3, <2>1, AddedCopies
<1>9. ASSUME NEW p, NEW places, Pending(p, places, calls), p # own \/ c.at \notin places
      PROVE  Pending(p, places, calls')
    BY <1>1, <1>2, <1>9, PendingKept
<1>10. BegunOK'
    <2>1. ASSUME NEW x \in X PROVE x.plugin = own \/ x.plugin = injected'
        BY <1>2, <2>1 DEF Effect, Stays, GoesOn, Call
    <2>2. ASSUME NEW d, Copies(d, calls) > 0 PROVE d.plugin <= injected'
        <3>1. d.plugin <= injected /\ d.plugin \in Plugin
            BY <1>1, <2>2 DEF ServiceOK, BegunOK, CallsOK, CallOK
        <3> QED
            BY <1>4, <1>5, <3>1
    <2>3. own <= injected' /\ injected' <= injected'
        BY <1>3, <1>4, <1>5
    <2> QED
        BY <1>7, <2>1, <2>2, <2>3 DEF BegunOK
<1>11. ChainOK'
    <2> SUFFICES ASSUME injected' \in Plugin, ~broken'
                 PROVE  \E d : Copies(d, calls') > 0 /\ d.by = "inject"
        BY <1>5 DEF ChainOK
    <2>1. CASE c.by = "inject"
        <3>1. X # {}
            BY <1>2, <2>1 DEF Serves
        <3> QED
            BY <1>8, <2>1, <3>1
    <2>2. CASE c.by # "inject"
        <3>1. injected' = injected /\ ~broken
            BY <1>2, <2>2 DEF Effect, Stays, GoesOn
        <3>2. PICK d : Copies(d, calls) > 0 /\ d.by = "inject"
            BY <3>1 DEF ServiceOK, ChainOK
        <3>3. Pending(d.plugin, {d.at}, calls)
            BY <3>2 DEF Pending
        <3>4. d # c /\ Copies(d, calls) \in Nat
            BY <1>1, <2>2, <3>2, CopiesType
        <3>5. Copies(d, calls') = Copies(d, calls) + (IF d \in X THEN 1 ELSE 0)
            BY <1>2, <3>4 DEF Changed
        <3>6. Copies(d, calls') > 0
            BY <3>2, <3>4, <3>5
        <3> QED
            BY <3>2, <3>6
    <2> QED
        BY <2>1, <2>2
<1>12. LooksOK'
    <2>1. injected > 0
        BY <1>3, <1>5
    <2> QED
        BY <1>6, <2>1 DEF ServiceOK, LooksOK
<1>13. FlagsOK'
    <2>1. ASSUME NEW p \in Plugin, worker'[p].isWorkerRunning
          PROVE  Pending(p, {"execute"}, calls') \/ Lacking(p)
        <3>1. CASE p # own
            BY <1>4, <1>9, <2>1, <3>1 DEF ServiceOK, FlagsOK
        <3>2. CASE p = own /\ worker[own].isWorkerRunning /\ c.at # "execute"
            BY <1>9, <2>1, <3>2 DEF ServiceOK, FlagsOK
        <3>3. ASSUME p = own, NEW x \in X, x.plugin = own, x.at = "execute"
              PROVE  Pending(p, {"execute"}, calls')
            BY <1>8, <3>3 DEF Pending
        <3> QED
            BY <1>4, <2>1, <3>1, <3>2, <3>3 DEF Attended
    <2>2. \A p \in Plugin : Lacking(p)' = Lacking(p)
        BY <1>1 DEF Lacking
    <2> QED
        BY <1>5, <2>1, <2>2 DEF FlagsOK
<1>14. PassesOK'
    <2>1. ASSUME Attending, NEW p \in Plugin, Watched(p), worker'[p].pass > 0,
                 p \notin watchReady'
          PROVE  FALSE
        <3>1. p \notin watchReady /\ ~ (worker[p].pass > 0)
            BY <2>1 DEF Attended, ServiceOK, PassesOK
        <3> QED
            BY <1>4, <2>1, <3>1 DEF Attended
    <2>2. \A p \in Plugin : Watched(p)' = Watched(p)
        BY <1>1 DEF Watched
    <2> QED
        BY <1>5, <1>6, <2>1, <2>2 DEF PassesOK
<1>15. ServedOK'
    <2>1. ASSUME Attending, NEW p \in Watchers' \ watchReady', ~Lacking(p)
          PROVE  Served(p, calls', worker'[p], unstarted', failures')
        <3>1. p \in Plugin /\ Watched(p) /\ p \notin watchReady
            BY <1>1, <1>5, <2>1 DEF Watchers, Watched, Attended
        <3>2. p \in Watchers => Served(p, calls, worker[p], unstarted, failures)
            BY <2>1, <3>1 DEF ServiceOK, ServedOK
        <3>3. CASE p = own
            <4>1. p \in Watchers
                BY <1>3, <3>1, <3>3 DEF Watchers, Watched
            <4> QED
                BY <1>4, <2>1, <3>1, <3>2, <3>3, <4>1 DEF Attended
        <3>4. CASE p # own /\ p \in Watchers
            <4>1. Ticks(worker[p]) => Ticks(worker'[p])
                BY <1>4, <3>1, <3>4 DEF Ticks
            <4>2. Untroubled(p, calls, worker[p], calls', worker'[p])
                BY <1>9, <3>4, <4>1 DEF Untroubled
            <4>3. failures \in Nat /\ (failures' = failures \/ failures' = failures + 1)
                BY <1>1, LifecycleAssumption DEF Typing, Attended, LifecycleAssumption
            <4>4. unstarted \subseteq unstarted'
                BY DEF Attended
            <4>5. Served(p, calls, worker[p], unstarted, failures)
                BY <3>2, <3>4
            <4> QED
                BY <4>2, <4>3, <4>4, <4>5, ServedKept
        <3>5. CASE p \notin Watchers
            <4>1. PICK x \in X : x.plugin = p /\ x.at = "onStart"
                BY <1>2, <2>1, <3>5 DEF Serves
            <4>2. ~Unrepeated(p) => worker'[p].timer
                BY <1>2, <2>1, <3>5 DEF Serves
            <4>3. Pending(p, {"onStart", "execute"}, calls')
                BY <1>8, <4>1 DEF Pending
            <4> QED
                BY <4>2, <4>3, CertainIsServed DEF Certain, Ticks
        <3> QED
            BY <3>3, <3>4, <3>5
    <2> QED
        BY <1>1, <1>6, <2>1 DEF ServedOK, Served, Certain, Hoped, Unrepeated, Lacking
<1> QED
    BY <1>10, <1>11, <1>12, <1>13, <1>14, <1>15 DEF ServiceOK

\* A call that nobody waits for ends, and leaves its worker as it was.
LEMMA RestingAttends ==
    ASSUME IInv, NEW c \in Waiting, NEW X, Serves(c, worker[c.plugin], X),
           c.at \notin ServingPlaces, failures' \in {failures, failures + 1},
           unstarted \subseteq unstarted', watchReady \subseteq watchReady'
    PROVE  Attended(c, worker[c.plugin], X)
<1> DEFINE own == c.plugin
<1>1. Typing /\ CallsOK /\ IsABag(calls) /\ Changed({c}, X, calls, calls')
    BY DEF IInv, Typing, Serves, Effect
<1>2. Tame(c, worker[own]) /\ c.at # "execute"
    BY <1>1, Untouched DEF ServingPlaces
<1>3. Untroubled(own, calls, worker[own], calls', worker[own])
    <2>1. ASSUME NEW places \in SUBSET ServingPlaces, Pending(own, places, calls)
          PROVE  Pending(own, places, calls')
        BY <1>1, <2>1, PendingKept
    <2> QED
        BY <2>1 DEF Untroubled
<1>4. failures \in Nat /\ (failures' = failures \/ failures' = failures + 1)
    BY <1>1, LifecycleAssumption DEF Typing, LifecycleAssumption
<1>5. Served(own, calls, worker[own], unstarted, failures) =>
            Served(own, calls', worker[own], unstarted', failures')
    BY <1>3, <1>4, ServedKept
<1> QED
    BY <1>2, <1>5 DEF Attended

LEMMA EndedAttends ==
    ASSUME IInv, NEW c \in Waiting, StoppedAfterLast(c) \/ OnInjectedEnds(c), UNCHANGED order
    PROVE  \E w, X : Attended(c, w, X)
<1>1. Typing /\ CallsOK /\ worker[c.plugin] \in WorkerRecord
    BY Untouched DEF IInv
<1>2. /\ c.at \notin ServingPlaces /\ failures' \in {failures, failures + 1}
      /\ UNCHANGED <<unstarted, watchReady>>
    BY DEF StoppedAfterLast, OnInjectedEnds, MayFail, ServingPlaces
<1>3. \E X : Serves(c, worker[c.plugin], X)
    BY <1>1, ReturnServes, RejectServes DEF StoppedAfterLast, OnInjectedEnds
<1> QED
    BY <1>2, <1>3, RestingAttends

LEMMA RestoppedAttends ==
    ASSUME IInv, NEW c \in Waiting, Restopped(c), UNCHANGED order
    PROVE  \E w, X : Attended(c, w, X)
<1> DEFINE own == c.plugin
           w == Ticking(own, worker[own])
<1>1. Typing /\ CallsOK /\ IsABag(calls)
    BY DEF IInv, Typing
<1>2. /\ CallOK(c) /\ c.at = "restop" /\ c = Restop(own) /\ worker[own] \in WorkerRecord
      /\ Copies(c, calls) > 0
    BY <1>1, CallRecordOf, Untouched DEF Restopped, CallOK
<1>3. /\ w \in WorkerRecord /\ w.isWorkerRunning = worker[own].isWorkerRunning
      /\ w.stray \in worker[own].stray..(worker[own].stray + 1) /\ w.pass = worker[own].pass
      /\ order[own].interval => w.timer
    BY <1>2, TickingWorker
<1>4. /\ \/ /\ order[own].executeOnStart
            /\ calls' = Replaced(c, "onStart") /\ worker' = [worker EXCEPT ![own] = w]
            /\ UNCHANGED <<injected, broken>>
         \/ ~order[own].executeOnStart /\ Return(c, w)
      /\ UNCHANGED <<watchReady, failures, unstarted>>
    BY DEF Restopped
<1> HIDE DEF w
<1>5. Tame(c, w)
    BY <1>2, <1>3 DEF Tame, WorkerRecord
<1>6. CASE ~order[own].executeOnStart /\ Return(c, w)
    <2>1. PICK X : Serves(c, w, X)
        BY <1>1, <1>3, <1>6, ReturnServes
    <2>2. ~Watched(own)
        BY <1>6 DEF Watched
    <2> QED
        BY <1>2, <1>3, <1>4, <1>5, <2>1, <2>2 DEF Attended
<1>7. CASE /\ calls' = Replaced(c, "onStart") /\ worker' = [worker EXCEPT ![own] = w]
           /\ UNCHANGED <<injected, broken>>
    <2> DEFINE x == Call(own, c.by, "onStart")
    <2>1. c.by # "tick"
        BY <1>2 DEF Restop, Call
    <2>2. Serves(c, w, {x})
        BY <1>1, <1>7, <2>1, ReplacedServes DEF Places
    <2>3. x.at = "onStart" /\ x.plugin = own
        BY DEF Call
    <2> HIDE DEF x
    <2>4. Changed({c}, {x}, calls, calls')
        BY <2>2 DEF Serves, Effect
    <2>5. Pending(own, {"onStart", "execute"}, calls')
        BY <1>1, <1>2, <2>3, <2>4, PendingAdded
    <2>6. Certain(own, calls', w)
        BY <1>3, <2>5 DEF Certain, Unrepeated, Ticks
    <2>7. Served(own, calls', w, unstarted', failures')
        BY <2>6, CertainIsServed
    <2> QED
        BY <1>2, <1>3, <1>4, <1>5, <2>2, <2>7 DEF Attended
<1> QED
    BY <1>4, <1>6, <1>7

\* execWorker that finds the flag set leaves it to who executes, and one that
\* finds the last pass made has been announced.
LEMMA WorkerStartedAttends ==
    ASSUME IInv, ServiceOK, NEW c \in Waiting, WorkerStarted(c), UNCHANGED order
    PROVE  \E w, X : Attended(c, w, X)
<1> DEFINE own == c.plugin
           w == Entered(own, worker[own])
           at == ExecWaits(own, worker[own])
<1>1. Typing /\ CallsOK /\ IsABag(calls)
    BY DEF IInv, Typing
<1>2. CallOK(c) /\ Copies(c, calls) > 0 /\ worker[own] \in WorkerRecord /\ own \in Plugin
    BY <1>1, CallRecordOf, Untouched
<1>3. /\ w \in WorkerRecord /\ w.stray = worker[own].stray /\ (w.timer => worker[own].timer)
      /\ at \in {"nothing", "throw", "execute", "laststop"}
      /\ at = "nothing" => w = worker[own] /\ worker[own].isWorkerRunning
      /\ at = "throw" => Lacking(own)
      /\ at \in {"throw", "execute"} => w.timer = worker[own].timer /\ w.pass = worker[own].pass
      /\ at = "laststop" => LastPass(own, worker[own]) /\ ~w.isWorkerRunning /\ w.pass = 0
    BY <1>2, EnteredWorker
<1>4. /\ c.at = "onStart"
      /\ \/ at = "nothing" /\ Return(c, w)
         \/ at = "throw" /\ Fail(c, w)
         \/ /\ at \notin {"nothing", "throw"}
            /\ calls' = Replaced(c, at) /\ worker' = [worker EXCEPT ![own] = w]
            /\ UNCHANGED <<injected, broken>>
      /\ UNCHANGED <<watchReady, failures, unstarted>>
    BY DEF WorkerStarted
<1> HIDE DEF w, at
<1>5. Tame(c, w)
    BY <1>2, <1>3 DEF Tame, WorkerRecord
<1>6. failures \in Nat
    BY <1>1, LifecycleAssumption DEF Typing, LifecycleAssumption
<1>7. CASE at = "nothing"
    <2>1. PICK X : Serves(c, w, X)
        BY <1>1, <1>3, <1>4, <1>7, ReturnServes
    <2>2. Changed({c}, X, calls, calls')
        BY <2>1 DEF Serves, Effect
    <2> SUFFICES ASSUME ~Lacking(own) PROVE Attended(c, w, X)
        BY <1>3, <1>4, <1>5, <1>7, <2>1 DEF Attended
    <2>3. Pending(own, {"execute"}, calls)
        BY <1>2, <1>3, <1>7 DEF ServiceOK, FlagsOK
    <2>4. ASSUME NEW places, Pending(own, places, calls), c.at \notin places
          PROVE  Pending(own, places, calls')
        BY <1>1, <2>2, <2>4, PendingKept
    <2>5. Pending(own, {"execute"}, calls')
        BY <1>4, <2>3, <2>4
    <2>6. Pending(own, {"onStart", "execute"}, calls') /\ Pending(own, ServingPlaces, calls')
        BY <2>5 DEF Pending, ServingPlaces
    <2>7. Pending(own, {"restop"}, calls) => Pending(own, {"restop"}, calls')
        BY <1>4, <2>4
    <2>8. Certain(own, calls, worker[own]) => Certain(own, calls', w)
        BY <1>3, <1>7, <2>6, <2>7 DEF Certain
    <2>9. Hoped(own, calls', w, unstarted')
        BY <2>6 DEF Hoped
    <2>10. Served(own, calls, worker[own], unstarted, failures) =>
                Served(own, calls', w, unstarted', failures')
        BY <1>4, <2>8, <2>9 DEF Served
    <2> QED
        BY <1>3, <1>4, <1>5, <1>7, <2>1, <2>10 DEF Attended
<1>8. CASE at = "throw"
    <2>1. PICK X : Serves(c, w, X)
        BY <1>1, <1>3, <1>4, <1>8, ReturnServes, RejectServes DEF Fail
    <2> QED
        BY <1>3, <1>4, <1>5, <1>8, <2>1 DEF Attended
<1>9. CASE at \notin {"nothing", "throw"}
    <2> DEFINE x == Call(own, c.by, at)
    <2>1. at \in Places \ {"restop"} /\ at \in TickPlaces
        BY <1>3, <1>9 DEF Places, TickPlaces
    <2>2. Serves(c, w, {x})
        BY <1>1, <1>4, <1>9, <2>1, ReplacedServes
    <2>3. x.at = at /\ x.plugin = own
        BY DEF Call
    <2> HIDE DEF x
    <2>4. Changed({c}, {x}, calls, calls')
        BY <2>2 DEF Serves, Effect
    <2>5. CASE at = "laststop"
        <3>1. worker[own].pass > 0
            BY <1>2, <1>3, <2>5, OrderFacts, <1>1 DEF LastPass, Typing, WorkerRecord
        <3>2. Attending /\ Watched(own) => own \in watchReady
            BY <1>2, <3>1 DEF ServiceOK, PassesOK
        <3> QED
            BY <1>3, <1>4, <1>5, <2>2, <2>5, <3>2 DEF Attended
    <2>6. CASE at = "execute"
        <3>1. Pending(own, {"onStart", "execute"}, calls') /\ Pending(own, ServingPlaces, calls')
            <4>1. Pending(own, {"execute"}, calls')
                BY <1>1, <1>2, <2>3, <2>4, <2>6, PendingAdded
            <4> QED
                BY <4>1 DEF Pending, ServingPlaces
        <3>2. Pending(own, {"restop"}, calls) => Pending(own, {"restop"}, calls')
            BY <1>1, <1>4, <2>4, PendingKept
        <3>3. Ticks(worker[own]) => Ticks(w)
            BY <1>3, <2>6 DEF Ticks
        <3>4. Certain(own, calls, worker[own]) => Certain(own, calls', w)
            BY <3>1, <3>2, <3>3 DEF Certain
        <3>5. Hoped(own, calls', w, unstarted')
            BY <3>1 DEF Hoped
        <3>6. Served(own, calls, worker[own], unstarted, failures) =>
                    Served(own, calls', w, unstarted', failures')
            BY <1>4, <3>4, <3>5 DEF Served
        <3>7. \E y \in {x} : y.plugin = own /\ y.at = "execute"
            BY <2>3, <2>6
        <3> QED
            BY <1>3, <1>4, <1>5, <2>2, <2>6, <3>6, <3>7 DEF Attended
    <2> QED
        BY <1>3, <1>9, <2>5, <2>6
<1> QED
    BY <1>7, <1>9, <1>8

\* An execution, or the start of a plugin without one, is announced.
LEMMA HeardAttends ==
    ASSUME IInv, ServiceOK, NEW c \in Waiting, NEW w, NEW X, Serves(c, w, X), Tame(c, w),
           ~w.isWorkerRunning \/ (worker[c.plugin].isWorkerRunning /\ c.at # "execute"),
           watchReady \subseteq watchReady', Attending => watchReady' = Heard(c.plugin),
           UNCHANGED <<failures, unstarted>>
    PROVE  Attended(c, w, X)
<1>1. CallOK(c) /\ Copies(c, calls) > 0 /\ c.plugin \in Plugin /\ c.plugin <= injected
    BY CallRecordOf DEF IInv, CallOK, ServiceOK, BegunOK
<1>2. Attending /\ Watched(c.plugin) => c.plugin \in watchReady'
    BY <1>1 DEF Watched, Heard, Watchers
<1> QED
    BY <1>2 DEF Attended

LEMMA AnnouncedAttends ==
    ASSUME IInv, ServiceOK, NEW c \in Waiting, UNCHANGED order,
           PluginStarted(c) \/ ExecutionEnds(c) \/ StoppedAfterFailure(c)
    PROVE  \E w, X : Attended(c, w, X)
<1> DEFINE own == c.plugin
           w == Executed(own, worker[own])
<1>1. Typing /\ CallsOK /\ worker[own] \in WorkerRecord /\ Tame(c, worker[own])
    BY Untouched DEF IInv
<1>2. UNCHANGED <<failures, unstarted>>
    BY DEF PluginStarted, ExecutionEnds, StoppedAfterFailure
<1>3. watchReady \subseteq Heard(own)
    BY DEF Heard
<1>4. CASE PluginStarted(c)
    <2>1. PICK X : Serves(c, worker[own], X)
        BY <1>1, <1>4, ReturnServes DEF PluginStarted
    <2> QED
        BY <1>1, <1>2, <1>3, <1>4, <2>1, HeardAttends DEF PluginStarted
<1>5. CASE /\ Return(c, w) /\ watchReady' = Heard(own)
    <2>1. /\ w \in WorkerRecord /\ ~w.isWorkerRunning
          /\ w.stray = worker[own].stray /\ w.timer = worker[own].timer
        BY <1>1, ExecutedWorker
    <2> HIDE DEF w
    <2>2. Tame(c, w)
        BY <1>1, <2>1 DEF Tame, WorkerRecord
    <2>3. PICK X : Serves(c, w, X)
        BY <1>1, <1>5, <2>1, ReturnServes
    <2> QED
        BY <1>2, <1>3, <1>5, <2>1, <2>2, <2>3, HeardAttends
<1>6. CASE ErrorThrows /\ Reject(c, worker[own]) /\ UNCHANGED watchReady /\ c.at = "failstop"
    <2>1. Serves(c, worker[own], {}) /\ ~Attending
        BY <1>1, <1>6, RejectServes DEF ErrorThrows, Attending, Listening
    <2>2. \/ ~worker[own].isWorkerRunning
          \/ worker[own].isWorkerRunning /\ c.at # "execute"
        BY <1>6
    <2> QED
        BY <1>1, <1>2, <1>6, <2>1, <2>2, HeardAttends
<1> QED
    BY <1>4, <1>5, <1>6 DEF ExecutionEnds, StoppedAfterFailure

\* The first failure leaves who executes or an interval, or there is none.
LEMMA FailedAttends ==
    ASSUME IInv, NEW c \in Waiting, StartFailed(c) \/ StopFailed(c), UNCHANGED order
    PROVE  \E w, X : Attended(c, w, X)
<1> DEFINE own == c.plugin
<1>1. /\ Typing /\ CallsOK /\ IsABag(calls)
      /\ worker[own] \in WorkerRecord /\ Tame(c, worker[own])
    BY Untouched DEF IInv, Typing
<1>2. PICK X : Serves(c, worker[own], X)
    BY <1>1, ReturnServes, RejectServes DEF StartFailed, StopFailed, Fail
<1>3. /\ failures' = failures + 1 /\ failures \in Nat /\ UNCHANGED watchReady
      /\ unstarted \subseteq unstarted' /\ c.at # "execute"
    BY <1>1, LifecycleAssumption
    DEF StartFailed, StopFailed, MayFail, Typing, LifecycleAssumption
<1>4. Changed({c}, X, calls, calls')
    BY <1>2 DEF Serves, Effect
<1>5. ASSUME NEW places, Pending(own, places, calls), c.at \notin places
      PROVE  Pending(own, places, calls')
    BY <1>1, <1>4, <1>5, PendingKept
<1>6. ASSUME Certain(own, calls, worker[own]) PROVE Hoped(own, calls', worker[own], unstarted')
    <2>1. CASE StopFailed(c)
        <3>1. Pending(own, {"onStart", "execute"}, calls')
            BY <1>5, <1>6, <2>1 DEF StopFailed, Certain
        <3> QED
            BY <3>1 DEF Hoped, Pending, ServingPlaces
    <2>2. CASE StartFailed(c) /\ Unrepeated(own)
        BY <2>2 DEF StartFailed, Hoped
    <2>3. CASE StartFailed(c) /\ ~Unrepeated(own)
        <3>1. Ticks(worker[own]) \/ Pending(own, {"restop"}, calls')
            BY <1>5, <1>6, <2>3 DEF StartFailed, Certain
        <3> QED
            BY <3>1 DEF Hoped, Pending, ServingPlaces
    <2> QED
        BY <2>1, <2>2, <2>3
<1>7. ASSUME Served(own, calls, worker[own], unstarted, failures)
      PROVE  Served(own, calls', worker[own], unstarted', failures')
    BY <1>3, <1>6, <1>7 DEF Served
<1> QED
    BY <1>1, <1>2, <1>3, <1>7 DEF Attended

LEMMA ExecutionFailsAttends ==
    ASSUME IInv, NEW c \in Waiting, ExecutionFails(c), UNCHANGED order
    PROVE  \E w, X : Attended(c, w, X)
<1> DEFINE own == c.plugin
           w == Stopped(worker[own])
           x == Call(own, c.by, "failstop")
<1>1. /\ Typing /\ CallsOK /\ IsABag(calls) /\ Copies(c, calls) > 0
      /\ worker[own] \in WorkerRecord
    BY CallRecordOf, Untouched DEF IInv
<1>2. /\ w \in WorkerRecord /\ ~w.timer /\ w.stray = worker[own].stray /\ ~w.isWorkerRunning
      /\ w.pass = 0
    BY <1>1, StoppedWorker
<1>3. /\ calls' = Replaced(c, "failstop") /\ worker' = [worker EXCEPT ![own] = w]
      /\ failures' = failures + 1 /\ failures \in Nat
      /\ UNCHANGED <<injected, broken, watchReady, unstarted>>
    BY <1>1, LifecycleAssumption DEF ExecutionFails, MayFail, Typing, LifecycleAssumption
<1> HIDE DEF w
<1>4. Tame(c, w)
    BY <1>1, <1>2 DEF Tame, WorkerRecord
<1>5. Serves(c, w, {x})
    BY <1>1, <1>3, ReplacedServes DEF Places, TickPlaces
<1>6. Pending(own, ServingPlaces, calls')
    <2>1. x.at \in ServingPlaces /\ x.plugin = own
        BY DEF Call, ServingPlaces
    <2>2. Changed({c}, {x}, calls, calls')
        BY <1>5 DEF Serves, Effect
    <2> QED
        BY <1>1, <2>1, <2>2, PendingAdded
<1>7. Served(own, calls', w, unstarted', failures')
    BY <1>3, <1>6 DEF Served, Hoped
<1> QED
    BY <1>2, <1>3, <1>4, <1>5, <1>7 DEF Attended

LEMMA SettleServes ==
    ASSUME IInv, ServiceOK, NEW c \in Waiting, Settle(c) PROVE ServiceOK'
<1>1. /\ Steady /\ UNCHANGED <<heard, polling, ready>> /\ UNCHANGED order
    BY DEF Settle, Steady
<1>2. \E w, X : Attended(c, w, X)
    BY <1>1, RestoppedAttends, WorkerStartedAttends, AnnouncedAttends, FailedAttends,
       ExecutionFailsAttends, EndedAttends
    DEF Settle
<1> QED
    BY <1>1, <1>2, AttendedKeeps

LEMMA InitServes == ASSUME Init PROVE ServiceOK
<1>1. /\ injected = 0 /\ calls = EmptyBag /\ worker = [p \in Plugin |-> Idle]
    BY DEF Init
<1>2. Plugin \subseteq Nat \ {0}
    BY InitKeeps, OrderFacts DEF IInv, Typing
<1>3. \A d : ~ (Copies(d, calls) > 0)
    BY <1>1, NoCopies
<1>4. BegunOK /\ ChainOK /\ LooksOK
    BY <1>1, <1>2, <1>3 DEF BegunOK, ChainOK, LooksOK
<1>5. \A p \in Plugin : ~worker[p].isWorkerRunning /\ worker[p].pass = 0
    BY <1>1 DEF Idle
<1>6. FlagsOK /\ PassesOK
    BY <1>5 DEF FlagsOK, PassesOK
<1>7. ServedOK
    BY <1>1, <1>2 DEF ServedOK, Watchers
<1> QED
    BY <1>4, <1>6, <1>7 DEF ServiceOK

\* Where calls are only added
LEMMA CallsStay ==
    ASSUME IsABag(calls), NEW X, Changed({}, X, calls, calls')
    PROVE  /\ \A d : Copies(d, calls') > 0 <=> d \in X \/ Copies(d, calls) > 0
           /\ \A p, places : Pending(p, places, calls) => Pending(p, places, calls')
<1>1. \A d : Copies(d, calls) \in Nat /\ Copies(d, calls') =
            Copies(d, calls) + (IF d \in X THEN 1 ELSE 0)
    BY CopiesType DEF Changed
<1>2. \A d : Copies(d, calls') > 0 <=> d \in X \/ Copies(d, calls) > 0
    BY <1>1
<1> QED
    BY <1>2 DEF Pending

LEMMA InitializeServes == ASSUME IInv, ServiceOK, Initialize PROVE ServiceOK'
<1> DEFINE q == injected'
<1>1. /\ injected = 0 /\ InjectFrom(1, calls, worker) /\ polling' = TRUE
      /\ UNCHANGED <<order, heard, broken, watchReady, ready, leaving, failures, unstarted>>
    BY DEF Initialize, departure, bounds, history
<1>2. Typing /\ IsABag(calls) /\ Arranged(order) /\ worker \in [Plugin -> WorkerRecord]
    BY DEF IInv, Typing
<1>3. Len(order) \in Nat /\ Plugin = 1..Len(order) /\ Plugin' = Plugin
    BY <1>1, <1>2, OrderFacts DEF Plugin
<1>4. 1 \in 1..(Len(order) + 1) /\ DOMAIN worker = Plugin
    BY <1>2, <1>3
<1>5. /\ q \in 1..(Len(order) + 1)
      /\ \/ calls' = calls
         \/ /\ q \in Plugin
            /\ \E at \in {"onStart", "onInjected"} :
                    calls' = calls (+) SetToBag({Call(q, "inject", at)})
      /\ \/ worker' = worker
         \/ q \in Plugin /\ worker' = [worker EXCEPT ![q] = Ticking(q, worker[q])]
    BY <1>1, <1>2, <1>4, InjectionGoesOn
<1>6. /\ q \in Plugin => \E at \in {"onStart", "onInjected"} :
                calls' = calls (+) SetToBag({Call(q, "inject", at)})
      /\ \A p \in Plugin : 1 <= p /\ p <= q /\ order[p].executeOnStart =>
            /\ p = q
            /\ calls' = calls (+) SetToBag({Call(p, "inject", "onStart")})
            /\ order[p].worker => worker'[p] = Ticking(p, worker[p])
    BY <1>1, <1>2, <1>4, InjectionServes
<1>7. PICK X : /\ Changed({}, X, calls, calls')
               /\ \A x \in X : x.plugin = q
    <2>1. CASE calls' = calls
        <3>1. \A d : Copies(d, calls) \in Nat
            BY <1>2, CopiesType
        <3>2. Changed({}, {}, calls, calls')
            BY <1>2, <2>1, <3>1 DEF Changed
        <3> QED
            BY <3>2
    <2>2. ASSUME NEW at, calls' = calls (+) SetToBag({Call(q, "inject", at)})
          PROVE  /\ Changed({}, {Call(q, "inject", at)}, calls, calls')
                 /\ Call(q, "inject", at).plugin = q
        BY <1>2, <2>2, AddedChanges DEF Call
    <2> QED
        BY <1>5, <2>1, <2>2
<1>8. /\ \A d : Copies(d, calls') > 0 <=> d \in X \/ Copies(d, calls) > 0
      /\ \A p, places : Pending(p, places, calls) => Pending(p, places, calls')
    BY <1>2, <1>7, CallsStay
<1>9. \A p \in Plugin : /\ worker'[p].isWorkerRunning = worker[p].isWorkerRunning
                        /\ worker'[p].pass = worker[p].pass
    <2>1. ASSUME q \in Plugin, worker' = [worker EXCEPT ![q] = Ticking(q, worker[q])],
                 NEW p \in Plugin
          PROVE  /\ worker'[p].isWorkerRunning = worker[p].isWorkerRunning
                 /\ worker'[p].pass = worker[p].pass
        <3>1. worker'[p] = IF p = q THEN Ticking(q, worker[q]) ELSE worker[p]
            BY <1>2, <2>1
        <3>2. worker[p] \in WorkerRecord
            BY <1>2
        <3> QED
            BY <3>1, <3>2, TickingWorker
    <2> QED
        BY <1>5, <2>1
<1>10. BegunOK'
    <2>1. ASSUME NEW d, Copies(d, calls) > 0 PROVE FALSE
        <3>1. d.plugin \in Plugin /\ d.plugin <= 0
            BY <1>1, <2>1 DEF IInv, CallsOK, CallOK, ServiceOK, BegunOK
        <3> QED
            BY <1>3, <3>1
    <2>2. q <= q
        BY <1>5, <1>3
    <2> QED
        BY <1>7, <1>8, <2>1, <2>2 DEF BegunOK
<1>11. ChainOK'
    <2>1. ASSUME NEW at, calls' = calls (+) SetToBag({Call(q, "inject", at)})
          PROVE  \E d : Copies(d, calls') > 0 /\ d.by = "inject"
        <3>1. Changed({}, {Call(q, "inject", at)}, calls, calls')
            BY <1>2, <2>1, AddedChanges
        <3>2. Copies(Call(q, "inject", at), calls') > 0
            BY <1>2, <3>1, CallsStay
        <3>3. Call(q, "inject", at).by = "inject"
            BY DEF Call
        <3> QED
            BY <3>2, <3>3
    <2> QED
        BY <1>3, <1>6, <2>1 DEF ChainOK
<1>12. LooksOK'
    BY <1>1 DEF LooksOK
<1>13. FlagsOK'
    BY <1>1, <1>3, <1>8, <1>9 DEF ServiceOK, FlagsOK, Lacking
<1>14. PassesOK'
    BY <1>1, <1>3, <1>9 DEF ServiceOK, PassesOK, Attending, Watched
<1>15. ServedOK'
    <2>1. ASSUME NEW p \in Watchers'
          PROVE  Served(p, calls', worker'[p], unstarted', failures')
        <3>1. p \in Plugin /\ 1 <= p /\ p <= q /\ order[p].executeOnStart
            BY <1>1, <1>3, <2>1 DEF Watchers
        <3>2. /\ calls' = calls (+) SetToBag({Call(p, "inject", "onStart")})
              /\ order[p].worker => worker'[p] = Ticking(p, worker[p])
            BY <1>6, <3>1
        <3>3. Changed({}, {Call(p, "inject", "onStart")}, calls, calls')
            BY <1>2, <3>2, AddedChanges
        <3>4. Copies(Call(p, "inject", "onStart"), calls') > 0
            BY <1>2, <3>3, CallsStay
        <3>5. Pending(p, {"onStart", "execute"}, calls')
            BY <3>4 DEF Pending, Call
        <3>6. worker[p] \in WorkerRecord
            BY <1>2, <3>1
        <3>7. ~Unrepeated(p) => worker'[p].timer
            BY <3>2, <3>6, TickingWorker DEF Unrepeated
        <3> QED
            BY <3>5, <3>7, CertainIsServed DEF Certain, Ticks
    <2> QED
        BY <1>1, <2>1 DEF ServedOK, Served, Certain, Hoped, Unrepeated
<1> QED
    BY <1>10, <1>11, <1>12, <1>13, <1>14, <1>15 DEF ServiceOK

LEMMA TickServes == ASSUME IInv, ServiceOK, NEW p \in Plugin, Tick(p) PROVE ServiceOK'
<1> DEFINE at == ExecWaits(p, worker[p])
           w == Entered(p, worker[p])
<1>0. PICK x : x = Call(p, "tick", at)
    OBVIOUS
<1>1. /\ worker[p].timer \/ worker[p].stray > 0
      /\ at # "nothing"
      /\ calls' = IF at = "throw" THEN calls ELSE calls (+) SetToBag({x})
      /\ worker' = [worker EXCEPT ![p] = w]
      /\ UNCHANGED <<order, heard, injected, broken, watchReady, polling, ready, leaving,
                     failures, unstarted>>
    BY <1>0 DEF Tick, injection, readiness, departure, bounds
<1>2. Typing /\ IsABag(calls) /\ worker \in [Plugin -> WorkerRecord]
    BY DEF IInv, Typing
<1>3. /\ w.stray = worker[p].stray
      /\ at \in {"throw", "execute", "laststop"}
      /\ at = "throw" => Lacking(p)
      /\ at \in {"throw", "execute"} => w.timer = worker[p].timer /\ w.pass = worker[p].pass
      /\ at = "laststop" => LastPass(p, worker[p]) /\ ~w.isWorkerRunning /\ w.pass = 0
    BY <1>1, <1>2, EnteredWorker
<1>4. x.plugin = p /\ x.by = "tick" /\ x.at = at
    BY <1>0 DEF Call
<1> HIDE DEF at, w
<1>5. PICK X : Changed({}, X, calls, calls') /\ X = IF at = "throw" THEN {} ELSE {x}
    BY <1>1, <1>2, TickChanges
<1>6. /\ \A d : Copies(d, calls') > 0 <=> d \in X \/ Copies(d, calls) > 0
      /\ \A q, places : Pending(q, places, calls) => Pending(q, places, calls')
    BY <1>2, <1>5, CallsStay
<1>7. worker'[p] = w /\ \A q \in Plugin \ {p} : worker'[q] = worker[q]
    BY <1>1, <1>2
<1>8. Plugin' = Plugin /\ Watchers' = Watchers /\ Attending' = Attending
    BY <1>1 DEF Plugin, Watchers, Attending
<1>9. BegunOK'
    <2>1. p <= injected
        BY <1>1 DEF IInv, TimersOK, Registered
    <2> QED
        BY <1>1, <1>4, <1>5, <1>6, <2>1 DEF ServiceOK, BegunOK
<1>10. ChainOK' /\ LooksOK'
    BY <1>1, <1>6, <1>8 DEF ServiceOK, ChainOK, LooksOK
<1>11. FlagsOK'
    <2>1. at = "execute" => Pending(p, {"execute"}, calls')
        BY <1>4, <1>5, <1>6 DEF Pending
    <2>2. \A q \in Plugin : Lacking(q)' = Lacking(q)
        BY <1>1 DEF Lacking
    <2> QED
        BY <1>3, <1>6, <1>7, <1>8, <2>1, <2>2 DEF ServiceOK, FlagsOK
<1>12. PassesOK'
    BY <1>1, <1>3, <1>7, <1>8 DEF ServiceOK, PassesOK, Watched
<1>13. ServedOK'
    <2>1. ASSUME Attending, NEW q \in Watchers \ watchReady, ~Lacking(q)
          PROVE  Served(q, calls', worker'[q], unstarted, failures)
        <3>1. q \in Plugin /\ Watched(q) /\ Served(q, calls, worker[q], unstarted, failures)
            BY <2>1 DEF ServiceOK, ServedOK, Watchers, Watched
        <3>2. Ticks(worker[q]) => Ticks(worker'[q])
            <4>1. CASE q # p
                BY <1>7, <3>1, <4>1
            <4>2. CASE q = p /\ at \in {"throw", "execute"}
                BY <1>3, <1>7, <4>2 DEF Ticks
            <4>3. CASE q = p /\ at = "laststop"
                <5>1. worker[p].pass > 0
                    BY <1>2, <1>3, <4>3, OrderFacts DEF LastPass, Typing, WorkerRecord
                <5> QED
                    BY <2>1, <3>1, <4>3, <5>1 DEF ServiceOK, PassesOK
            <4> QED
                BY <1>3, <4>1, <4>2, <4>3
        <3>3. Untroubled(q, calls, worker[q], calls', worker'[q])
            BY <1>6, <3>2 DEF Untroubled
        <3>4. failures \in Nat
            BY <1>2, LifecycleAssumption DEF Typing, LifecycleAssumption
        <3> QED
            BY <3>1, <3>3, <3>4, ServedKept
    <2> QED
        BY <1>1, <1>8, <2>1 DEF ServedOK, Served, Certain, Hoped, Unrepeated, Lacking
<1> QED
    BY <1>9, <1>10, <1>11, <1>12, <1>13 DEF ServiceOK

\* connect lets go of an interval by starting with a stop, which ends in one.
LEMMA ConnectServes == ASSUME IInv, ServiceOK, Connect PROVE ServiceOK'
<1>0. PICK X : X = {Call(p, "connect", Begun(p)) :
                        p \in {q \in Registered : Begun(q) # "nothing"}}
    OBVIOUS
<1>1. /\ worker' = [p \in Plugin |->
           IF p \notin Registered THEN worker[p]
           ELSE IF worker[p].timer THEN Stopped(worker[p]) ELSE Ticking(p, worker[p])]
      /\ calls' = calls (+) SetToBag(X)
      /\ UNCHANGED <<order, heard, injected, broken, watchReady, polling, ready, leaving,
                     failures, unstarted>>
    BY <1>0 DEF Connect, injection, readiness, departure
<1>2. Typing /\ IsABag(calls) /\ worker \in [Plugin -> WorkerRecord]
    BY DEF IInv, Typing
<1>3. Changed({}, X, calls, calls')
    BY <1>1, <1>2, AddedChanges
<1>4. /\ \A d : Copies(d, calls') > 0 <=> d \in X \/ Copies(d, calls) > 0
      /\ \A q, places : Pending(q, places, calls) => Pending(q, places, calls')
    BY <1>2, <1>3, CallsStay
<1>5. Plugin' = Plugin /\ Watchers' = Watchers /\ Attending' = Attending
    BY <1>1 DEF Plugin, Watchers, Attending
<1>6. \A x \in X : x.plugin <= injected
    BY <1>0 DEF Call, Registered
<1>7. ASSUME NEW p \in Plugin
      PROVE  /\ worker'[p].isWorkerRunning => worker[p].isWorkerRunning
             /\ worker'[p].pass > 0 => worker[p].pass > 0
             /\ worker'[p].stray = worker[p].stray
             /\ worker[p].timer /\ p \notin Registered => worker'[p].timer
    <2>1. worker[p] \in WorkerRecord
        BY <1>2
    <2>2. CASE p \notin Registered
        BY <1>1, <2>2
    <2>3. CASE p \in Registered /\ worker[p].timer
        <3>1. worker'[p] = Stopped(worker[p])
            BY <1>1, <2>3
        <3> QED
            BY <2>1, <2>3, <3>1, StoppedWorker
    <2>4. CASE p \in Registered /\ ~worker[p].timer
        <3>1. worker'[p] = Ticking(p, worker[p])
            BY <1>1, <2>4
        <3> QED
            BY <2>1, <2>4, <3>1, TickingWorker
    <2> QED
        BY <2>2, <2>3, <2>4
<1>8. ASSUME NEW p \in Plugin, Ticks(worker[p])
      PROVE  Ticks(worker'[p]) \/ Pending(p, {"restop"}, calls')
    <2>1. CASE worker[p].stray > 0 \/ (worker[p].timer /\ p \notin Registered)
        BY <1>7, <2>1 DEF Ticks
    <2>2. CASE worker[p].timer /\ p \in Registered
        <3>1. Call(p, "connect", "restop") \in X
            BY <1>0, <2>2 DEF Begun
        <3>2. Copies(Call(p, "connect", "restop"), calls') > 0
            BY <1>4, <3>1
        <3> QED
            BY <3>2 DEF Pending, Call
    <2> QED
        BY <1>8, <2>1, <2>2 DEF Ticks
<1>9. BegunOK' /\ ChainOK' /\ LooksOK'
    BY <1>1, <1>4, <1>5, <1>6 DEF ServiceOK, BegunOK, ChainOK, LooksOK
<1>10. FlagsOK' /\ PassesOK'
    BY <1>1, <1>4, <1>5, <1>7 DEF ServiceOK, FlagsOK, PassesOK, Watched, Lacking
<1>11. ServedOK'
    <2>1. ASSUME Attending, NEW p \in Watchers \ watchReady, ~Lacking(p)
          PROVE  Served(p, calls', worker'[p], unstarted, failures)
        <3>1. p \in Plugin /\ Served(p, calls, worker[p], unstarted, failures)
            BY <2>1 DEF ServiceOK, ServedOK, Watchers
        <3>2. Certain(p, calls, worker[p]) => Certain(p, calls', worker'[p])
            BY <1>4, <1>8, <3>1 DEF Certain
        <3>3. Hoped(p, calls, worker[p], unstarted) => Hoped(p, calls', worker'[p], unstarted)
            <4>1. Pending(p, {"restop"}, calls') => Pending(p, ServingPlaces, calls')
                BY DEF Pending, ServingPlaces
            <4> QED
                BY <1>4, <1>8, <3>1, <4>1 DEF Hoped
        <3> QED
            BY <3>1, <3>2, <3>3 DEF Served
    <2> QED
        BY <1>1, <1>5, <2>1 DEF ServedOK, Served, Certain, Hoped, Unrepeated, Lacking
<1> QED
    BY <1>9, <1>10, <1>11 DEF ServiceOK

\* Steps of a disconnect, of the readiness interval, and no step at all
LEMMA SameCallsServes ==
    ASSUME ServiceOK, UNCHANGED <<injection, calls, watchReady>>, Plugin' = Plugin,
           Attending' => UNCHANGED <<leaving, worker, unstarted, failures>>,
           \A p \in Plugin : worker'[p].isWorkerRunning => worker[p].isWorkerRunning,
           LooksOK'
    PROVE  ServiceOK'
<1>1. UNCHANGED <<order, heard, injected, broken>> /\ Watchers' = Watchers
    BY DEF injection, Watchers, Plugin
<1>2. BegunOK' /\ ChainOK'
    BY <1>1 DEF ServiceOK, BegunOK, ChainOK
<1>3. FlagsOK'
    BY <1>1 DEF ServiceOK, FlagsOK, Lacking
<1>4. Attending' => Attending
    BY <1>1 DEF Attending
<1>5. PassesOK'
    BY <1>1, <1>4 DEF ServiceOK, PassesOK, Watched
<1>6. ServedOK'
    BY <1>1, <1>4 DEF ServiceOK, ServedOK, Served, Certain, Hoped, Unrepeated, Lacking
<1> QED
    BY <1>2, <1>3, <1>5, <1>6 DEF ServiceOK

LEMMA OtherServes ==
    ASSUME IInv, ServiceOK,
           \/ PollReadiness \/ Disconnect \/ TransportDisconnected \/ WorkerStopped
           \/ StateSaved \/ DisconnectFails \/ UNCHANGED vars
    PROVE  ServiceOK'
<1>1. Typing /\ worker \in [Plugin -> WorkerRecord]
    BY DEF IInv, Typing
<1>2. UNCHANGED <<injection, calls, watchReady>>
    BY DEF PollReadiness, Disconnect, TransportDisconnected, WorkerStopped, StateSaved,
           DisconnectFails, vars, readiness
<1>3. UNCHANGED <<order, heard, injected>> /\ Plugin' = Plugin
    BY <1>2 DEF injection, Plugin
<1>4. CASE PollReadiness \/ UNCHANGED vars
    <2>1. UNCHANGED <<leaving, worker, unstarted, failures>>
        BY <1>4 DEF PollReadiness, vars, departure, bounds, history
    <2>2. LooksOK'
        BY <1>3, <1>4, <2>1 DEF PollReadiness, vars, readiness, ServiceOK, LooksOK
    <2> QED
        BY <1>2, <1>3, <2>1, <2>2, SameCallsServes
<1>5. CASE Disconnect \/ StateSaved \/ DisconnectFails
    <2>1. UNCHANGED worker /\ ~Attending'
        BY <1>5 DEF Disconnect, StateSaved, DisconnectFails, Attending
    <2>2. LooksOK'
        BY <1>3, <1>5 DEF Disconnect, StateSaved, DisconnectFails, readiness, ServiceOK, LooksOK
    <2> QED
        BY <1>2, <1>3, <2>1, <2>2, SameCallsServes
<1>6. CASE TransportDisconnected \/ WorkerStopped
    <2>1. PICK workers \in SUBSET Registered : StopNext(workers)
        <3>1. toStop \ {Min(toStop)} \in SUBSET Registered
            BY DEF IInv, Typing
        <3> QED
            BY <1>6, <3>1 DEF TransportDisconnected, WorkerStopped
    <2>2. leaving \in {"transport", "stopping"} /\ UNCHANGED readiness
        BY <1>6 DEF TransportDisconnected, WorkerStopped
    <2>3. /\ leaving' = IF workers = {} THEN "saving" ELSE "stopping"
          /\ worker' = IF workers = {} THEN worker
                       ELSE [worker EXCEPT ![Min(workers)] = Stopped(@)]
        BY <2>1 DEF StopNext
    <2>4. \A p \in Plugin : worker'[p].isWorkerRunning => worker[p].isWorkerRunning
        <3>1. ASSUME NEW p \in Plugin, workers # {}
              PROVE  worker'[p] = Stopped(worker[p]) \/ worker'[p] = worker[p]
            BY <1>1, <2>3, <3>1
        <3>2. \A p \in Plugin : ~Stopped(worker[p]).isWorkerRunning
            BY <1>1, StoppedWorker
        <3> QED
            BY <2>3, <3>1, <3>2
    <2>5. ~Attending'
        BY <2>3 DEF Attending
    <2>6. LooksOK'
        BY <1>3, <2>2 DEF readiness, ServiceOK, LooksOK
    <2> QED
        BY <1>2, <1>3, <2>4, <2>5, <2>6, SameCallsServes
<1> QED
    BY <1>4, <1>5, <1>6

\* The invariant with what is waited for
WaitInv == IInv /\ ServiceOK

LEMMA NextServes == WaitInv /\ [Next]_vars => WaitInv'
<1> SUFFICES ASSUME IInv, ServiceOK, [Next]_vars PROVE IInv' /\ ServiceOK'
    BY DEF WaitInv
<1>1. IInv'
    BY NextKeeps
<1>2. CASE Initialize
    BY <1>1, <1>2, InitializeServes
<1>3. ASSUME NEW c \in Waiting, Settle(c) PROVE ServiceOK'
    BY <1>3, SettleServes
<1>4. ASSUME NEW p \in Plugin, Tick(p) PROVE ServiceOK'
    BY <1>4, TickServes
<1>5. CASE Connect
    BY <1>1, <1>5, ConnectServes
<1>6. CASE \/ PollReadiness \/ Disconnect \/ TransportDisconnected \/ WorkerStopped
           \/ StateSaved \/ DisconnectFails \/ UNCHANGED vars
    BY <1>1, <1>6, OtherServes
<1> QED
    BY <1>1, <1>2, <1>3, <1>4, <1>5, <1>6 DEF Next

-----------------------------------------------------------------------------
(* The theorems *)

THEOREM LifecycleInvariant == Spec => []IInv
<1>1. Init => IInv
    BY InitKeeps
<1> QED
    BY <1>1, NextKeeps, PTL DEF Spec

\* The state has its type: whatever is stopped, connected or fails in
\* whichever order, a worker loses one interval at most for each connect.
THEOREM LifecycleTypeCorrect == Spec => []TypeOK
<1>1. IInv => TypeOK
    <2> SUFFICES ASSUME IInv PROVE TypeOK
        OBVIOUS
    <2>1. Typing /\ ReadinessOK /\ CallsOK /\ StraysOK
        BY DEF IInv
    <2>2. IsFiniteSet(announced)
        <3>1. Plugin = 1..Len(order) /\ Len(order) \in Nat
            BY <2>1, OrderFacts DEF Typing
        <3>2. IsFiniteSet(Plugin) /\ announced \in SUBSET Plugin
            BY <2>1, <3>1, FS_Interval DEF ReadinessOK, Watchers
        <3> QED
            BY <3>2, FS_Subset
    <2>3. readyPlugins \in Nat
        BY <2>1, <2>2, FS_CardinalityType DEF ReadinessOK
    <2>4. worker \in [Plugin -> WorkerState]
        <3>1. ASSUME NEW p \in Plugin PROVE worker[p] \in WorkerState
            <4>1. worker[p] \in WorkerRecord /\ IsABag(calls) /\ connects \in 0..MaxConnects
                BY <2>1 DEF Typing
            <4>2. Copies(Restop(p), calls) \in Nat
                BY <4>1, CopiesType
            <4>3. worker[p].stray + Copies(Restop(p), calls) <= connects
                BY <2>1 DEF StraysOK
            <4>4. worker[p].stray \in 0..MaxConnects
                <5>1. worker[p].stray \in Nat
                    BY <4>1 DEF WorkerRecord
                <5> QED
                    BY <4>1, <4>2, <4>3, <5>1, LifecycleAssumption DEF LifecycleAssumption
            <4> QED
                BY <4>1, <4>4 DEF WorkerRecord, WorkerState
        <3>2. worker = [p \in Plugin |-> worker[p]]
            BY <2>1 DEF Typing
        <3> QED
            BY <3>1, <3>2
    <2>5. \A c \in Waiting : c.plugin \in Plugin
        BY <2>1, CallRecordOf DEF CallOK
    <2> QED
        BY <2>1, <2>3, <2>4, <2>5 DEF TypeOK, Typing, ReadinessOK
<1> QED
    BY <1>1, LifecycleInvariant, PTL

\* A plugin begins to be injected when those it is to come after have been,
\* and none it is to come before: sortPlugins arranges every choice of
\* plugins that it does not throw for, and injectPlugins waits for each
\* injection before the next.
THEOREM PluginsInjectedInOrder == Spec => []InjectionOrderKept
<1>1. IInv => InjectionOrderKept
    <2> SUFFICES ASSUME IInv, NEW p \in Plugin, p <= injected
                 PROVE  /\ \A name \in Range(order[p].after) :
                                \E q \in Plugin : order[q].name = name /\ q < p
                                    /\ \A c \in Waiting : c.plugin = q => c.by # "inject"
                        /\ order[p].before # <<>> =>
                                \A q \in Plugin : order[q].name = order[p].before[1] => q > p
        BY DEF InjectionOrderKept
    <2>1. InPlace(order, p)
        BY DEF IInv, Typing, Arranged, Plugin
    <2>2. Plugin \subseteq Nat /\ injected \in Nat
        BY OrderFacts DEF IInv, Typing
    <2>3. ASSUME NEW name \in Range(order[p].after)
          PROVE  \E q \in Plugin : order[q].name = name /\ q < p
                    /\ \A c \in Waiting : c.plugin = q => c.by # "inject"
        <3>1. PICK i \in DOMAIN order[p].after : order[p].after[i] = name
            BY DEF Range
        <3>2. PICK q \in Plugin : q < p /\ order[q].name = name
            BY <2>1, <3>1 DEF InPlace, Plugin
        <3>3. q < injected /\ q # injected
            BY <2>2, <3>2
        <3>4. \A c \in Waiting : c.by = "inject" => c.plugin = injected
            BY CallRecordOf DEF IInv, CallOK
        <3> QED
            BY <3>2, <3>3, <3>4
    <2> QED
        BY <2>1, <2>3 DEF InPlace, Plugin
<1> QED
    BY <1>1, LifecycleInvariant, PTL

\* A worker is not executed twice at once, whoever calls execWorker, unless a
\* stop came while it was executed or a start while a failed execution was
\* being stopped.
THEOREM WorkersExecutedOnce == Spec => []OneExecution
<1>1. IInv => OneExecution
    <2> SUFFICES ASSUME IInv, NEW p \in Plugin \ interrupted,
                        NEW c \in {e \in Waiting : e.plugin = p /\ e.at = "execute"},
                        NEW d \in {e \in Waiting : e.plugin = p /\ e.at = "execute"}
                 PROVE  c = d /\ calls[c] = 1
        BY DEF OneExecution
    <2>1. /\ c \in Executions(p) /\ Copies(c, calls) > 0
          /\ d \in Executions(p) /\ Copies(d, calls) > 0
        BY CallRecordOf DEF IInv, CallOK, Executions
    <2>2. Solo(Executions(p), calls)
        BY DEF IInv, ExecutionOK, Exclusive
    <2>3. Copies(c, calls) = calls[c]
        BY DEF Copies, Waiting, BagToSet
    <2> QED
        BY <2>1, <2>2, <2>3 DEF Solo
<1> QED
    BY <1>1, LifecycleInvariant, PTL

\* A disconnect that finds all injections and starts ended leaves no interval
\* and no start behind.
THEOREM WorkersStayStopped == Spec => []DisconnectIsFinal
<1>1. IInv => DisconnectIsFinal
    <2> SUFFICES ASSUME IInv, leaving = "left", ~restless
                 PROVE  /\ \A p \in Plugin : ~worker[p].timer /\ worker[p].stray = 0
                        /\ \A c \in Waiting : c.at \notin {"restop", "onStart", "onInjected"}
        BY DEF DisconnectIsFinal
    <2>1. /\ \A c : Copies(c, calls) > 0 => c.by = "tick"
          /\ \A p \in Plugin : worker[p].stray = 0
          /\ \A p \in Plugin : ~worker[p].timer
        BY DEF IInv, QuietOK, Quiet
    <2>2. \A c \in Waiting : c.at \in TickPlaces
        BY <2>1, CallRecordOf DEF IInv, CallOK
    <2> QED
        BY <2>1, <2>2 DEF TickPlaces
<1> QED
    BY <1>1, LifecycleInvariant, PTL

\* The account announces that it is ready only when every plugin that it
\* watches has been executed: the counter of the readiness interval counts
\* each watcher once.
THEOREM ReadyMeansExecuted == Spec => ReadyWhenWatchedRan
<1>1. IInv /\ [Next]_vars => [ready # ready' => Watchers \subseteq watchReady]_vars
    <2> SUFFICES ASSUME IInv, Next, ready # ready' PROVE Watchers \subseteq watchReady
        BY DEF vars
    <2>1. PollReadiness
        BY DEF Next, Initialize, Settle, Tick, Connect, Disconnect, TransportDisconnected,
               WorkerStopped, StateSaved, DisconnectFails, readiness
    <2>2. readyPlugins' = Cardinality(watchReady) /\ IsFiniteSet(Watchers)
        BY <2>1, Polled DEF IInv
    <2>3. ready'
        BY <2>1 DEF PollReadiness, IInv, ReadinessOK, Typing
    <2>4. Cardinality(watchReady) = Cardinality(Watchers)
        BY <2>1, <2>2, <2>3 DEF PollReadiness
    <2>5. watchReady \in SUBSET Watchers
        BY DEF IInv, ReadinessOK
    <2> QED
        BY <2>2, <2>4, <2>5, FS_Subset
<1> QED
    BY <1>1, LifecycleInvariant, PTL DEF Spec, ReadyWhenWatchedRan

\* The account does not wait for what cannot come.  Until it is ready it looks
\* for every watched plugin, and each of them is being started or executed, or
\* has an interval that will execute it: the flag that makes execWorker return
\* at once is set by a call that announces the execution, and a pass that is
\* counted has been announced.  One failure does not undo that, except for a
\* plugin without interval that did not start.  A worker without an execute is
\* excepted: its flag is set, its interval goes on, and nothing is announced.
THEOREM NobodyIsForgotten == Spec => []NoWatcherForgotten
<1>1. Init => WaitInv
    BY InitKeeps, InitServes DEF WaitInv
<1>2. WaitInv => NoWatcherForgotten
    <2> SUFFICES ASSUME IInv, ServiceOK PROVE NoWatcherForgotten
        BY DEF WaitInv
    <2>1. \A c : Copies(c, calls) > 0 => c \in Waiting
        BY DEF Copies, Waiting, BagToSet
    <2>2. injected \in Plugin /\ ~broken => \E c \in Waiting : c.by = "inject"
        BY <2>1 DEF ServiceOK, ChainOK
    <2>3. injected > 0 /\ leaving # "left" => ready \/ polling
        BY DEF ServiceOK, LooksOK
    <2>4. ASSUME heard, leaving = "no", failures <= 1, NEW p \in Watchers \ watchReady
          PROVE  Serving(p) \/ (p \in unstarted /\ Unrepeated(p)) \/ Lacking(p)
        <3> SUFFICES ASSUME ~Lacking(p) PROVE Serving(p) \/ (p \in unstarted /\ Unrepeated(p))
            OBVIOUS
        <3>1. Served(p, calls, worker[p], unstarted, failures)
            BY <2>4 DEF ServiceOK, ServedOK, Attending
        <3>2. failures = 0 \/ failures = 1
            BY <2>4, LifecycleAssumption DEF IInv, Typing, LifecycleAssumption
        <3>3. Hoped(p, calls, worker[p], unstarted)
            BY <3>1, <3>2 DEF Served, Certain, Hoped, Pending, ServingPlaces
        <3> QED
            BY <2>1, <3>3 DEF Hoped, Pending, Serving, Ticks, ServingPlaces
    <2> QED
        BY <2>2, <2>3, <2>4 DEF NoWatcherForgotten
<1> QED
    BY <1>1, <1>2, NextServes, PTL DEF Spec
=============================================================================
