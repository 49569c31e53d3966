--------------------------- MODULE ConsoleProofs ---------------------------
(* What is proved of the console's parts for every value of their constants.    *)
(* A part has an invariant of its own, which its own steps keep; the others     *)
(* leave its variables alone (ConsoleNext), so each theorem of Console combines *)
(* the invariants of the parts that it is about.                                *)
EXTENDS Console, LaidOutProofs

-----------------------------------------------------------------------------
(* Numbers and sequences.                                                      *)

\* An interval has one enumeration in order.
LEMMA OneEnumeration ==
  ASSUME NEW k \in Int, NEW m \in Nat, NEW q \in [1..m -> k..(k + m - 1)],
         \A i \in 1..m, j \in 1..m : i < j => q[i] < q[j]
  PROVE  q = [j \in 1..m |-> k + j - 1]
<1>1. \A i \in 1..m : q[i] \in Int /\ k <= q[i] /\ q[i] <= k + m - 1
  OBVIOUS
<1> DEFINE U == {d \in Nat : d + 1 <= m => q[d + 1] >= k + d}
<1>2. 0 \in U
  BY <1>1
<1>3. ASSUME NEW d \in Nat, d \in U PROVE d + 1 \in U
  <2> SUFFICES ASSUME (d + 1) + 1 <= m
               PROVE  q[(d + 1) + 1] >= k + (d + 1)
    OBVIOUS
  <2>1. d + 1 \in 1..m /\ (d + 1) + 1 \in 1..m /\ d + 1 < (d + 1) + 1
    OBVIOUS
  <2>2. q[d + 1] < q[(d + 1) + 1]
    BY <2>1
  <2>3. q[d + 1] >= k + d
    BY <1>3, <2>1
  <2>4. q[d + 1] \in Int /\ q[(d + 1) + 1] \in Int
    BY <1>1, <2>1
  <2> QED BY <2>2, <2>3, <2>4
<1>4. Nat \subseteq U
  <2> HIDE DEF U
  <2> QED BY <1>2, <1>3, NatInduct
<1> DEFINE V == {d \in Nat : d < m => q[m - d] <= k + (m - d) - 1}
<1>5. 0 \in V
  BY <1>1
<1>6. ASSUME NEW d \in Nat, d \in V PROVE d + 1 \in V
  <2> SUFFICES ASSUME d + 1 < m
               PROVE  q[m - (d + 1)] <= k + (m - (d + 1)) - 1
    OBVIOUS
  <2>1. m - (d + 1) \in 1..m /\ m - d \in 1..m /\ m - (d + 1) < m - d /\ d < m
    OBVIOUS
  <2>2. q[m - (d + 1)] < q[m - d]
    BY <2>1
  <2>3. q[m - d] <= k + (m - d) - 1
    BY <1>6, <2>1
  <2>4. q[m - d] \in Int /\ q[m - (d + 1)] \in Int
    BY <1>1, <2>1
  <2> QED BY <2>2, <2>3, <2>4
<1>7. Nat \subseteq V
  <2> HIDE DEF V
  <2> QED BY <1>5, <1>6, NatInduct
<1>8. ASSUME NEW j \in 1..m PROVE q[j] = k + j - 1
  <2>1. j - 1 \in Nat /\ (j - 1) + 1 = j /\ m - j \in Nat /\ m - (m - j) = j /\ m - j < m
    OBVIOUS
  <2>2. q[j] >= k + (j - 1)
    <3>1. j - 1 \in U
      BY <1>4, <2>1
    <3>2. (j - 1) + 1 <= m => q[(j - 1) + 1] >= k + (j - 1)
      BY <3>1
    <3> QED BY <2>1, <3>2
  <2>3. q[j] <= k + j - 1
    BY <1>7, <2>1
  <2>4. q[j] \in Int
    BY <1>1
  <2> QED BY <2>2, <2>3, <2>4
<1> QED BY <1>8

LEMMA SameSeq ==
  ASSUME NEW S, NEW s \in Seq(S), NEW t \in Seq(S), Len(s) = Len(t), \A i \in 1..Len(s) : s[i] = t[i]
  PROVE  s = t
<1>1. s \in [1..Len(s) -> S] /\ t \in [1..Len(s) -> S]
  BY LenProperties
<1>2. s = [i \in 1..Len(s) |-> s[i]] /\ t = [i \in 1..Len(s) |-> t[i]]
  BY <1>1
<1> QED BY <1>2

\* What is kept of a sequence from an index on is its end.
EndFrom(s, k, n) == [j \in 1..(n - k + 1) |-> s[k + j - 1]]

LEMMA KeptTail ==
  ASSUME NEW s, NEW n \in Nat, NEW k \in 1..(n + 1)
  PROVE  Kept(s, k..n) = EndFrom(s, k, n)
<1> DEFINE m == n - k + 1  S == k..n  c == Cardinality(S)
           A == {q \in [1..c -> S] : \A i \in DOMAIN q, j \in DOMAIN q : i < j => q[i] < q[j]}
           order == CHOOSE q \in [1..c -> S] : \A i \in DOMAIN q, j \in DOMAIN q : i < j => q[i] < q[j]
           id == [j \in 1..m |-> k + j - 1]
<1>1. m \in Nat /\ k + m - 1 = n /\ k \in Int
  OBVIOUS
<1>2. Kept(s, S) = [i \in 1..c |-> s[order[i]]]
  BY DEF Kept
<1>3. S = k..n
  OBVIOUS
<1> HIDE DEF S, order
<1>4. c = m
  <2>1. Cardinality(k..n) = IF k > n THEN 0 ELSE n - k + 1
    BY <1>1, FS_Interval
  <2> QED BY <1>1, <1>3, <2>1
<1> HIDE DEF m, c
<1>5. id \in A
  <2>1. \A j \in 1..m : k + j - 1 \in k..n
    BY <1>1
  <2>2. id \in [1..c -> S]
    BY <1>3, <1>4, <2>1
  <2>3. \A i \in 1..m, j \in 1..m : i < j => id[i] < id[j]
    BY <1>1
  <2> QED BY <1>4, <2>2, <2>3
<1>6. ASSUME NEW q \in A PROVE q = id
  <2>1. q \in [1..m -> k..(k + m - 1)] /\ \A i \in 1..m, j \in 1..m : i < j => q[i] < q[j]
    BY <1>1, <1>3, <1>4
  <2> QED BY <1>1, <2>1, OneEnumeration
<1>7. order \in A
  <2> HIDE DEF id
  <2> QED BY <1>5 DEF order
<1>8. order = id
  <2> HIDE DEF A, id
  <2> QED BY <1>6, <1>7
<1>9. [i \in 1..c |-> s[order[i]]] = [j \in 1..m |-> s[k + j - 1]]
  <2>1. \A j \in 1..m : order[j] = k + j - 1
    BY <1>8
  <2> QED BY <1>4, <2>1
<1> QED BY <1>2, <1>3, <1>9 DEF m, EndFrom

LEMMA KeptNone ==
  ASSUME NEW s
  PROVE  Kept(s, {}) = <<>>
<1>1. Kept(s, 1..0) = EndFrom(s, 1, 0)
  <2>1. 0 \in Nat /\ 1 \in 1..(0 + 1)
    OBVIOUS
  <2> QED BY <2>1, KeptTail
<1>2. 1..0 = {} /\ 1..(0 - 1 + 1) = {}
  OBVIOUS
<1>3. EndFrom(s, 1, 0) = <<>>
  BY <1>2 DEF EndFrom
<1> QED BY <1>1, <1>2, <1>3

-----------------------------------------------------------------------------
(* The session, and the shell around the pages.                                *)

(* The redirections come to rest because both pages take the same two entries  *)
(* for being signed in: one that follows from a mount sends the user where the *)
(* other page keeps him, until one of the entries changes, which ends the row.  *)
SessionInv ==
    /\ StoredKeyAccepted
    /\ redirects \in {0, 1}
    /\ redirects = 1 => replacing = Effect(place) /\ replacing # "nowhere"
    /\ place = "away" => redirects = 0

LEMMA SessionInitInv == SessionInit => SessionInv
  BY SMT DEF SessionInit, SessionInv, StoredKeyAccepted, Effect, PageAuthed, ShellAuthed

LEMMA SessionStep == SessionInv /\ [SessionNext]_sessionVars => SessionInv'
<1> SUFFICES ASSUME SessionInv, [SessionNext]_sessionVars
             PROVE  SessionInv'
  OBVIOUS
<1> USE DEF SessionInv, StoredKeyAccepted, entries, signIn
<1>1. CASE Navigate
  BY <1>1 DEF Navigate, Arrive, Effect, PageAuthed, ShellAuthed
<1>2. ASSUME NEW p \in {"login", "app"}, Browse(p) PROVE SessionInv'
  BY <1>2 DEF Browse, Arrive, Effect, PageAuthed, ShellAuthed
<1>3. CASE LeaveForOAuth
  BY <1>3 DEF LeaveForOAuth
<1>4. CASE Return
  BY <1>4 DEF Return, Arrive, Effect, PageAuthed, ShellAuthed
<1>5. ASSUME NEW k \in Keys \cup {NoKey}, TypeKey(k) PROVE SessionInv'
  BY <1>5 DEF TypeKey, Effect
<1>6. CASE SubmitKey \/ SubmitBootstrap \/ HandleLogout
  BY <1>6 DEF SubmitKey, SubmitBootstrap, HandleLogout, Effect
<1>7. ASSUME NEW v \in verifying, Verified(v) \/ VerifyFails(v) PROVE SessionInv'
  BY <1>7 DEF Verified, VerifyFails, Effect
<1>8. ASSUME NEW m \in minting, Bootstrapped(m) \/ BootstrapFails(m) PROVE SessionInv'
  BY <1>8 DEF Bootstrapped, BootstrapFails, Effect
<1>9. CASE ContinueToDashboard
  BY <1>9 DEF ContinueToDashboard
<1>12. CASE CallbackDone
  BY <1>12 DEF CallbackDone
<1>13. CASE CallbackFails
  BY <1>13 DEF CallbackFails
<1>11. CASE LoggedOut
  BY <1>11 DEF LoggedOut
<1>10. CASE UNCHANGED sessionVars
  BY <1>10 DEF sessionVars, Effect
<1> QED
  BY <1>1, <1>2, <1>3, <1>4, <1>5, <1>6, <1>7, <1>8, <1>9, <1>10, <1>11, <1>12, <1>13 DEF
     SessionNext

ShellInv ==
    /\ pathname \in Paths \cup {NoShell} /\ effects \in BOOLEAN
    /\ KeyHeardOnce /\ SidebarKept
    /\ pathname = NoShell => ~effects /\ ~palette
    /\ palette => effects
    /\ chosen = storedCollapse

LEMMA ShellPaths == NoShell \notin Paths /\ NavItems \subseteq Paths
  BY ShellAssumption DEF NoShell

LEMMA ShellInitInv == ShellInit => ShellInv
  BY ShellPaths DEF ShellInit, ShellInv, KeyHeardOnce, SidebarKept, Listening

LEMMA ShellStep == ShellInv /\ [ShellNext]_shellVars => ShellInv'
<1> SUFFICES ASSUME ShellInv, [ShellNext]_shellVars
             PROVE  ShellInv'
  OBVIOUS
<1> USE ShellPaths DEF ShellInv, KeyHeardOnce, SidebarKept, Listening, chrome, bar
<1>1. CASE RunEffects
  BY <1>1 DEF RunEffects, Subscribe
<1>2. CASE PressKey \/ ClickSearch \/ ClosePalette \/ ClickMenu
  BY <1>2 DEF PressKey, ClickSearch, ClosePalette, ClickMenu
<1>3. CASE Toggle
  BY <1>3 DEF Toggle
<1>4. CASE LeaveShell
  <2>1. hears' = 0
    BY <1>4 DEF LeaveShell
  <2>2. ~effects' /\ ~palette' /\ pathname' = NoShell /\ effects' \in BOOLEAN
    BY <1>4 DEF LeaveShell
  <2>3. chosen' = storedCollapse'
    BY <1>4 DEF LeaveShell
  <2> QED BY <2>1, <2>2, <2>3
<1>5. CASE EnterShell
  BY <1>5 DEF EnterShell
<1>6. ASSUME NEW item \in NavItems, SelectEntry(item) PROVE ShellInv'
  BY <1>6 DEF SelectEntry
<1>7. ASSUME NEW p \in Paths, GoTo(p) PROVE ShellInv'
  BY <1>7 DEF GoTo
<1>8. CASE UNCHANGED shellVars
  BY <1>8 DEF shellVars
<1> QED
  BY <1>1, <1>2, <1>3, <1>4, <1>5, <1>6, <1>7, <1>8 DEF ShellNext

\* The first element of a sequence, as a sequence.
LEMMA FirstAsSequence ==
  ASSUME NEW S, NEW s \in Seq(S), Len(s) >= 1
  PROVE  SubSeq(s, 1, 1) = <<s[1]>>
<1>1. SubSeq(s, 1, 1) = SubSeq(s, 1, 0) \o <<s[1]>>
  BY SubSeqRecursiveSecond
<1>2. SubSeq(s, 1, 0) = <<>>
  BY SubSeqEmpty
<1>3. <<s[1]>> \in Seq(S)
  OBVIOUS
<1> QED BY <1>1, <1>2, <1>3, ConcatEmptySeq

(* The entry of a page is that of its first segment, and no other.             *)
LEMMA OneEntryOfPath ==
  ASSUME NEW p \in Paths
  PROVE  {item \in NavItems : IsPrefix(item, p)} = {<<p[1]>>}
<1>1. p \in Seq(STRING) /\ Len(p) >= 1 /\ <<p[1]>> \in NavItems
  BY ShellAssumption
<1>2. ASSUME NEW item \in NavItems PROVE IsPrefix(item, p) <=> item = <<p[1]>>
  <2>1. item \in Seq(STRING) /\ Len(item) = 1
    BY ShellAssumption
  <2>2. item = <<item[1]>>
    BY <2>1
  <2>4. SubSeq(item, 1, 1) = <<item[1]>>
    BY <2>1, FirstAsSequence
  <2>5. SubSeq(p, 1, 1) = <<p[1]>>
    BY <1>1, FirstAsSequence
  <2>3. IsPrefix(item, p) <=> SubSeq(item, 1, 1) = SubSeq(p, 1, 1)
    BY <1>1, <2>1 DEF IsPrefix
  <2> QED BY <2>2, <2>3, <2>4, <2>5
<1> QED BY <1>1, <1>2

LEMMA ShellPointsToPage == ShellInv => OneEntryActive
<1> SUFFICES ASSUME pathname \in Paths
             PROVE  Cardinality({item \in NavItems : IsPrefix(item, pathname)}) = 1
  BY ShellPaths DEF ShellInv, OneEntryActive, Active
<1> QED BY OneEntryOfPath, FS_Singleton

\* Only a key that the gateway has accepted is kept, the login page and the shell do
\* not send the user to and fro, and the shell listens once, keeps its width and marks
\* one entry, for every set of keys and of pages (app/page.tsx, (app)/layout.tsx, Header.tsx, Sidebar.tsx).
THEOREM ConsoleSessionSettles == ConsoleSpec => []SessionSettles
<1>1. ConsoleInit => SessionInv /\ ShellInv
  BY SessionInitInv, ShellInitInv DEF ConsoleInit
<1>2. SessionInv /\ [ConsoleNext]_consoleVars => SessionInv'
  BY SessionStep DEF ConsoleNext, consoleVars
<1>3. ShellInv /\ [ConsoleNext]_consoleVars => ShellInv'
  BY ShellStep DEF ConsoleNext, consoleVars
<1>4. SessionInv /\ ShellInv => SessionSettles
  BY ShellPointsToPage DEF SessionSettles, SessionInv, ShellInv, RedirectsSettle
<1> QED BY <1>1, <1>2, <1>3, <1>4, PTL DEF ConsoleSpec

-----------------------------------------------------------------------------
(* The wizard of a provider.                                                   *)

\* What the wizard shows, in its types, and what is under way in its own.
FieldsTyped ==
    /\ open \in BOOLEAN /\ step \in 1..5
    /\ name \in Names \cup {NoName} /\ selection \in Kinds \cup {"none"}
    /\ apiKey \in BOOLEAN /\ baseUrl \in BOOLEAN
    /\ providerId \in Names \cup {NoName}
    /\ createError \in BOOLEAN /\ discoverError \in BOOLEAN
    /\ session \in 0..MaxSessions /\ late \in BOOLEAN

RowsTyped == rows \in [of : Names \cup {NoName}, models : SUBSET Models, picked : SUBSET Models]
PicksAmongRows == rows.picked \subseteq rows.models

FlightsTyped ==
    /\ creating \subseteq [name : Names, plugin : BOOLEAN, session : 0..MaxSessions]
    /\ discoveries \subseteq [of : Names, session : 0..MaxSessions, try : 0..1]
    /\ discovering \in BOOLEAN
    /\ confirming \subseteq [session : 0..MaxSessions]
    /\ registered \subseteq [to : Names, rowsOf : Names \cup {NoName}, shown : Names \cup {NoName}]

\* What was asked for was asked for in this session or in one before, and in one
\* before when the wizard is closed.
FlightsOfSessions ==
    /\ open => session < MaxSessions
    /\ \A c, e \in creating : c = e
    /\ \A c \in creating : c.session <= session /\ (late \/ (c.session = session => open))
    /\ \A d \in discoveries : d.session <= session /\ (late \/ (d.session = session => open))

\* As long as every answer has come to the session that asked for it, a session
\* knows one provider: none is created beside it, and what it discovers and what
\* it has discovered is of that one.
CreatesFirst == late \/ \A c \in creating : c.session = session => providerId = NoName
DiscoversOne == late \/ \A d \in discoveries : d.session = session => d.of = providerId /\ providerId # NoName
RowsOfOne == late \/ (rows.models # {} => rows.of = providerId /\ providerId # NoName)
CreatedAtStep == late \/ (providerId # NoName => step \in {4, 5})

WizardInv ==
    /\ FieldsTyped /\ RowsTyped /\ PicksAmongRows /\ FlightsTyped
    /\ FlightsOfSessions
    /\ CreatesFirst /\ DiscoversOne /\ RowsOfOne /\ CreatedAtStep
    /\ RowsOfProvider

LEMMA WizardTyped == WizardInv => WizardTypeOK
  BY DEF WizardInv, WizardTypeOK, FieldsTyped, RowsTyped, PicksAmongRows, FlightsTyped

LEMMA WizardInitInv == WizardInit => WizardInv
<1> SUFFICES ASSUME WizardInit
             PROVE  WizardInv
  OBVIOUS
<1> USE WizardAssumption DEF WizardInit, Blank
<1>1. rows = [of |-> NoName, models |-> {}, picked |-> {}]
  BY DEF NoRows
<1>2. FieldsTyped
  <2>1. session \in 0..MaxSessions /\ step \in 1..5
    OBVIOUS
  <2> QED BY <2>1 DEF FieldsTyped
<1>3. RowsTyped
  BY <1>1 DEF RowsTyped
<1>4. PicksAmongRows /\ RowsOfOne
  BY <1>1 DEF PicksAmongRows, RowsOfOne
<1>5. FlightsTyped
  BY DEF FlightsTyped
<1>6. FlightsOfSessions
  BY DEF FlightsOfSessions
<1>7. CreatesFirst /\ DiscoversOne /\ CreatedAtStep /\ RowsOfProvider
  BY DEF CreatesFirst, DiscoversOne, CreatedAtStep, RowsOfProvider
<1> QED BY <1>2, <1>3, <1>4, <1>5, <1>6, <1>7 DEF WizardInv

(* However the wizard is closed, by the user or by an answer.                   *)
LEMMA WizardCloses ==
  ASSUME WizardInv, Reset, open' = FALSE,
         (session' = session + 1 /\ open) \/ (session' = session /\ ~open),
         creating' \subseteq creating, discoveries' \subseteq discoveries, discovering' \in BOOLEAN,
         confirming' \subseteq confirming, registered' = registered,
         late' \in BOOLEAN, late => late'
  PROVE  WizardInv'
<1> USE WizardAssumption DEF WizardInv
<1>1. /\ step' = 1 /\ name' = NoName /\ selection' = "none"
      /\ apiKey' = FALSE /\ baseUrl' = FALSE /\ providerId' = NoName
      /\ rows' = [of |-> NoName, models |-> {}, picked |-> {}]
      /\ createError' = FALSE /\ discoverError' = FALSE
  BY DEF Reset, NoRows
<1>11. session \in 0..MaxSessions /\ session' \in 0..MaxSessions /\ session <= session'
      /\ (session' = session => ~open)
  BY DEF FieldsTyped, FlightsOfSessions
<1>2. FieldsTyped'
  <2>1. step' \in 1..5
    BY <1>1
  <2> QED BY <1>1, <1>11, <2>1 DEF FieldsTyped
<1>3. RowsTyped'
  BY <1>1 DEF RowsTyped
<1>4. PicksAmongRows' /\ RowsOfOne'
  BY <1>1 DEF PicksAmongRows, RowsOfOne
<1>5. FlightsTyped'
  BY DEF FlightsTyped
<1>6. ASSUME NEW c \in creating'
      PROVE  c.session \in 0..MaxSessions /\ c.session <= session' /\ (late \/ c.session # session')
  <2>1. c \in creating /\ c.session \in 0..MaxSessions
    BY DEF FlightsTyped
  <2>2. c.session <= session /\ (late \/ (c.session = session => open))
    BY <2>1 DEF FlightsOfSessions
  <2> QED BY <1>11, <2>1, <2>2
<1>9. ASSUME NEW d \in discoveries'
      PROVE  d.session \in 0..MaxSessions /\ d.session <= session' /\ (late \/ d.session # session')
  <2>1. d \in discoveries /\ d.session \in 0..MaxSessions
    BY DEF FlightsTyped
  <2>2. d.session <= session /\ (late \/ (d.session = session => open))
    BY <2>1 DEF FlightsOfSessions
  <2> QED BY <1>11, <2>1, <2>2
<1>10. FlightsOfSessions'
  BY <1>6, <1>9 DEF FlightsOfSessions
<1>7. CreatesFirst' /\ DiscoversOne' /\ CreatedAtStep'
  BY <1>1, <1>6, <1>9 DEF CreatesFirst, DiscoversOne, CreatedAtStep
<1>8. RowsOfProvider'
  BY DEF RowsOfProvider
<1> QED BY <1>2, <1>3, <1>4, <1>5, <1>7, <1>8, <1>10

LEMMA WizardStep == WizardInv /\ [WizardNext]_wizardVars => WizardInv'
<1> SUFFICES ASSUME WizardInv, [WizardNext]_wizardVars
             PROVE  WizardInv'
  OBVIOUS
<1> USE WizardAssumption DEF WizardInv, fields, flight, history
<1>1. CASE OpenWizard
  BY <1>1 DEF OpenWizard, FieldsTyped, RowsTyped, PicksAmongRows, FlightsTyped,
     FlightsOfSessions,
     CreatesFirst, DiscoversOne, RowsOfOne, CreatedAtStep, RowsOfProvider
<1>2. CASE CloseWizard
  <2>1. Reset /\ open' = FALSE /\ ((session' = session + 1 /\ open) \/ (session' = session /\ ~open))
    BY <1>2 DEF CloseWizard, HandleClose
  <2>2. /\ creating' \subseteq creating /\ discoveries' \subseteq discoveries /\ discovering' \in BOOLEAN
        /\ confirming' \subseteq confirming /\ registered' = registered
        /\ late' \in BOOLEAN /\ (late => late')
    BY <1>2 DEF CloseWizard, HandleClose, FieldsTyped, FlightsTyped
  <2> QED BY <2>1, <2>2, WizardCloses
<1>3. ASSUME NEW n \in Names, TypeName(n) PROVE WizardInv'
  BY <1>3 DEF TypeName, FieldsTyped, RowsTyped, PicksAmongRows, FlightsTyped, FlightsOfSessions,
     CreatesFirst, DiscoversOne, RowsOfOne, CreatedAtStep, RowsOfProvider
<1>4. ASSUME NEW k \in Kinds, SelectType(k) PROVE WizardInv'
  BY <1>4 DEF SelectType, DefaultBaseUrl, FieldsTyped, RowsTyped, PicksAmongRows,
     FlightsTyped, FlightsOfSessions,
     CreatesFirst, DiscoversOne, RowsOfOne, CreatedAtStep, RowsOfProvider
<1>5. CASE NextStep
  BY <1>5 DEF NextStep, CanProceed, FieldsTyped, RowsTyped, PicksAmongRows, FlightsTyped,
     FlightsOfSessions,
     CreatesFirst, DiscoversOne, RowsOfOne, CreatedAtStep, RowsOfProvider
<1>6. CASE BackStep
  BY <1>6 DEF BackStep, FieldsTyped, RowsTyped, PicksAmongRows, FlightsTyped, FlightsOfSessions,
     CreatesFirst, DiscoversOne, RowsOfOne, CreatedAtStep, RowsOfProvider
<1>7. CASE Fill
  BY <1>7 DEF Fill, FieldsTyped, RowsTyped, PicksAmongRows, FlightsTyped, FlightsOfSessions,
     CreatesFirst, DiscoversOne, RowsOfOne, CreatedAtStep, RowsOfProvider
<1>8. CASE HandleCreateProvider
  <2>1. FlightsTyped'
    BY <1>8 DEF HandleCreateProvider, CanProceed, Plugin, FieldsTyped, RowsTyped, FlightsTyped
  <2>2. FlightsOfSessions'
    BY <1>8 DEF HandleCreateProvider, CanProceed, Plugin, FieldsTyped, FlightsTyped,
       FlightsOfSessions
  <2>3. CreatesFirst'
    BY <1>8 DEF HandleCreateProvider, CanProceed, Plugin, FieldsTyped, FlightsTyped,
       CreatesFirst, CreatedAtStep
  <2>4. /\ FieldsTyped' /\ RowsTyped' /\ PicksAmongRows' /\ DiscoversOne'
        /\ RowsOfOne' /\ CreatedAtStep' /\ RowsOfProvider'
    BY <1>8 DEF HandleCreateProvider, CanProceed, Plugin, FieldsTyped, RowsTyped,
       PicksAmongRows, DiscoversOne, RowsOfOne, CreatedAtStep, RowsOfProvider
  <2> QED BY <2>1, <2>2, <2>3, <2>4
<1>9. CASE RetryDiscovery
  <2>1. FieldsTyped'
    BY <1>9 DEF RetryDiscovery, RunDiscovery, FieldsTyped, FlightsOfSessions, FlightsTyped
  <2>2. FlightsTyped'
    BY <1>9 DEF RetryDiscovery, RunDiscovery, FieldsTyped, RowsTyped, FlightsTyped
  <2>3. FlightsOfSessions'
    BY <1>9 DEF RetryDiscovery, RunDiscovery, FieldsTyped, FlightsTyped, FlightsOfSessions
  <2>4. DiscoversOne'
    BY <1>9 DEF RetryDiscovery, RunDiscovery, FieldsTyped, FlightsTyped, FlightsOfSessions,
       CreatesFirst, DiscoversOne
  <2>5. /\ RowsTyped' /\ PicksAmongRows' /\ CreatesFirst'
        /\ RowsOfOne' /\ CreatedAtStep' /\ RowsOfProvider'
    BY <1>9 DEF RetryDiscovery, RunDiscovery, RowsTyped, PicksAmongRows, CreatesFirst,
       RowsOfOne, CreatedAtStep, RowsOfProvider
  <2> QED BY <2>1, <2>2, <2>3, <2>4, <2>5
<1>10. CASE HandleConfirm /\ rows.picked = {}
  <2>1. Reset /\ open' = FALSE /\ ((session' = session + 1 /\ open) \/ (session' = session /\ ~open))
    BY <1>10 DEF HandleConfirm, HandleClose
  <2>2. /\ creating' \subseteq creating /\ discoveries' \subseteq discoveries /\ discovering' \in BOOLEAN
        /\ confirming' \subseteq confirming /\ registered' = registered
        /\ late' \in BOOLEAN /\ (late => late')
    BY <1>10 DEF HandleConfirm, HandleClose, FieldsTyped, FlightsTyped
  <2> QED BY <2>1, <2>2, WizardCloses
<1>11. CASE HandleConfirm /\ rows.picked # {}
  <2>1. FlightsTyped'
    <3>1. registered' = registered \cup {[to |-> providerId, rowsOf |-> rows.of, shown |-> name]}
      BY <1>11 DEF HandleConfirm
    <3>2. providerId \in Names /\ rows.of \in Names \cup {NoName} /\ name \in Names \cup {NoName}
      BY <1>11 DEF HandleConfirm, FieldsTyped, RowsTyped
    <3>3. registered' \subseteq [to : Names, rowsOf : Names \cup {NoName}, shown : Names \cup {NoName}]
      BY <3>1, <3>2 DEF FlightsTyped
    <3>4. confirming' = {[session |-> session]} /\ UNCHANGED <<creating, discoveries, discovering>>
      BY <1>11 DEF HandleConfirm
    <3> QED BY <3>3, <3>4 DEF FlightsTyped, FieldsTyped
  <2>2. RowsOfProvider'
    <3>1. /\ registered' = registered \cup {[to |-> providerId, rowsOf |-> rows.of, shown |-> name]}
          /\ late' = late
      BY <1>11 DEF HandleConfirm
    <3>2. late \/ rows.of = providerId
      BY <1>11 DEF PicksAmongRows, RowsOfOne
    <3> QED BY <3>1, <3>2 DEF RowsOfProvider
  <2>3. /\ FieldsTyped' /\ RowsTyped' /\ PicksAmongRows' /\ FlightsOfSessions'
        /\ CreatesFirst' /\ DiscoversOne' /\ RowsOfOne' /\ CreatedAtStep'
    BY <1>11 DEF HandleConfirm, FieldsTyped, RowsTyped, PicksAmongRows, FlightsOfSessions,
       CreatesFirst, DiscoversOne, RowsOfOne, CreatedAtStep
  <2> QED BY <2>1, <2>2, <2>3
<1>12. ASSUME NEW m \in Models, UpdateRow(m) PROVE WizardInv'
  BY <1>12 DEF UpdateRow, FieldsTyped, RowsTyped, PicksAmongRows, FlightsTyped,
     FlightsOfSessions,
     CreatesFirst, DiscoversOne, RowsOfOne, CreatedAtStep, RowsOfProvider
<1>13. ASSUME NEW c \in creating, Created(c), c.plugin PROVE WizardInv'
  <2>1. FieldsTyped'
    <3>1. c.name \in Names /\ c.session \in 0..MaxSessions
      BY DEF FlightsTyped
    <3>2. step' = 4 /\ providerId' = c.name /\ late' \in BOOLEAN
      BY <1>13 DEF Created
    <3>3. UNCHANGED <<open, name, selection, apiKey, baseUrl, createError, session>> /\ discoverError' = FALSE
      BY <1>13 DEF Created, RunDiscovery
    <3>4. step' \in 1..5 /\ session' \in 0..MaxSessions
      BY <3>2, <3>3 DEF FieldsTyped
    <3> QED BY <3>1, <3>2, <3>3, <3>4 DEF FieldsTyped
  <2>2. RowsTyped'
    BY <1>13 DEF Created, RunDiscovery, RowsTyped, FlightsTyped
  <2>3. PicksAmongRows'
    BY <1>13 DEF Created, RunDiscovery, RowsTyped, PicksAmongRows
  <2>4. FlightsTyped'
    BY <1>13 DEF Created, RunDiscovery, FieldsTyped, RowsTyped, FlightsTyped
  <2>5. FlightsOfSessions'
    BY <1>13 DEF Created, RunDiscovery, FieldsTyped, FlightsTyped, FlightsOfSessions
  <2>6. CreatesFirst'
    BY <1>13 DEF Created, RunDiscovery, FlightsOfSessions, CreatesFirst, CreatedAtStep
  <2>7. DiscoversOne'
    BY <1>13 DEF Created, RunDiscovery, FieldsTyped, FlightsTyped, FlightsOfSessions,
       CreatesFirst, DiscoversOne
  <2>8. RowsOfOne'
    BY <1>13 DEF Created, RunDiscovery, FieldsTyped, FlightsTyped, CreatesFirst,
       DiscoversOne, RowsOfOne
  <2>9. CreatedAtStep'
    BY <1>13 DEF Created, RunDiscovery, FieldsTyped, DiscoversOne, CreatedAtStep
  <2>10. RowsOfProvider'
    BY <1>13 DEF Created, RunDiscovery, FieldsTyped, PicksAmongRows, RowsOfOne, RowsOfProvider
  <2> QED BY <2>1, <2>2, <2>3, <2>4, <2>5, <2>6, <2>7, <2>8, <2>9, <2>10
<1>14. ASSUME NEW c \in creating, Created(c), ~c.plugin PROVE WizardInv'
  <2>1. Reset /\ open' = FALSE /\ ((session' = session + 1 /\ open) \/ (session' = session /\ ~open))
    BY <1>14 DEF Created, FieldsTyped, FlightsTyped
  <2>2. /\ creating' \subseteq creating /\ discoveries' \subseteq discoveries /\ discovering' \in BOOLEAN
        /\ confirming' \subseteq confirming /\ registered' = registered
        /\ late' \in BOOLEAN /\ (late => late')
    BY <1>14 DEF Created, FieldsTyped, FlightsTyped
  <2> QED BY <2>1, <2>2, WizardCloses
<1>15. ASSUME NEW c \in creating, CreateFails(c) PROVE WizardInv'
  BY <1>15 DEF CreateFails, FieldsTyped, RowsTyped, PicksAmongRows, FlightsTyped,
     FlightsOfSessions,
     CreatesFirst, DiscoversOne, RowsOfOne, CreatedAtStep, RowsOfProvider
<1>16. ASSUME NEW d \in discoveries, DiscoverFails(d) PROVE WizardInv'
  BY <1>16 DEF DiscoverFails, FieldsTyped, RowsTyped, PicksAmongRows, FlightsTyped,
     FlightsOfSessions,
     CreatesFirst, DiscoversOne, RowsOfOne, CreatedAtStep, RowsOfProvider
<1>17. ASSUME NEW d \in discoveries, NEW found \in SUBSET Models, Discovered(d, found)
       PROVE  WizardInv'
  BY <1>17 DEF Discovered, FieldsTyped, RowsTyped, PicksAmongRows, FlightsTyped,
     FlightsOfSessions,
     CreatesFirst, DiscoversOne, RowsOfOne, CreatedAtStep, RowsOfProvider
<1>18. ASSUME NEW c \in confirming, Confirmed(c) PROVE WizardInv'
  <2>1. Reset /\ open' = FALSE /\ ((session' = session + 1 /\ open) \/ (session' = session /\ ~open))
    BY <1>18 DEF Confirmed, FieldsTyped, FlightsTyped
  <2>2. /\ creating' \subseteq creating /\ discoveries' \subseteq discoveries /\ discovering' \in BOOLEAN
        /\ confirming' \subseteq confirming /\ registered' = registered
        /\ late' \in BOOLEAN /\ (late => late')
    BY <1>18 DEF Confirmed, FieldsTyped, FlightsTyped
  <2> QED BY <2>1, <2>2, WizardCloses
<1>19. ASSUME NEW c \in confirming, ConfirmFails(c) PROVE WizardInv'
  BY <1>19 DEF ConfirmFails, FieldsTyped, RowsTyped, PicksAmongRows, FlightsTyped,
     FlightsOfSessions,
     CreatesFirst, DiscoversOne, RowsOfOne, CreatedAtStep, RowsOfProvider
<1>20. CASE UNCHANGED wizardVars
  BY <1>20 DEF wizardVars, FieldsTyped, RowsTyped, PicksAmongRows, FlightsTyped,
     FlightsOfSessions,
     CreatesFirst, DiscoversOne, RowsOfOne, CreatedAtStep, RowsOfProvider
<1> QED
  BY <1>1, <1>2, <1>3, <1>4, <1>5, <1>6, <1>7, <1>8, <1>9, <1>10, <1>11, <1>12, <1>13,
     <1>14, <1>15, <1>16, <1>17, <1>18, <1>19, <1>20 DEF WizardNext

-----------------------------------------------------------------------------
(* The wizard of a deployment.                                                 *)

DeployInv ==
    /\ DeployTypeOK
    /\ at >= 1 => modelRef
    /\ at >= 2 => backendType # NoBackend
    /\ \A p \in posts : p.visit <= visit
    /\ \A p, q \in posts : p.visit = q.visit => p = q
    /\ SpinnerHasRequest
    /\ RequestComplete
    /\ screen = "new" => visit >= 1

LEMMA DeployInitInv == DeployInit => DeployInv
<1> SUFFICES ASSUME DeployInit
             PROVE  DeployInv
  OBVIOUS
<1> USE DeployAssumption DEF DeployInit
<1>1. visit \in 0..MaxVisits /\ at \in 0..LastStep
  BY DEF LastStep
<1>2. DeployTypeOK
  BY <1>1 DEF DeployTypeOK, GpuIndexes
<1>3. SpinnerHasRequest /\ RequestComplete
  BY DEF SpinnerHasRequest, RequestComplete
<1> QED BY <1>2, <1>3 DEF DeployInv

LEMMA DeployStep == DeployInv /\ [DeployNext]_deployVars => DeployInv'
<1> SUFFICES ASSUME DeployInv, [DeployNext]_deployVars
             PROVE  DeployInv'
  OBVIOUS
<1> USE DeployAssumption DEF DeployInv, DeployTypeOK, SpinnerHasRequest, RequestComplete, LastStep, form, settings, GpuIndexes
<1>1. CASE OpenPage
  <2>1. /\ screen # "new" /\ visit < MaxVisits /\ screen' = "new" /\ visit' = visit + 1
        /\ at' = 0 /\ modelRef' = FALSE /\ backendType' = NoBackend
        /\ gpuIndex' = "0" /\ config' = "initial"
        /\ deploying' = FALSE /\ deployError' = FALSE
        /\ UNCHANGED <<going, gpuAvailable, posts>>
    BY <1>1 DEF OpenPage, Empty
  <2>2. visit' \in 0..MaxVisits /\ visit' >= 1 /\ at' \in 0..6
    BY <2>1
  <2>3. DeployTypeOK'
    BY <2>1, <2>2
  <2>4. \A p \in posts' : p.visit <= visit /\ p.visit < visit'
    <3>1. \A p \in posts : p.visit \in 1..MaxVisits
      OBVIOUS
    <3> QED BY <2>1, <3>1
  <2>5. SpinnerHasRequest'
    BY <2>1, <2>4
  <2> QED BY <2>1, <2>2, <2>3, <2>4, <2>5
<1>2. CASE LeavePage
  <2>1. /\ screen' = "other" /\ at' = 0 /\ modelRef' = FALSE /\ backendType' = NoBackend
        /\ gpuIndex' = "0" /\ config' = "initial"
        /\ deploying' = FALSE /\ deployError' = FALSE
        /\ UNCHANGED <<going, visit, gpuAvailable, posts>>
    BY <1>2 DEF LeavePage, Empty
  <2>3. at' \in 0..6
    BY <2>1
  <2>2. DeployTypeOK'
    BY <2>1, <2>3
  <2> QED BY <2>1, <2>2
<1>3. CASE CancelDeploy
  BY <1>3 DEF CancelDeploy
<1>4. CASE CommitPush
  <2>1. screen' = "list" /\ going' = FALSE /\ UNCHANGED <<visit, gpuAvailable, posts>>
    BY <1>4 DEF CommitPush
  <2>2. CASE screen = "new"
    <3>1. /\ at' = 0 /\ modelRef' = FALSE /\ backendType' = NoBackend
          /\ gpuIndex' = "0" /\ config' = "initial"
          /\ deploying' = FALSE /\ deployError' = FALSE
      BY <1>4, <2>2 DEF CommitPush, Empty
    <3>3. at' \in 0..6
      BY <3>1
    <3>2. DeployTypeOK'
      BY <2>1, <3>1, <3>3
    <3> QED BY <2>1, <3>1, <3>2
  <2>3. CASE screen # "new"
    <3>1. UNCHANGED <<at, modelRef, backendType, gpuIndex, config, deploying, deployError>>
      BY <1>4, <2>3 DEF CommitPush
    <3>2. DeployTypeOK'
      BY <2>1, <3>1
    <3> QED BY <2>1, <3>1, <3>2
  <2> QED BY <2>2, <2>3
<1>5. CASE TypeModel
  BY <1>5 DEF TypeModel
<1>6. CASE BackendsAnswer
  BY <1>6 DEF BackendsAnswer
<1>7. CASE NextStepOfDeploy
  BY <1>7 DEF NextStepOfDeploy, CanAdvance
<1>8. CASE BackStepOfDeploy
  BY <1>8 DEF BackStepOfDeploy
<1>9. CASE Deploy
  <2>1. /\ screen = "new" /\ at = 6 /\ ~deploying /\ deploying' = TRUE /\ deployError' = FALSE
        /\ posts' = posts \cup {[visit |-> visit, model |-> modelRef, backend |-> backendType, config |-> config,
                              gpu |-> IF backendType = "vllm" THEN gpuIndex ELSE NoGpu]}
        /\ UNCHANGED <<screen, going, visit, at, modelRef, backendType, gpuAvailable, gpuIndex, config>>
    BY <1>9 DEF Deploy
  <2>2. visit \in 1..MaxVisits /\ modelRef /\ backendType \in Backends \cup {NoBackend} /\ backendType # NoBackend
    BY <2>1
  <2> DEFINE post == [visit |-> visit, model |-> modelRef, backend |-> backendType, config |-> config,
                      gpu |-> IF backendType = "vllm" THEN gpuIndex ELSE NoGpu]
  <2>10. post \in [visit : 1..MaxVisits, model : BOOLEAN, backend : Backends \cup {NoBackend},
                  gpu : GpuIndexes \cup {NoGpu}, config : {"initial", "changed"}]
    BY <2>2
  <2>11. /\ post.visit = visit /\ post.model = modelRef /\ post.backend = backendType
         /\ post.gpu = IF backendType = "vllm" THEN gpuIndex ELSE NoGpu
    OBVIOUS
  <2>12. posts' = posts \cup {post}
    BY <2>1
  <2> HIDE DEF post
  <2>3. posts' \subseteq [visit : 1..MaxVisits, model : BOOLEAN, backend : Backends \cup {NoBackend},
                        gpu : GpuIndexes \cup {NoGpu}, config : {"initial", "changed"}]
    BY <2>10, <2>12
  <2>4. DeployTypeOK'
    BY <2>1, <2>3
  <2>13. post.gpu = NoGpu <=> post.backend # "vllm"
    BY <2>11 DEF GpuIndexes, NoGpu
  <2>5. RequestComplete'
    BY <2>2, <2>11, <2>12, <2>13
  <2>6. \A p \in posts : p.visit # visit
    BY <2>1
  <2>7. \A p \in posts' : p.visit <= visit'
    BY <2>1, <2>2, <2>11, <2>12
  <2>8. \A p, q \in posts' : p.visit = q.visit => p = q
    BY <2>6, <2>11, <2>12
  <2>9. SpinnerHasRequest'
    BY <2>1, <2>11, <2>12
  <2> QED BY <2>1, <2>2, <2>4, <2>5, <2>7, <2>8, <2>9
<1>10. ASSUME NEW b \in Backends, PickRuntime(b) PROVE DeployInv'
  BY <1>10 DEF PickRuntime
<1>11. ASSUME NEW p \in posts, Deployed(p) PROVE DeployInv'
  BY <1>11 DEF Deployed
<1>12. ASSUME NEW p \in posts, DeployFails(p) PROVE DeployInv'
  BY <1>12 DEF DeployFails
<1>14. CASE SetHardware
  BY <1>14 DEF SetHardware
<1>15. CASE SetConfig
  BY <1>15 DEF SetConfig
<1>13. CASE UNCHANGED deployVars
  BY <1>13 DEF deployVars
<1> QED
  BY <1>1, <1>2, <1>3, <1>4, <1>5, <1>6, <1>7, <1>8, <1>9, <1>10, <1>11, <1>12, <1>13, <1>14, <1>15
     DEF DeployNext

-----------------------------------------------------------------------------
(* The client of the API.                                                      *)

\* OutcomeOfCause, case by case.
OutcomeTells ==
    /\ outcome = "data" => cause = "ok"
    /\ outcome = "empty" => cause \in {"ok", "no content"}
    /\ outcome = "client" => cause = "4xx"
    /\ outcome = "server" => cause = "5xx"
    /\ outcome = "timed out" => cause = "timer" /\ ~callerAborted /\ hasTimeout /\ stage = "idle"
    /\ outcome = "raw" => cause \in {"network", "caller", "not json"}
    /\ outcome = "none" => stage # "idle" \/ cause = "none"

\* What is under way: nothing has come of it, and its caller has not given it up.
StageTells ==
    /\ stage \in {"fetching", "body", "failing"} => outcome = "none" /\ ~callerAborted
    /\ stage = "body" => cause = "ok"
    /\ stage = "failing" => cause \in {"4xx", "5xx"}
    /\ stage = "waiting" => outcome \in {"server", "raw"}

ApiInv == ApiTypeOK /\ OutcomeTells /\ StageTells /\ OneRetry

LEMMA ApiOutcome == ApiInv => OutcomeOfCause
<1> SUFFICES ASSUME ApiInv
             PROVE  OutcomeOfCause
  OBVIOUS
<1>1. outcome \in Outcomes /\ OutcomeTells
  BY DEF ApiInv, ApiTypeOK
<1> QED BY <1>1 DEF OutcomeTells, OutcomeOfCause, Outcomes

LEMMA ApiInitInv == ApiInit => ApiInv
<1> SUFFICES ASSUME ApiInit
             PROVE  ApiInv
  OBVIOUS
<1> USE DEF ApiInit
<1>4. failureCount \in 0..2
  OBVIOUS
<1>1. ApiTypeOK
  BY <1>4 DEF ApiTypeOK, Outcomes, Causes
<1>2. OutcomeTells /\ StageTells
  BY DEF OutcomeTells, StageTells
<1>3. OneRetry
  BY DEF OneRetry
<1> QED BY <1>1, <1>2, <1>3 DEF ApiInv

LEMMA RetryCount ==
  ASSUME NEW n \in 0..2, n <= 1, NEW m, m = n \/ (n < 1 /\ m = n + 1)
  PROVE  m \in 0..2 /\ m <= 1
  OBVIOUS

(* A request that is given up leaves its outcome as it stands with its cause.   *)
LEMMA RejectTells ==
  ASSUME ApiInv, NEW result, NEW why, Reject(result, why), callerAborted' \in BOOLEAN,
         \/ result = "client" /\ why = "4xx"
         \/ result = "server" /\ why = "5xx"
         \/ result = "timed out" /\ why = "timer" /\ ~callerAborted' /\ hasTimeout
         \/ result = "raw" /\ why \in {"network", "caller", "not json"}
  PROVE  ApiInv'
<1>1. /\ outcome' = result /\ cause' = why /\ timerArmed' = FALSE
      /\ UNCHANGED <<raw, hasTimeout, hasSignal>>
  BY DEF Reject
<1>2. \/ /\ result \notin {"client", "timed out"} /\ failureCount < 1
         /\ stage' = "waiting" /\ failureCount' = failureCount + 1
      \/ stage' = "idle" /\ failureCount' = failureCount
  BY DEF Reject, FinalStatus
<1>3. failureCount \in 0..2 /\ failureCount <= 1
  BY DEF ApiInv, ApiTypeOK, OneRetry
<1>4. failureCount' \in 0..2 /\ failureCount' <= 1
  <2>1. failureCount' = failureCount \/ (failureCount < 1 /\ failureCount' = failureCount + 1)
    BY <1>2
  <2> QED BY <1>3, <2>1, RetryCount
<1>5. ApiTypeOK'
  <2>1. outcome' \in Outcomes /\ cause' \in Causes
    BY <1>1 DEF Outcomes, Causes
  <2> QED BY <1>1, <1>2, <1>4, <2>1 DEF ApiInv, ApiTypeOK
<1>6. OutcomeTells'
  BY <1>1, <1>2 DEF OutcomeTells
<1>7. StageTells'
  BY <1>1, <1>2 DEF StageTells
<1>8. OneRetry'
  BY <1>1, <1>2, <1>4 DEF OneRetry
<1> QED BY <1>5, <1>6, <1>7, <1>8 DEF ApiInv

LEMMA ApiStep == ApiInv /\ [ApiNext]_apiVars => ApiInv'
<1> SUFFICES ASSUME ApiInv, [ApiNext]_apiVars
             PROVE  ApiInv'
  OBVIOUS
<1>1. ASSUME NEW timeout \in BOOLEAN, NEW signal \in BOOLEAN, ApiFetch(timeout, signal)
      PROVE  ApiInv'
  <2>3. /\ outcome' = "none" /\ cause' = "none" /\ failureCount' = 0 /\ raw' = raw
        /\ stage' = "fetching" /\ timerArmed' = timeout /\ hasTimeout' = timeout /\ hasSignal' = signal
        /\ callerAborted' = FALSE
    BY <1>1 DEF ApiFetch
  <2>4. raw' \in Raws /\ failureCount' \in 0..2
    BY <2>3 DEF ApiInv, ApiTypeOK
  <2>1. ApiTypeOK'
    BY <2>3, <2>4 DEF ApiTypeOK, Outcomes, Causes
  <2>2. OutcomeTells' /\ StageTells' /\ OneRetry'
    BY <1>1 DEF ApiFetch, OutcomeTells, StageTells, OneRetry
  <2> QED BY <2>1, <2>2 DEF ApiInv
<1>2. CASE RetryAsk /\ callerAborted
  BY <1>2, RejectTells DEF RetryAsk
<1>3. CASE RetryAsk /\ ~callerAborted
  <2>1. ApiTypeOK'
    BY <1>3 DEF RetryAsk, ApiInv, ApiTypeOK, Outcomes, Causes
  <2>2. OutcomeTells' /\ StageTells' /\ OneRetry'
    BY <1>3 DEF RetryAsk, ApiInv, ApiTypeOK, OutcomeTells, StageTells, OneRetry
  <2> QED BY <2>1, <2>2 DEF ApiInv
<1>4. CASE TimerFires
  <2>1. stage = "fetching" /\ callerAborted' = callerAborted /\ hasTimeout /\ ~callerAborted
    BY <1>4 DEF TimerFires, ApiInv, OneRetry, StageTells
  <2>4. FetchAborted("timer") /\ ~callerAborted'
    BY <1>4, <2>1 DEF TimerFires
  <2>2. Reject("timed out", "timer")
    BY <2>4 DEF FetchAborted
  <2>3. callerAborted' \in BOOLEAN
    BY <2>1 DEF ApiInv, ApiTypeOK
  <2> QED BY <2>1, <2>2, <2>3, RejectTells
<1>5. CASE CallerAborts
  <2>1. callerAborted' = TRUE /\ stage # "idle"
    BY <1>5 DEF CallerAborts
  <2>2. CASE stage \in {"fetching", "body"}
    BY <1>5, <2>1, <2>2, RejectTells DEF CallerAborts, FetchAborted
  <2>3. CASE stage = "failing"
    <3>1. cause \in {"4xx", "5xx"}
      BY <2>3 DEF ApiInv, StageTells
    <3>2. Reject(IF cause = "5xx" THEN "server" ELSE "client", cause)
      BY <1>5, <2>3 DEF CallerAborts
    <3> QED BY <2>1, <3>1, <3>2, RejectTells
  <2>4. CASE stage = "waiting"
    <3>1. UNCHANGED <<raw, stage, hasTimeout, hasSignal, timerArmed, outcome, cause, failureCount>>
      BY <1>5, <2>4 DEF CallerAborts
    <3>2. outcome \in {"server", "raw"}
      BY <2>4 DEF ApiInv, StageTells
    <3> QED BY <2>1, <2>4, <3>1, <3>2 DEF ApiInv, ApiTypeOK, OutcomeTells, StageTells, OneRetry
  <2> QED BY <2>1, <2>2, <2>3, <2>4 DEF ApiInv, ApiTypeOK
<1>6. CASE NetworkFails
  <2>1. callerAborted' = callerAborted /\ callerAborted' \in BOOLEAN
    BY <1>6 DEF NetworkFails, ApiInv, ApiTypeOK
  <2>2. CASE stage = "failing"
    <3>1. cause \in {"4xx", "5xx"}
      BY <2>2 DEF ApiInv, StageTells
    <3>2. Reject(IF cause = "5xx" THEN "server" ELSE "client", cause)
      BY <1>6, <2>2 DEF NetworkFails
    <3> QED BY <2>1, <3>1, <3>2, RejectTells
  <2>3. CASE stage # "failing"
    <3>1. Reject("raw", "network")
      BY <1>6, <2>3 DEF NetworkFails
    <3> QED BY <2>1, <3>1, RejectTells
  <2> QED BY <2>2, <2>3
<1>7. ASSUME NEW answer \in {"ok", "no content", "4xx", "5xx"}, HeadersArrive(answer)
      PROVE  ApiInv'
  <2>1. ApiTypeOK'
    BY <1>7 DEF HeadersArrive, ApiInv, ApiTypeOK, Outcomes, Causes
  <2>2. OutcomeTells' /\ StageTells' /\ OneRetry'
    BY <1>7 DEF HeadersArrive, ApiInv, OutcomeTells, StageTells, OneRetry
  <2> QED BY <2>1, <2>2 DEF ApiInv
<1>8. ASSUME NEW body \in {"json", "nothing", "broken"}, BodyArrives(body) PROVE ApiInv'
  <2>1. callerAborted' = callerAborted /\ callerAborted' \in BOOLEAN
    BY <1>8 DEF BodyArrives, ApiInv, ApiTypeOK
  <2>2. CASE stage = "failing"
    <3>1. cause \in {"4xx", "5xx"}
      BY <2>2 DEF ApiInv, StageTells
    <3>2. Reject(IF cause = "5xx" THEN "server" ELSE "client", cause)
      BY <1>8, <2>2 DEF BodyArrives
    <3> QED BY <2>1, <3>1, <3>2, RejectTells
  <2>3. CASE stage = "body" /\ body = "broken"
    <3>1. Reject("raw", "not json")
      BY <1>8, <2>3 DEF BodyArrives
    <3> QED BY <2>1, <3>1, RejectTells
  <2>4. CASE stage = "body" /\ body # "broken"
    <3>1. /\ stage' = "idle" /\ outcome' \in {"data", "empty"}
          /\ UNCHANGED <<raw, hasTimeout, hasSignal, timerArmed, cause, failureCount>>
      BY <1>8, <2>4 DEF BodyArrives
    <3>2. cause = "ok" /\ ~timerArmed
      BY <2>4 DEF ApiInv, StageTells, OneRetry
    <3>3. ApiTypeOK'
      BY <2>1, <3>1 DEF ApiInv, ApiTypeOK, Outcomes
    <3>4. OutcomeTells' /\ StageTells' /\ OneRetry'
      BY <3>1, <3>2 DEF ApiInv, OutcomeTells, StageTells, OneRetry
    <3> QED BY <3>3, <3>4 DEF ApiInv
  <2> QED BY <1>8, <2>2, <2>3, <2>4 DEF BodyArrives
<1>9. CASE UNCHANGED apiVars
  BY <1>9 DEF apiVars, ApiInv, ApiTypeOK, OutcomeTells, StageTells, OneRetry
<1> QED
  BY <1>1, <1>2, <1>3, <1>4, <1>5, <1>6, <1>7, <1>8, <1>9 DEF ApiNext

(* A base that reaches the routes holds the prefix once.                        *)
LEMMA PrefixOnce == Occurrences(ApiPrefix) = 1
<1> DEFINE R(f, i) == IF i >= Len(ApiPrefix) THEN 0
                      ELSE IF ApiPrefix[i] = "api" THEN 1 + f[i + 2] ELSE f[i + 1]
           g == [i \in 1..4 |-> IF i = 1 THEN 1 ELSE 0]
           f == CHOOSE f : f = [i \in 1..4 |-> R(f, i)]
<1>1. Len(ApiPrefix) = 2 /\ ApiPrefix[1] = "api"
  BY DEF ApiPrefix
<1>2. g = [i \in 1..4 |-> R(g, i)]
  <2>1. ASSUME NEW i \in 1..4 PROVE g[i] = R(g, i)
    <3>1. i = 1 \/ i >= 2
      OBVIOUS
    <3>2. CASE i = 1
      BY <1>1, <3>2
    <3>3. CASE i >= 2
      BY <1>1, <3>3
    <3> QED BY <3>1, <3>2, <3>3
  <2> QED BY <2>1
<1>3. f = [i \in 1..4 |-> R(f, i)]
  BY <1>2
<1>7. \A i \in 1..4 : f[i] = R(f, i)
  BY <1>3
<1>4. f[3] = 0
  BY <1>1, <1>7
<1>5. f[1] = 1
  BY <1>1, <1>7, <1>4
<1>6. Occurrences(ApiPrefix) = f[1]
  BY <1>1 DEF Occurrences
<1> QED BY <1>5, <1>6

LEMMA BaseOfForms == ResolveBaseUrl(<<>>) = ApiPrefix /\ ResolveBaseUrl(ApiPrefix) = ApiPrefix
<1>1. ResolveBaseUrl(<<>>) = ApiPrefix
  BY DEF ResolveBaseUrl, IsSuffix, IsPrefix, Reverse, ApiPrefix
<1>2. ResolveBaseUrl(ApiPrefix) = ApiPrefix
  BY DEF ResolveBaseUrl, IsSuffix, IsPrefix, Reverse, ApiPrefix
<1> QED BY <1>1, <1>2

LEMMA WarnsRightly == NoFalseAlarm
<1>1. ~(1 > 1)
  OBVIOUS
<1>2. Reaches => ~Warned
  BY <1>1, PrefixOnce DEF Reaches, Warned
<1>3. raw.scheme /\ raw.path \in {<<>>, ApiPrefix} => Reaches
  BY BaseOfForms DEF Reaches
<1> QED BY <1>2, <1>3 DEF NoFalseAlarm

\* What is waited for is under way and was complete when it was sent, an outcome is
\* that of its cause, a request is sent again at most once and a base that reaches the
\* routes is not warned of: the wizard's rows, both wizards' flights and the client's
\* timer, signal and retry together (provider-wizard.tsx, DeploymentWizard.tsx, api.ts).
THEOREM ConsoleRequestsSettle == ConsoleSpec => []RequestsSettle
<1>1. ConsoleInit => WizardInv /\ DeployInv /\ ApiInv
  BY WizardInitInv, DeployInitInv, ApiInitInv DEF ConsoleInit
<1>2. WizardInv /\ [ConsoleNext]_consoleVars => WizardInv'
  BY WizardStep DEF ConsoleNext, consoleVars
<1>3. DeployInv /\ [ConsoleNext]_consoleVars => DeployInv'
  BY DeployStep DEF ConsoleNext, consoleVars
<1>4. ApiInv /\ [ConsoleNext]_consoleVars => ApiInv'
  BY ApiStep DEF ConsoleNext, consoleVars
<1>5. WizardInv /\ DeployInv /\ ApiInv => RequestsSettle
  BY ApiOutcome, WarnsRightly DEF WizardInv, DeployInv, ApiInv, RequestsSettle
<1> QED BY <1>1, <1>2, <1>3, <1>4, <1>5, PTL DEF ConsoleSpec

-----------------------------------------------------------------------------
(* The pages and their queries.                                                *)

\* The endpoints that are asked with the filter of the page.
ByFilter(k) == k[1] \in {"logs", "traces", "breakdown", "over-time"}

FilterNames == {"all", "live", "error", "30d", "24h", "none"}
Fetch == [stage : {"idle", "asked", "answered"}, got : SUBSET Ids, asks : FilterNames]
Query == [has : BOOLEAN, data : SUBSET Ids, of : FilterNames, failed : BOOLEAN, fetch : Fetch]

\* A query without data is in error or fetching, and lists nothing; one that is
\* asked by a filter is asked by the one in its key, and so is what it holds.
QueryTells(k, q) ==
    /\ ~q.has => q.data = {} /\ (q.failed \/ q.fetch # Idle)
    /\ q.failed => q.fetch = Idle \/ q.has
    /\ ByFilter(k) /\ q.fetch # Idle => q.fetch.asks = k[2]
    /\ ByFilter(k) /\ q.data # {} => q.of = k[2]

CacheTells ==
    /\ cache = [k \in DOMAIN cache |-> cache[k]]
    /\ \A k \in DOMAIN cache : cache[k] \in Query /\ QueryTells(k, cache[k])

PagesInv ==
    /\ page \in PageNames /\ filter \in FilterNames
    /\ stored \subseteq Ids
    /\ Observes(page, filter) \subseteq DOMAIN cache
    /\ CacheTells

LEMMA FiltersAreNames ==
  /\ \A p \in PageNames : FirstFilter(p) \in FilterNames
  /\ \A p \in PageNames : \A f \in Filters(p) : f \in FilterNames
<1>1. \A p \in PageNames : FirstFilter(p) \in FilterNames
  BY DEF FirstFilter, FilterNames
<1>2. ASSUME NEW p \in PageNames, NEW f \in Filters(p) PROVE f \in FilterNames
  <2>1. f \in {"all", "live", "error", "30d", "24h"}
    BY <1>2 DEF Filters
  <2> QED BY <2>1 DEF FilterNames
<1> QED BY <1>1, <1>2

\* What a page observes by a filter, it observes by the one it shows.
LEMMA ObservedByFilter ==
  ASSUME NEW p \in PageNames, NEW f, NEW k \in Observes(p, f), ByFilter(k)
  PROVE  k[2] = f
<1> USE DEF Observes, Key, ByFilter, UseDashboard, UseDashboardTimeseries, UseCostBreakdown,
        UseCostOverTime, UseCostForecast, UseLogs, UseTraces, UseBenchmarks, UseBenchmarkDatasets,
        UseProviders, UseDeployments, UsePolicies, UsePrompts, UseExperiments, UseEvaluations
<1>1. CASE p \in {"dashboard", "benchmarks", "infrastructure", "deployments", "deployment", "providers"}
  BY <1>1
<1>2. CASE p \in {"routing", "prompts", "experiments", "evaluations", "leaderboard"}
  BY <1>2
<1>3. CASE p = "cost"
  BY <1>3
<1>4. CASE p = "logs"
  BY <1>4
<1>5. CASE p = "observability"
  BY <1>5
<1> QED BY <1>1, <1>2, <1>3, <1>4, <1>5 DEF PageNames

LEMMA FetchIdle == Idle \in Fetch /\ (\A f \in FilterNames : Ask(f) \in Fetch /\ Ask(f) # Idle /\ Ask(f).asks = f)
<1>1. Idle \in Fetch
  BY DEF Idle, Fetch, FilterNames
<1>2. ASSUME NEW f \in FilterNames PROVE Ask(f) \in Fetch /\ Ask(f).asks = f
  BY DEF Ask, Fetch
<1>3. ASSUME NEW f PROVE Ask(f) # Idle
  <2>1. Ask(f).stage = "asked" /\ Idle.stage = "idle"
    BY DEF Ask, Idle
  <2> QED BY <2>1
<1> QED BY <1>1, <1>2, <1>3

\* A query that is fetched for the first time, and one that is fetched again.
LEMMA FreshTells ==
  ASSUME NEW f \in FilterNames, NEW k, ByFilter(k) => k[2] = f
  PROVE  Fresh(f) \in Query /\ QueryTells(k, Fresh(f))
<1>1. /\ Fresh(f) = [has |-> FALSE, data |-> {}, of |-> "none", failed |-> FALSE, fetch |-> Ask(f)]
      /\ Ask(f) \in Fetch /\ Ask(f) # Idle /\ Ask(f).asks = f
  BY FetchIdle DEF Fresh
<1>2. Fresh(f) \in Query
  BY <1>1 DEF Query, FilterNames
<1>3. Fresh(f).data = {} /\ Fresh(f).fetch = Ask(f) /\ ~Fresh(f).failed
  BY <1>1
<1> QED BY <1>1, <1>2, <1>3 DEF QueryTells

LEMMA AskedTells ==
  ASSUME NEW f \in FilterNames, NEW k, ByFilter(k) => k[2] = f, NEW q \in Query, QueryTells(k, q), NEW r,
         r = [[q EXCEPT !.fetch = Ask(f), !.failed = q.failed /\ q.has] EXCEPT !.fetch = Ask(f)]
  PROVE  r \in Query /\ QueryTells(k, r)
<1>1. Ask(f) \in Fetch /\ Ask(f) # Idle /\ Ask(f).asks = f
  BY FetchIdle
<1>2. /\ r = [q EXCEPT !.fetch = Ask(f), !.failed = q.failed /\ q.has]
      /\ r \in Query
  BY <1>1 DEF Query
<1>3. /\ r.has = q.has /\ r.data = q.data /\ r.of = q.of /\ r.fetch = Ask(f)
      /\ r.failed = (q.failed /\ q.has)
  BY <1>2 DEF Query
<1> QED BY <1>1, <1>2, <1>3 DEF QueryTells

\* One query changes, the others stay.
LEMMA CacheChanges ==
  ASSUME CacheTells, NEW k \in DOMAIN cache, NEW q \in Query, QueryTells(k, q),
         cache' = [cache EXCEPT ![k] = q]
  PROVE  CacheTells' /\ DOMAIN cache' = DOMAIN cache
<1>1. DOMAIN cache' = DOMAIN cache /\ cache' = [j \in DOMAIN cache' |-> cache'[j]]
  OBVIOUS
<1>2. \A j \in DOMAIN cache : cache'[j] = IF j = k THEN q ELSE cache[j]
  OBVIOUS
<1> QED BY <1>1, <1>2 DEF CacheTells

LEMMA PagesInitInv == PagesInit => PagesInv
<1> SUFFICES ASSUME PagesInit
             PROVE  PagesInv
  OBVIOUS
<1>1. page \in PageNames /\ filter = FirstFilter(page) /\ filter \in FilterNames
  BY FiltersAreNames DEF PagesInit
<1>2. stored \subseteq Ids
  BY DEF PagesInit
<1>3. cache = [k \in Observes(page, filter) |-> Fresh(filter)]
  BY DEF PagesInit
<1>4. \A k \in Observes(page, filter) : cache[k] \in Query /\ QueryTells(k, cache[k])
  BY <1>1, <1>3, FreshTells, ObservedByFilter
<1> QED BY <1>1, <1>2, <1>3, <1>4 DEF PagesInv, CacheTells

LEMMA PagesStep == PagesInv /\ [PagesNext]_pagesVars => PagesInv'
<1> SUFFICES ASSUME PagesInv, [PagesNext]_pagesVars
             PROVE  PagesInv'
  OBVIOUS
<1> USE DEF PagesInv
<1>1. ASSUME NEW f \in Filters(page), SetFilter(f) PROVE PagesInv'
  <2>1. filter' = f /\ f \in FilterNames /\ UNCHANGED <<page, stored>>
    BY <1>1, FiltersAreNames DEF SetFilter
  <2>2. PICK stale \in BOOLEAN :
         cache' = [k \in DOMAIN cache \cup Observes(page, f) |->
                     IF k \notin DOMAIN cache THEN Fresh(f)
                     ELSE IF k \in Observes(page, f) \ Observes(page, filter)
                             /\ cache[k].fetch = Idle /\ (stale \/ ~cache[k].has)
                          THEN [Asked(cache[k]) EXCEPT !.fetch = Ask(f)]
                     ELSE cache[k]]
    BY <1>1 DEF SetFilter
  <2>3. DOMAIN cache' = DOMAIN cache \cup Observes(page, f)
    BY <2>2
  <2>4. ASSUME NEW k \in DOMAIN cache' PROVE cache'[k] \in Query /\ QueryTells(k, cache'[k])
    <3>1. CASE k \notin DOMAIN cache
      <4>1. k \in Observes(page, f) /\ cache'[k] = Fresh(f)
        BY <2>2, <2>3, <3>1
      <4> QED BY <2>1, <4>1, FreshTells, ObservedByFilter
    <3>2. CASE k \in DOMAIN cache /\ cache'[k] = cache[k]
      BY <3>2 DEF CacheTells
    <3>3. CASE k \in DOMAIN cache /\ cache'[k] # cache[k]
      <4>1. k \in Observes(page, f) /\ cache'[k] = [Asked(cache[k]) EXCEPT !.fetch = Ask(f)]
        BY <2>2, <2>3, <3>3
      <4>2. cache[k] \in Query /\ QueryTells(k, cache[k])
        BY <3>3 DEF CacheTells
      <4>3. cache'[k] = [[cache[k] EXCEPT !.fetch = Ask(f), !.failed = cache[k].failed /\ cache[k].has]
                         EXCEPT !.fetch = Ask(f)]
        BY <4>1, <4>2 DEF Asked, Query
      <4> QED BY <2>1, <4>1, <4>2, <4>3, AskedTells, ObservedByFilter
    <3> QED BY <3>1, <3>2, <3>3
  <2>5. cache' = [k \in DOMAIN cache' |-> cache'[k]]
    BY <2>2
  <2> QED BY <2>1, <2>3, <2>4, <2>5 DEF CacheTells
<1>2. ASSUME NEW k \in Observes(page, filter), cache' = [cache EXCEPT ![k] = Asked(@)],
             UNCHANGED <<page, filter, stored>>
      PROVE  PagesInv'
  <2>1. k \in DOMAIN cache /\ cache[k] \in Query /\ QueryTells(k, cache[k])
    BY DEF CacheTells
  <2>2. Asked(cache[k]) = [[cache[k] EXCEPT !.fetch = Ask(filter), !.failed = cache[k].failed /\ cache[k].has]
                           EXCEPT !.fetch = Ask(filter)]
    BY <2>1 DEF Asked, Query
  <2>3. Asked(cache[k]) \in Query /\ QueryTells(k, Asked(cache[k]))
    BY <2>1, <2>2, AskedTells, ObservedByFilter
  <2>4. cache' = [cache EXCEPT ![k] = Asked(cache[k])]
    BY <1>2
  <2> QED BY <1>2, <2>1, <2>3, <2>4, CacheChanges
<1>3. ASSUME NEW k \in DOMAIN cache, Refetch(k) PROVE PagesInv'
  BY <1>2, <1>3 DEF Refetch
<1>4. ASSUME NEW k \in DOMAIN cache, AnswerQuery(k) PROVE PagesInv'
  <2> DEFINE fetch == [cache[k].fetch EXCEPT !.stage = "answered", !.got = stored]
             q == [cache[k] EXCEPT !.fetch = fetch]
  <2>1. cache[k] \in Query /\ QueryTells(k, cache[k]) /\ cache[k].fetch.stage = "asked"
    BY <1>4 DEF CacheTells, AnswerQuery
  <2>2. fetch \in Fetch /\ fetch.asks = cache[k].fetch.asks /\ fetch.stage = "answered"
    BY <2>1 DEF Query, Fetch
  <2>7. Idle.stage = "idle"
    BY DEF Idle
  <2>3. fetch # Idle /\ cache[k].fetch # Idle
    BY <2>1, <2>2, <2>7
  <2>4. cache' = [cache EXCEPT ![k] = q]
    BY <1>4 DEF AnswerQuery
  <2> HIDE DEF fetch
  <2>5. /\ q \in Query /\ q.fetch = fetch /\ q.has = cache[k].has /\ q.data = cache[k].data
        /\ q.failed = cache[k].failed /\ q.of = cache[k].of
    BY <2>1, <2>2 DEF Query
  <2> HIDE DEF q
  <2>6. QueryTells(k, q)
    BY <2>1, <2>2, <2>3, <2>5 DEF QueryTells
  <2> QED BY <1>4, <2>4, <2>5, <2>6, CacheChanges DEF AnswerQuery
<1>5. ASSUME NEW k \in DOMAIN cache, SettleQuery(k) PROVE PagesInv'
  <2>1. cache[k] \in Query /\ QueryTells(k, cache[k]) /\ cache[k].fetch # Idle
    BY <1>5 DEF CacheTells, SettleQuery, Idle
  <2>2. PICK got \in Answers(k) :
         cache' = [cache EXCEPT ![k] = [has |-> TRUE, data |-> got, of |-> cache[k].fetch.asks,
                                        failed |-> FALSE, fetch |-> Idle]]
    BY <1>5 DEF SettleQuery
  <2>3. got \in SUBSET Ids
    BY <2>1, <2>2 DEF Answers, Query, Fetch
  <2> DEFINE q == [has |-> TRUE, data |-> got, of |-> cache[k].fetch.asks, failed |-> FALSE, fetch |-> Idle]
  <2>4. cache' = [cache EXCEPT ![k] = q]
    BY <2>2
  <2>5. /\ q \in Query /\ q.fetch = Idle /\ q.has /\ ~q.failed /\ q.of = cache[k].fetch.asks
    BY <2>1, <2>3, FetchIdle DEF Query, Fetch
  <2> HIDE DEF q
  <2>6. QueryTells(k, q)
    BY <2>1, <2>5 DEF QueryTells
  <2> QED BY <1>5, <2>4, <2>5, <2>6, CacheChanges DEF SettleQuery
<1>6. ASSUME NEW k \in DOMAIN cache, QueryFails(k) PROVE PagesInv'
  <2>1. cache[k] \in Query /\ QueryTells(k, cache[k])
    BY DEF CacheTells
  <2> DEFINE q == [cache[k] EXCEPT !.failed = TRUE, !.fetch = Idle]
  <2>2. cache' = [cache EXCEPT ![k] = q]
    BY <1>6 DEF QueryFails
  <2>3. /\ q \in Query /\ q.fetch = Idle /\ q.has = cache[k].has /\ q.data = cache[k].data
        /\ q.failed /\ q.of = cache[k].of
    BY <2>1, FetchIdle DEF Query
  <2> HIDE DEF q
  <2>4. QueryTells(k, q)
    BY <2>1, <2>3 DEF QueryTells
  <2> QED BY <1>6, <2>2, <2>3, <2>4, CacheChanges DEF QueryFails
<1>7. CASE RemoveDone
  <2>1. ListKey \in Observes(page, filter)
    <3>1. Observes(page, filter) # {}
      BY DEF Observes, PageNames
    <3> QED BY <3>1 DEF ListKey
  <2> QED BY <1>2, <1>7, <2>1 DEF RemoveDone, InvalidateList
<1>8. ASSUME UNCHANGED <<page, filter, cache>>, stored' \subseteq stored \/ stored' \subseteq Ids
      PROVE  PagesInv'
  BY <1>8 DEF CacheTells
<1>9. ASSUME NEW id, Select(id) \/ RemoveRow(id) PROVE PagesInv'
  BY <1>8, <1>9 DEF Select, RemoveRow
<1>10. CASE ServerRemoves \/ RemoveFails \/ ServerChanges
  BY <1>8, <1>10 DEF ServerRemoves, RemoveFails, ServerChanges
<1>11. CASE UNCHANGED pagesVars
  BY <1>8, <1>11 DEF pagesVars
<1> QED
  BY <1>1, <1>3, <1>4, <1>5, <1>6, <1>7, <1>9, <1>10, <1>11 DEF PagesNext

LEMMA PanelTells ==
  ASSUME NEW slot, NEW k, NEW shows
  PROVE  /\ Panel(slot, k, shows).panel = slot
         /\ Panel(slot, k, shows).key = k
         /\ Panel(slot, k, shows).shows = shows
  BY DEF Panel

LEMMA ListedTells ==
  ASSUME NEW slot, NEW k
  PROVE  /\ Listed(slot, k).panel = slot
         /\ Listed(slot, k).key = k
         /\ Listed(slot, k).shows = "rows" => Rows(k) # {}
         /\ Listed(slot, k).shows = "nothing" => Rows(k) = {}
  BY DEF Listed, Panel

LEMMA SectionTells ==
  ASSUME NEW slot, NEW k
  PROVE  Section(slot, k).panel = slot /\ Section(slot, k).key = k
  BY ListedTells, PanelTells DEF Section

\* A query that neither loads nor is in error has been answered.
LEMMA SettledHasData ==
  ASSUME PagesInv, NEW k \in Observes(page, filter), ~Loading(k), ~Failed(k)
  PROVE  cache[k].has
  BY DEF PagesInv, CacheTells, QueryTells, Loading, Failed

\* A list says that there is nothing only of an answer that listed nothing.
LEMMA ListSaysNothing ==
  ASSUME PagesInv, NEW k \in Observes(page, filter), NEW slot, NEW v \in OneList(slot, k),
         v.shows = "nothing"
  PROVE  v.key = k /\ cache[k].has /\ cache[k].data = {} /\ ~cache[k].failed
<1>1. ~Loading(k) /\ ~Failed(k) /\ v = Listed(slot, k)
  BY DEF OneList, Section, Panel
<1>2. v.key = k /\ Rows(k) = {}
  BY <1>1 DEF Listed, Panel
<1> QED BY <1>1, <1>2, SettledHasData DEF Rows, Failed

LEMMA NothingIsEmpty == PagesInv => NothingMeansEmpty
<1> SUFFICES ASSUME PagesInv, NEW v \in View, v.shows = "nothing", v.panel \notin DataAlone
             PROVE  cache[v.key].has /\ cache[v.key].data = {} /\ ~cache[v.key].failed
  BY DEF NothingMeansEmpty
<1>1. CASE page = "dashboard"
  <2>1. ~Loading(UseDashboard) /\ ~Failed(UseDashboard) /\ v \in DashboardPanels
    BY <1>1 DEF View, DashboardPage, Panel
  <2>2. v = Listed("model_usage", UseDashboard)
    BY <2>1, ListedTells DEF DashboardPanels, DataAlone
  <2>3. v.key = UseDashboard /\ Rows(UseDashboard) = {} /\ UseDashboard \in Observes(page, filter)
    BY <1>1, <2>2 DEF Listed, Panel, Observes
  <2> QED BY <2>1, <2>3, SettledHasData DEF Rows, Failed
<1>2. CASE page = "cost"
  <2>1. \/ v = Panel("page", UseCostBreakdown(filter), "loading")
        \/ v = Listed("cost_by_model", UseCostBreakdown(filter))
        \/ v = Listed("cost_over_time", UseCostOverTime(filter))
        \/ v = Panel("page", UseCostBreakdown(filter), "error")
    BY <1>2 DEF View, CostAnalyticsPage
  <2> QED BY <2>1, PanelTells, ListedTells DEF DataAlone
<1>3. CASE page = "benchmarks"
  <2>1. \/ v = Panel("page", UseBenchmarks, "loading")
        \/ v = Section("datasets", UseBenchmarkDatasets)
        \/ v = Section("recent_runs", UseBenchmarks)
    BY <1>3 DEF View, BenchmarksPage, RecentRuns
  <2> QED BY <2>1, PanelTells, SectionTells DEF DataAlone
<1>4. CASE page = "infrastructure"
  <2>1. {UseProviders, UseDeployments} \subseteq Observes(page, filter)
    BY <1>4 DEF Observes
  <2>2. /\ ~Loading(UseProviders) /\ ~Loading(UseDeployments) /\ ~Failed(UseProviders) /\ ~Failed(UseDeployments)
        /\ Rows(UseProviders) = {} /\ Rows(UseDeployments) = {}
        /\ v.key \in {UseProviders, UseDeployments}
    BY <1>4 DEF View, InfrastructurePage, Panel
  <2> QED BY <2>1, <2>2, SettledHasData DEF Rows, Failed
<1>5. CASE page = "deployments"
  <2>1. UseDeployments \in Observes(page, filter)
    BY <1>5 DEF Observes
  <2>2. ~Loading(UseDeployments) /\ ~Failed(UseDeployments) /\ v.key = UseDeployments /\ DeploymentCards = {}
    BY <1>5 DEF View, DeploymentsPage, DeploymentCards, Panel
  <2>3. Rows(UseDeployments) = {}
    BY <2>2 DEF DeploymentCards
  <2> QED BY <2>1, <2>2, <2>3, SettledHasData DEF Rows, Failed
<1>6. CASE page = "deployment"
  <2>1. \/ v = Panel("page", UseDeployments, "loading")
        \/ v = Panel("page", UseDeployments, "rows")
        \/ v = Panel("page", UseDeployments, "not_found")
    BY <1>6 DEF View, DeploymentDetailPage
  <2> QED BY <2>1, PanelTells
<1>7. CASE page = "logs"
  <2>1. v \in OneList("entries", UseLogs(filter)) /\ UseLogs(filter) \in Observes(page, filter)
    BY <1>7 DEF View, LogsPage, LogDetail, Panel, Observes
  <2> QED BY <2>1, ListSaysNothing
<1>8. CASE page = "observability"
  <2>1. v \in OneList("traces", UseTraces(filter)) /\ UseTraces(filter) \in Observes(page, filter)
    BY <1>8 DEF View, ObservabilityPage, TraceDetail, Panel, Observes
  <2> QED BY <2>1, ListSaysNothing
<1>9. CASE page = "providers"
  BY <1>9, ListSaysNothing DEF View, ProvidersPage, Observes
<1>10. CASE page = "routing"
  BY <1>10, ListSaysNothing DEF View, RoutingPage, Observes
<1>11. CASE page = "prompts"
  BY <1>11, ListSaysNothing DEF View, PromptsPage, Observes
<1>12. CASE page = "experiments"
  BY <1>12, ListSaysNothing DEF View, ExperimentsPage, Observes
<1>13. CASE page = "evaluations"
  BY <1>13, ListSaysNothing DEF View, EvaluationsPage, Observes
<1>14. CASE page = "leaderboard"
  BY <1>14, ListSaysNothing DEF View, LeaderboardPage, Observes
<1> QED
  BY <1>1, <1>2, <1>3, <1>4, <1>5, <1>6, <1>7, <1>8, <1>9, <1>10, <1>11, <1>12, <1>13, <1>14
     DEF PagesInv, PageNames

\* Rows that are shown were asked with the filter in their key.
LEMMA RowsAreAsked ==
  ASSUME PagesInv, NEW k \in Observes(page, filter), ByFilter(k), Rows(k) # {}
  PROVE  cache[k].of = filter
<1>1. k[2] = filter
  BY ObservedByFilter DEF PagesInv
<1> QED BY <1>1 DEF PagesInv, CacheTells, QueryTells, Rows

LEMMA RowsAnswerFilter == PagesInv => RowsOfFilter
<1> SUFFICES ASSUME PagesInv, NEW v \in View, v.shows = "rows", ByFilter(v.key)
             PROVE  cache[v.key].of = filter
  BY DEF RowsOfFilter, ByFilter
<1>1. CASE page = "logs"
  <2>1. v.key = UseLogs(filter) /\ Rows(UseLogs(filter)) # {} /\ UseLogs(filter) \in Observes(page, filter)
    BY <1>1 DEF View, LogsPage, LogDetail, OneList, Section, Listed, Panel, Observes
  <2> QED BY <2>1, RowsAreAsked
<1>2. CASE page = "observability"
  <2>1. v.key = UseTraces(filter) /\ Rows(UseTraces(filter)) # {} /\ UseTraces(filter) \in Observes(page, filter)
    BY <1>2 DEF View, ObservabilityPage, TraceDetail, OneList, Section, Listed, Panel, Observes
  <2> QED BY <2>1, RowsAreAsked
<1>3. CASE page = "cost"
  <2>1. \E k \in {UseCostBreakdown(filter), UseCostOverTime(filter)} : v.key = k /\ Rows(k) # {}
    <3>1. \/ v = Panel("page", UseCostBreakdown(filter), "loading")
          \/ v = Listed("cost_by_model", UseCostBreakdown(filter))
          \/ v = Listed("cost_over_time", UseCostOverTime(filter))
          \/ v = Panel("page", UseCostBreakdown(filter), "error")
      BY <1>3 DEF View, CostAnalyticsPage
    <3> QED BY <3>1, PanelTells, ListedTells
  <2>2. {UseCostBreakdown(filter), UseCostOverTime(filter)} \subseteq Observes(page, filter)
    BY <1>3 DEF Observes
  <2> QED BY <2>1, <2>2, RowsAreAsked
<1> USE DEF ByFilter, Key
<1>4. CASE page = "dashboard"
  <2>1. v.key \in {UseDashboard, UseDashboardTimeseries}
    BY <1>4, PanelTells, ListedTells DEF View, DashboardPage, DashboardPanels
  <2> QED BY <2>1 DEF UseDashboard, UseDashboardTimeseries
<1>5. CASE page = "benchmarks"
  <2>1. v.key \in {UseBenchmarks, UseBenchmarkDatasets}
    BY <1>5, PanelTells, SectionTells DEF View, BenchmarksPage, RecentRuns
  <2> QED BY <2>1 DEF UseBenchmarks, UseBenchmarkDatasets
<1>6. CASE page = "infrastructure"
  BY <1>6 DEF View, InfrastructurePage, Panel, UseProviders, UseDeployments
<1>7. CASE page = "deployments"
  BY <1>7 DEF View, DeploymentsPage, DeploymentCards, Panel, UseDeployments
<1>8. CASE page = "deployment"
  <2>1. v.key = UseDeployments
    BY <1>8, PanelTells DEF View, DeploymentDetailPage
  <2> QED BY <2>1 DEF UseDeployments
<1> USE DEF OneList, Section, Listed, Panel
<1>9. CASE page = "providers"
  BY <1>9 DEF View, ProvidersPage, UseProviders
<1>10. CASE page = "routing"
  BY <1>10 DEF View, RoutingPage, UsePolicies
<1>11. CASE page = "prompts"
  BY <1>11 DEF View, PromptsPage, UsePrompts
<1>12. CASE page = "experiments"
  BY <1>12 DEF View, ExperimentsPage, UseExperiments
<1>13. CASE page = "evaluations"
  BY <1>13 DEF View, EvaluationsPage, UseEvaluations
<1>14. CASE page = "leaderboard"
  BY <1>14 DEF View, LeaderboardPage, UseEvaluations
<1> QED
  BY <1>1, <1>2, <1>3, <1>4, <1>5, <1>6, <1>7, <1>8, <1>9, <1>10, <1>11, <1>12, <1>13, <1>14
     DEF PagesInv, PageNames

\* A page says that there is nothing only of an empty answer, and its rows are those
\* of the filter it shows, whatever is stored and in whichever order its queries are
\* answered, fail and are asked again (the hooks of hooks/ and the pages that use them).
THEOREM ConsolePagesTellData == ConsoleSpec => []PagesTellData
<1>1. ConsoleInit => PagesInv
  BY PagesInitInv DEF ConsoleInit
<1>2. PagesInv /\ [ConsoleNext]_consoleVars => PagesInv'
  BY PagesStep DEF ConsoleNext, consoleVars
<1>3. PagesInv => PagesTellData
  BY NothingIsEmpty, RowsAnswerFilter DEF PagesTellData
<1> QED BY <1>1, <1>2, <1>3, PTL DEF ConsoleSpec

-----------------------------------------------------------------------------
(* What a page deletes.                                                        *)

\* A row whose deletion was confirmed is gone from the server, and from the list
\* that is shown unless it is being fetched again or in error; what a fetch
\* brings was read after the deletion.
RemovalInv ==
    /\ page \notin {"routing", "prompts"} => removing.stage = "idle" /\ removed = {}
    /\ page \in {"routing", "prompts"} => filter = "all" /\ DOMAIN cache = {ListKey}
    /\ removing \in [id : Ids \cup {NoId}, stage : {"idle", "sent", "done", "refetch"}]
    /\ removed \cap stored = {}
    /\ removing.stage = "done" => removing.id \notin stored
    /\ \A k \in DOMAIN cache :
         /\ removing.stage # "refetch" => cache[k].failed \/ cache[k].data \cap removed = {}
         /\ cache[k].fetch.stage = "answered" => cache[k].fetch.got \cap removed = {}

LEMMA OneKey ==
  ASSUME page \in {"routing", "prompts"}
  PROVE  Observes(page, filter) = {ListKey}
<1>1. \E k : Observes(page, filter) = {k}
  BY DEF Observes
<1> QED BY <1>1 DEF ListKey

LEMMA RemovalInitInv == PagesInit => RemovalInv
<1> SUFFICES ASSUME PagesInit
             PROVE  RemovalInv
  OBVIOUS
<1>1. /\ page \in PageNames /\ filter = FirstFilter(page)
      /\ cache = [k \in Observes(page, filter) |-> Fresh(filter)]
      /\ removing = [id |-> NoId, stage |-> "idle"] /\ removed = {}
  BY DEF PagesInit
<1>2. page \in {"routing", "prompts"} => filter = "all" /\ DOMAIN cache = {ListKey}
  BY <1>1, OneKey DEF FirstFilter
<1>3. \A k \in DOMAIN cache : cache[k].fetch.stage = "asked"
  BY <1>1 DEF Fresh, Ask
<1> QED BY <1>1, <1>2, <1>3 DEF RemovalInv

LEMMA RemovalStep == PagesInv /\ RemovalInv /\ [PagesNext]_pagesVars => RemovalInv'
<1> SUFFICES ASSUME PagesInv, RemovalInv, [PagesNext]_pagesVars
             PROVE  RemovalInv'
  OBVIOUS
<1>0. \A k \in DOMAIN cache : cache[k] \in Query
  BY DEF PagesInv, CacheTells
<1>15. ASSUME UNCHANGED <<page, filter>>, DOMAIN cache' = DOMAIN cache
      PROVE  /\ ListKey' = ListKey
             /\ page' \in {"routing", "prompts"} => filter' = "all" /\ DOMAIN cache' = {ListKey'}
  BY <1>15 DEF RemovalInv, ListKey
<1>1. ASSUME NEW f \in Filters(page), SetFilter(f) PROVE RemovalInv'
  <2>1. page \notin {"routing", "prompts"}
    BY <1>1 DEF SetFilter, RemovalInv, Filters
  <2>2. UNCHANGED <<page, stored, removing, removed>> /\ removed = {} /\ removing.stage = "idle"
    BY <1>1, <2>1 DEF SetFilter, RemovalInv
  <2> QED BY <2>1, <2>2 DEF RemovalInv
<1>2. ASSUME NEW k \in DOMAIN cache, cache' = [cache EXCEPT ![k] = Asked(@)],
             UNCHANGED <<page, filter, stored>>
      PROVE  /\ DOMAIN cache' = DOMAIN cache
             /\ \A j \in DOMAIN cache' : cache'[j].fetch.stage = "answered" =>
                     j \in DOMAIN cache /\ j # k /\ cache'[j] = cache[j]
             /\ \A j \in DOMAIN cache : cache'[j].data = cache[j].data
             /\ \A j \in DOMAIN cache : cache'[j].failed = IF j = k THEN cache[j].failed /\ cache[j].has ELSE cache[j].failed
  BY <1>0, <1>2 DEF Asked, Ask, Query
<1>3. ASSUME NEW k \in DOMAIN cache, Refetch(k) PROVE RemovalInv'
  <2>1. cache' = [cache EXCEPT ![k] = Asked(@)] /\ UNCHANGED <<page, filter, stored, selected, removing, removed>>
    BY <1>3 DEF Refetch
  <2>2. /\ DOMAIN cache' = DOMAIN cache
        /\ \A j \in DOMAIN cache : cache'[j].fetch.stage = "answered" => cache'[j] = cache[j]
        /\ \A j \in DOMAIN cache : cache'[j].data = cache[j].data
        /\ \A j \in DOMAIN cache : cache[j].failed => cache'[j].failed \/ ~cache[j].has
    BY <2>1, <1>2
  <2>3. \A j \in DOMAIN cache : ~cache[j].has => cache[j].data = {}
    BY DEF PagesInv, CacheTells, QueryTells
  <2>4. \A j \in DOMAIN cache' :
         /\ removing'.stage # "refetch" => cache'[j].failed \/ cache'[j].data \cap removed' = {}
         /\ cache'[j].fetch.stage = "answered" => cache'[j].fetch.got \cap removed' = {}
    BY <2>1, <2>2, <2>3 DEF RemovalInv
  <2> QED BY <2>1, <2>2, <2>4, <1>15 DEF RemovalInv
<1>4. ASSUME NEW k \in DOMAIN cache, AnswerQuery(k) PROVE RemovalInv'
  <2>1. /\ cache' = [cache EXCEPT ![k].fetch = [@ EXCEPT !.stage = "answered", !.got = stored]]
        /\ UNCHANGED <<page, filter, stored, selected, removing, removed>>
    BY <1>4 DEF AnswerQuery
  <2>2. /\ DOMAIN cache' = DOMAIN cache
        /\ \A j \in DOMAIN cache : cache'[j].data = cache[j].data /\ cache'[j].failed = cache[j].failed
        /\ \A j \in DOMAIN cache : cache'[j].fetch.got \in {cache[j].fetch.got, stored}
        /\ \A j \in DOMAIN cache \ {k} : cache'[j] = cache[j]
        /\ cache'[k].fetch.got = stored
    BY <1>0, <2>1 DEF Query, Fetch
  <2> QED BY <2>1, <2>2, <1>15 DEF RemovalInv
<1>5. ASSUME NEW k \in DOMAIN cache, NEW q \in Query, cache' = [cache EXCEPT ![k] = q], q.fetch = Idle,
             q.failed \/ (page \in {"routing", "prompts"} => q.data \cap removed = {}),
             EndsDeletion(k), UNCHANGED <<page, filter, stored, selected, removed>>
      PROVE  RemovalInv'
  <2>1. /\ DOMAIN cache' = DOMAIN cache /\ cache'[k] = q
        /\ \A j \in DOMAIN cache \ {k} : cache'[j] = cache[j]
    BY <1>5
  <2>2. q.fetch.stage = "idle"
    BY <1>5 DEF Idle
  <2>3. CASE page \notin {"routing", "prompts"}
    <3>1. removed' = {} /\ removing' = removing /\ removing.stage = "idle"
      BY <1>5, <2>3 DEF RemovalInv, EndsDeletion
    <3> QED BY <1>5, <2>1, <2>3, <3>1 DEF RemovalInv
  <2>4. CASE page \in {"routing", "prompts"}
    <3>1. k = ListKey /\ DOMAIN cache = {k} /\ filter = "all"
      BY <2>4 DEF RemovalInv
    <3>2. /\ removing' \in [id : Ids \cup {NoId}, stage : {"idle", "sent", "done", "refetch"}]
          /\ removing'.stage = "done" => removing' = removing
          /\ removing'.stage # "refetch"
      BY <1>5, <3>1 DEF RemovalInv, EndsDeletion
    <3>3. DOMAIN cache' = {ListKey'}
      BY <1>5, <2>1, <2>4, <1>15 DEF RemovalInv
    <3>4. q.failed \/ q.data \cap removed' = {}
      BY <1>5, <2>4
    <3> QED BY <1>5, <2>1, <2>2, <2>4, <3>1, <3>2, <3>3, <3>4 DEF RemovalInv
  <2> QED BY <2>3, <2>4
<1>6. ASSUME NEW k \in DOMAIN cache, SettleQuery(k) PROVE RemovalInv'
  <2>1. PICK got \in Answers(k) :
         cache' = [cache EXCEPT ![k] = [has |-> TRUE, data |-> got, of |-> cache[k].fetch.asks,
                                        failed |-> FALSE, fetch |-> Idle]]
    BY <1>6 DEF SettleQuery
  <2> DEFINE q == [has |-> TRUE, data |-> got, of |-> cache[k].fetch.asks, failed |-> FALSE, fetch |-> Idle]
  <2>2. got \in SUBSET Ids
    BY <1>0, <2>1 DEF Answers, Query, Fetch
  <2>3. q \in Query
    BY <1>0, <2>2, FetchIdle DEF Query, Fetch
  <2>4. page \in {"routing", "prompts"} => got \cap removed = {}
    BY <1>6, <2>1 DEF SettleQuery, Deletes, Answers, RemovalInv
  <2>5. /\ cache' = [cache EXCEPT ![k] = q] /\ q.fetch = Idle /\ q.data = got
        /\ EndsDeletion(k) /\ UNCHANGED <<page, filter, stored, selected, removed>>
    BY <1>6, <2>1 DEF SettleQuery
  <2> HIDE DEF q
  <2> QED BY <2>3, <2>4, <2>5, <1>5
<1>7. ASSUME NEW k \in DOMAIN cache, QueryFails(k) PROVE RemovalInv'
  <2> DEFINE q == [cache[k] EXCEPT !.failed = TRUE, !.fetch = Idle]
  <2>1. cache' = [cache EXCEPT ![k] = q]
    BY <1>7 DEF QueryFails
  <2>2. q \in Query /\ q.fetch = Idle /\ q.failed
    BY <1>0, FetchIdle DEF Query
  <2>3. EndsDeletion(k) /\ UNCHANGED <<page, filter, stored, selected, removed>>
    BY <1>7 DEF QueryFails
  <2> HIDE DEF q
  <2> QED BY <2>1, <2>2, <2>3, <1>5
<1>8. ASSUME NEW id \in Ids \cup {NoId}, Select(id) PROVE RemovalInv'
  BY <1>8, <1>15 DEF Select, RemovalInv
<1>9. ASSUME NEW id \in Ids, RemoveRow(id) PROVE RemovalInv'
  BY <1>9, <1>15 DEF RemoveRow, RemovalInv
<1>10. CASE ServerRemoves
  BY <1>10, <1>15 DEF ServerRemoves, RemovalInv
<1>11. CASE RemoveDone
  <2>1. page \in {"routing", "prompts"} /\ DOMAIN cache = {ListKey}
    BY <1>11 DEF RemoveDone, RemovalInv
  <2>2. /\ DOMAIN cache' = DOMAIN cache
        /\ \A j \in DOMAIN cache' : cache'[j].fetch.stage # "answered"
    BY <1>11, <1>2, <2>1 DEF RemoveDone, InvalidateList
  <2>3. removing' = [removing EXCEPT !.stage = "refetch"] /\ removing \in [id : Ids \cup {NoId}, stage : {"idle", "sent", "done", "refetch"}]
    BY <1>11 DEF RemoveDone, RemovalInv
  <2>4. removing' \in [id : Ids \cup {NoId}, stage : {"idle", "sent", "done", "refetch"}] /\ removing'.stage = "refetch"
    BY <2>3
  <2>5. removed' = removed \cup {removing.id} /\ removing.stage = "done" /\ UNCHANGED <<page, filter, stored>>
    BY <1>11 DEF RemoveDone
  <2>6. removed' \cap stored' = {}
    BY <2>5 DEF RemovalInv
  <2> QED BY <2>1, <2>2, <2>4, <2>5, <2>6, <1>15 DEF RemovalInv
<1>12. CASE RemoveFails
  <2>1. /\ removing' = [id |-> NoId, stage |-> "idle"] /\ removing.stage # "refetch"
        /\ UNCHANGED <<page, filter, cache, stored, removed>>
    BY <1>12 DEF RemoveFails
  <2> QED BY <2>1, <1>15 DEF RemovalInv
<1>13. CASE ServerChanges
  BY <1>13, <1>15 DEF ServerChanges, RemovalInv
<1>14. CASE UNCHANGED pagesVars
  BY <1>14, <1>15 DEF pagesVars, RemovalInv
<1> QED
  BY <1>1, <1>3, <1>4, <1>6, <1>7, <1>8, <1>9, <1>10, <1>11, <1>12, <1>13, <1>14 DEF PagesNext

\* Only a row that is listed can be deleted, and the list holds none that was.
LEMMA RowsNotRemoved ==
  ASSUME RemovalInv, NEW id \in Ids, RemoveRow(id)
  PROVE  id \notin removed
<1>1. page \in {"routing", "prompts"} /\ removing.stage = "idle" /\ id \in OnScreen
  BY DEF RemoveRow
<1>2. PICK v \in View : v.shows = "rows" /\ id \in Rows(v.key)
  BY <1>1 DEF OnScreen
<1>3. v.key \in {UsePolicies, UsePrompts} /\ v.key \in Observes(page, filter) /\ ~Failed(v.key)
  BY <1>1, <1>2 DEF View, RoutingPage, PromptsPage, OneList, Section, Listed, Panel, Observes
<1>4. v.key \in DOMAIN cache
  BY <1>1, <1>3, OneKey DEF RemovalInv
<1> QED BY <1>1, <1>2, <1>3, <1>4 DEF RemovalInv, Rows, Failed

LEMMA DeletesOnce ==
  PagesInv /\ RemovalInv /\ [PagesNext]_pagesVars =>
    [removing.stage = "idle" /\ removing'.stage = "sent" => removing'.id \notin removed]_pagesVars
<1> SUFFICES ASSUME PagesInv, RemovalInv, PagesNext, removing.stage = "idle", removing'.stage = "sent"
             PROVE  removing'.id \notin removed
  OBVIOUS
<1>1. \E id \in Ids : RemoveRow(id)
  BY DEF PagesNext, SetFilter, Refetch, AnswerQuery, SettleQuery, QueryFails, EndsDeletion,
     Select,
         ServerRemoves, RemoveDone, RemoveFails, ServerChanges
<1>2. PICK id \in Ids : RemoveRow(id)
  BY <1>1
<1>3. removing'.id = id
  BY <1>2 DEF RemoveRow
<1> QED BY <1>2, <1>3, RowsNotRemoved

-----------------------------------------------------------------------------
(* The loading animations.                                                     *)

OverlayInv ==
    /\ mode \in Modes
    /\ progress \in Nat /\ seed \in Nat

LEMMA OverlayStep == OverlayInv /\ [OverlayNext]_overlayVars => OverlayInv'
<1> SUFFICES ASSUME OverlayInv, [OverlayNext]_overlayVars
             PROVE  OverlayInv'
  OBVIOUS
<1>1. CASE ChangeMode
  BY <1>1 DEF ChangeMode, OverlayInv, Enact, RunPulse, RunFade
<1>2. CASE ResizePlot
  BY <1>2 DEF ResizePlot, OverlayInv, Enact, RunPulse, RunFade
<1>3. CASE Step
  BY <1>3 DEF Step, OverlayInv
<1>4. CASE OverlayDone
  BY <1>4 DEF OverlayDone, OverlayInv
<1>5. CASE RestartTimer
  BY <1>5 DEF RestartTimer, OverlayInv, RunPulse
<1>6. CASE ChangeCallback
  BY <1>6 DEF ChangeCallback, OverlayInv, RunPulse
<1>7. CASE SweepFrame
  BY <1>7 DEF SweepFrame, OverlayInv
<1>8. CASE UNCHANGED overlayVars
  BY <1>8 DEF overlayVars, OverlayInv
<1> QED BY <1>1, <1>2, <1>3, <1>4, <1>5, <1>6, <1>7, <1>8 DEF OverlayNext

LEMMA OverlaySteps ==
  ASSUME OverlayInv, OverlayNext
  PROVE  /\ handed' /\ ~handed /\ ~overlay.reduce =>
              IF IsPulse THEN progress' = IF mode' = "exit" THEN 2 * Half ELSE Half
              ELSE progress' = FadeSteps
         /\ IsPulse /\ mode = "exit" /\ mode' = "exit" /\ Mounted /\ Mounted' => progress' >= progress
         /\ seed' > seed => band' >= BandClear /\ mode = "loop"
<1>1. CASE ChangeMode
  <2>1. ~handed' \/ overlay.reduce
    BY <1>1 DEF ChangeMode, Enact
  <2>2. mode' # mode /\ ~(seed' > seed)
    BY <1>1 DEF ChangeMode, OverlayInv
  <2> QED BY <2>1, <2>2
<1>2. CASE ResizePlot
  <2>1. ~handed' \/ overlay.reduce
    BY <1>2 DEF ResizePlot, Enact
  <2>2. ~(Mounted /\ Mounted')
    BY <1>2 DEF ResizePlot, Mounted
  <2>3. ~(seed' > seed)
    BY <1>2 DEF ResizePlot, OverlayInv
  <2> QED BY <2>1, <2>2, <2>3
<1>3. CASE Step
  BY <1>3 DEF Step, OverlayInv
<1>4. CASE OverlayDone
  BY <1>4 DEF OverlayDone, OverlayInv, Mounted, Modes, EndOf, PulseEnd
<1>5. CASE RestartTimer
  BY <1>5 DEF RestartTimer, OverlayInv, RunPulse
<1>6. CASE ChangeCallback
  BY <1>6 DEF ChangeCallback, OverlayInv, RunPulse
<1>7. CASE SweepFrame
  BY <1>7 DEF SweepFrame, OverlayInv, Rerolls
<1> QED BY <1>1, <1>2, <1>3, <1>4, <1>5, <1>6, <1>7 DEF OverlayNext

\* A shine that pauses has run out, and only the last effect has one.
ShimmerInv ==
    /\ grid \in [shimmer : BOOLEAN, sync : BOOLEAN, loading : BOOLEAN, sized : BOOLEAN]
    /\ effect \in Nat /\ shine \in Nat /\ shine <= Cycle
    /\ \A e \in cancelled : e \in Nat /\ e < effect
    /\ ShinesWhileLoading
    /\ pauses # {} => grid.sync /\ shine = Cycle

LEMMA ShimmerInitInv == ShimmerInit => ShimmerInv
<1> SUFFICES ASSUME ShimmerInit
             PROVE  ShimmerInv
  OBVIOUS
<1>1. grid \in [shimmer : BOOLEAN, sync : BOOLEAN, loading : BOOLEAN, sized : BOOLEAN]
  BY DEF ShimmerInit
<1>2. effect = 0 /\ shine = 0 /\ pauses = {} /\ cancelled = {}
  BY DEF ShimmerInit
<1>3. ShinesWhileLoading
  BY <1>2 DEF ShimmerInit, ShinesWhileLoading
<1> QED BY <1>1, <1>2, <1>3, ShimmerAssumption DEF ShimmerInv

LEMMA RerunShines ==
  ASSUME ShimmerInv, Rerun, grid' \in [shimmer : BOOLEAN, sync : BOOLEAN, loading : BOOLEAN, sized : BOOLEAN]
  PROVE  ShimmerInv'
<1>1. effect' = effect + 1 /\ effect \in Nat
  BY DEF Rerun, ShimmerInv
<1>2. pauses' = {}
  BY DEF Rerun, CleanUp, ShimmerInv, ShinesWhileLoading
<1>3. \A e \in cancelled' : e \in Nat /\ e < effect'
  BY <1>1 DEF Rerun, CleanUp, ShimmerInv
<1>4. shining' = (IF ShimmerEnabled(grid)' THEN {effect'} ELSE {}) /\ shine' \in {0, shine}
  BY DEF Rerun, ShimmerEnabled
<1>5. shine' \in Nat /\ shine' <= Cycle
  BY <1>4, ShimmerAssumption DEF ShimmerInv
<1>6. ShinesWhileLoading'
  BY <1>2, <1>4 DEF ShinesWhileLoading
<1> QED BY <1>1, <1>2, <1>3, <1>5, <1>6 DEF ShimmerInv

LEMMA ShimmerStep == ShimmerInv /\ [ShimmerNext]_shimmerVars => ShimmerInv'
<1> SUFFICES ASSUME ShimmerInv, [ShimmerNext]_shimmerVars
             PROVE  ShimmerInv'
  OBVIOUS
<1>1. CASE ChangeGrid
  <2>1. grid' \in [shimmer : BOOLEAN, sync : BOOLEAN, loading : BOOLEAN, sized : BOOLEAN]
    BY <1>1 DEF ChangeGrid, ShimmerInv
  <2>2. CASE Rerun
    BY <2>1, <2>2, RerunShines
  <2>3. CASE ~Rerun
    <3>1. /\ ShimmerEnabled(grid)' = ShimmerEnabled(grid) /\ grid'.sync = grid.sync
          /\ UNCHANGED <<effect, shining, pauses, cancelled, shine>>
      BY <1>1, <2>3 DEF ChangeGrid, ShimmerEnabled
    <3> QED BY <2>1, <3>1 DEF ShimmerInv, ShinesWhileLoading
  <2> QED BY <2>2, <2>3
<1>2. CASE ChangeSpeed
  BY <1>2, RerunShines DEF ChangeSpeed, ShimmerInv
<1>3. CASE ShineStep
  <2>1. UNCHANGED <<grid, effect, shining, pauses, cancelled>> /\ shine' \in Nat /\ shine' <= Cycle /\ pauses = {}
    BY <1>3, ShimmerAssumption DEF ShineStep, ShimmerInv, ShinesWhileLoading
  <2> QED BY <2>1 DEF ShimmerInv, ShinesWhileLoading, ShimmerEnabled
<1>4. CASE ShineDone
  <2>1. shining = {effect} /\ pauses = {} /\ effect \notin cancelled /\ ShimmerEnabled(grid)
    BY <1>4 DEF ShineDone, ShimmerInv, ShinesWhileLoading
  <2>2. UNCHANGED <<grid, effect, cancelled>>
    BY <1>4 DEF ShineDone
  <2>3. CASE grid.sync
    <3>1. shining' = {} /\ pauses' = {effect} /\ shine' = shine /\ shine = Cycle
      BY <1>4, <2>1, <2>3 DEF ShineDone
    <3> QED BY <2>1, <2>2, <2>3, <3>1 DEF ShimmerInv, ShinesWhileLoading, ShimmerEnabled
  <2>4. CASE ~grid.sync
    <3>1. shining' = shining /\ pauses' = pauses /\ shine' = 0
      BY <1>4, <2>4 DEF ShineDone
    <3> QED BY <2>1, <2>2, <3>1, ShimmerAssumption DEF ShimmerInv, ShinesWhileLoading,
        ShimmerEnabled
  <2> QED BY <2>3, <2>4
<1>5. CASE PauseOver
  <2>1. pauses = {effect} /\ shining = {} /\ effect \notin cancelled /\ ShimmerEnabled(grid)
    BY <1>5 DEF PauseOver, ShimmerInv, ShinesWhileLoading
  <2>2. UNCHANGED <<grid, effect, cancelled>> /\ pauses' = {} /\ shining' = {effect} /\ shine' = 0
    BY <1>5, <2>1 DEF PauseOver
  <2> QED BY <2>1, <2>2, ShimmerAssumption DEF ShimmerInv, ShinesWhileLoading, ShimmerEnabled
<1>6. CASE UNCHANGED shimmerVars
  BY <1>6 DEF shimmerVars, ShimmerInv, ShinesWhileLoading, ShimmerEnabled
<1> QED BY <1>1, <1>2, <1>3, <1>4, <1>5, <1>6 DEF ShimmerNext

LEMMA ShinesToEnd ==
  ASSUME ShimmerInv, ShimmerNext, effect' = effect, shine' < shine
  PROVE  shine = Cycle
<1>1. CASE ChangeGrid
  BY <1>1 DEF ChangeGrid, Rerun, ShimmerInv
<1>2. CASE ChangeSpeed
  BY <1>2 DEF ChangeSpeed, Rerun, ShimmerInv
<1>3. CASE ShineStep
  BY <1>3 DEF ShineStep, ShimmerInv
<1>4. CASE ShineDone
  BY <1>4 DEF ShineDone
<1>5. CASE PauseOver
  BY <1>5 DEF PauseOver, ShimmerInv
<1> QED BY <1>1, <1>2, <1>3, <1>4, <1>5 DEF ShimmerNext

\* What is confirmed once is deleted once, although the list is fetched meanwhile; the
\* loading animation is handed off at its end, goes forward when it leaves, keeps its
\* silhouette within a band, and a shine that is not restarted runs out (the pages that
\* delete, loading-sweep.tsx, line-loading-pulse.tsx, use-grid-shimmer.ts).
THEOREM ConsoleStepsInOrder == ConsoleSpec => StepsInOrder
<1>1. ConsoleInit => PagesInv /\ RemovalInv /\ OverlayInv /\ ShimmerInv
  BY PagesInitInv, RemovalInitInv, ShimmerInitInv DEF ConsoleInit, OverlayInit, OverlayInv,
     Modes
<1>2. PagesInv /\ [ConsoleNext]_consoleVars => PagesInv'
  BY PagesStep DEF ConsoleNext, consoleVars
<1>3. PagesInv /\ RemovalInv /\ [ConsoleNext]_consoleVars => RemovalInv'
  BY RemovalStep DEF ConsoleNext, consoleVars
<1>4. OverlayInv /\ [ConsoleNext]_consoleVars => OverlayInv'
  BY OverlayStep DEF ConsoleNext, consoleVars
<1>5. ShimmerInv /\ [ConsoleNext]_consoleVars => ShimmerInv'
  BY ShimmerStep DEF ConsoleNext, consoleVars
<1>6. PagesInv /\ RemovalInv /\ [ConsoleNext]_consoleVars =>
        [removing.stage = "idle" /\ removing'.stage = "sent" => removing'.id \notin removed]_pagesVars
  BY DeletesOnce DEF ConsoleNext, consoleVars
<1>7. OverlayInv /\ [ConsoleNext]_consoleVars =>
        [handed' /\ ~handed /\ ~overlay.reduce =>
            IF IsPulse THEN progress' = IF mode' = "exit" THEN 2 * Half ELSE Half
            ELSE progress' = FadeSteps]_overlayVars
  BY OverlaySteps DEF ConsoleNext, consoleVars
<1>8. OverlayInv /\ [ConsoleNext]_consoleVars =>
        [IsPulse /\ mode = "exit" /\ mode' = "exit" /\ Mounted /\ Mounted' => progress' >= progress]_overlayVars
  BY OverlaySteps DEF ConsoleNext, consoleVars
<1>9. OverlayInv /\ [ConsoleNext]_consoleVars =>
        [seed' > seed => band' >= BandClear /\ mode = "loop"]_overlayVars
  BY OverlaySteps DEF ConsoleNext, consoleVars
<1>10. ShimmerInv /\ [ConsoleNext]_consoleVars =>
        [effect' = effect /\ shine' < shine => shine = Cycle]_shimmerVars
  BY ShinesToEnd DEF ConsoleNext, consoleVars
<1> QED
  BY <1>1, <1>2, <1>3, <1>4, <1>5, <1>6, <1>7, <1>8, <1>9, <1>10, PTL
     DEF ConsoleSpec, StepsInOrder, DeletedOnce, HandsOffAtEnd, ExitRunsForward, SteadySilhouette, ShineRunsOut

-----------------------------------------------------------------------------
(* The map of the command centre.                                              *)

\* A particle whose id may be ahead of the topology is on the segment that leads
\* to the gateway, and gone with the loop it is in; any other flies to a model
\* that is drawn.
MapInv ==
    /\ particles \subseteq [via : AllIds, seg : 1..4, young : BOOLEAN]
    /\ \A p \in particles :
         /\ p.young => p.seg = 1 /\ drawn # rendered
         /\ ~p.young => p.via \in ProviderNodeIds(drawn)

LEMMA MapInitInv == MapInit => MapInv
  BY DEF MapInit, MapInv

LEMMA MapStep == MapInv /\ [MapNext]_mapVars => MapInv'
<1> SUFFICES ASSUME MapInv, [MapNext]_mapVars
             PROVE  MapInv'
  OBVIOUS
<1>1. CASE FleetChanges
  BY <1>1 DEF FleetChanges, MapInv
<1>2. CASE RenderMap
  BY <1>2 DEF RenderMap, MapInv
<1>3. CASE RunDrawEffect
  BY <1>3 DEF RunDrawEffect, MapInv
<1>4. ASSUME NEW via \in AllIds, SpawnParticle(via) PROVE MapInv'
  <2> DEFINE p == [via |-> via, seg |-> 1, young |-> drawn # rendered]
  <2>1. p \in [via : AllIds, seg : 1..4, young : BOOLEAN] /\ p.via = via /\ p.seg = 1 /\ p.young = (drawn # rendered)
    OBVIOUS
  <2>2. particles' = particles \cup {p} /\ UNCHANGED <<rendered, drawn>> /\ via \in ProviderNodeIds(rendered)
    BY <1>4 DEF SpawnParticle
  <2> HIDE DEF p
  <2> QED BY <2>1, <2>2 DEF MapInv
<1>5. ASSUME NEW p \in particles, AdvanceParticle(p) PROVE MapInv'
  <2>1. p \in [via : AllIds, seg : 1..4, young : BOOLEAN] /\ ~p.young /\ p.via \in ProviderNodeIds(drawn)
    BY <1>5 DEF AdvanceParticle, MapInv
  <2>2. UNCHANGED <<rendered, drawn>>
    BY <1>5 DEF AdvanceParticle
  <2>3. CASE p.seg = Segments
    BY <1>5, <2>2, <2>3 DEF AdvanceParticle, MapInv
  <2>4. CASE p.seg # Segments
    <3> DEFINE q == [p EXCEPT !.seg = p.seg + 1]
    <3>1. q \in [via : AllIds, seg : 1..4, young : BOOLEAN] /\ q.via = p.via /\ ~q.young
      BY <2>1, <2>4 DEF Segments
    <3>2. particles' = (particles \ {p}) \cup {q}
      BY <1>5, <2>4 DEF AdvanceParticle
    <3> HIDE DEF q
    <3> QED BY <2>1, <2>2, <3>1, <3>2 DEF MapInv
  <2> QED BY <2>3, <2>4
<1>6. ASSUME NEW n \in Pointable \cup {NoNode}, HoverNode(n) PROVE MapInv'
  BY <1>6 DEF HoverNode, Redraw, MapInv
<1>7. CASE ClickNode \/ CloseInspector
  BY <1>7 DEF ClickNode, CloseInspector, Redraw, MapInv
<1>8. CASE UNCHANGED mapVars
  BY <1>8 DEF mapVars, MapInv
<1> QED BY <1>1, <1>2, <1>3, <1>4, <1>5, <1>6, <1>7, <1>8 DEF MapNext

\* No edge ends in nothing.
LEMMA EdgesJoinNodes ==
  ASSUME NEW f, NEW e \in Edges(f)
  PROVE  {e.from, e.to} \subseteq NodeIds(f)
<1>1. CASE e \in BackboneEdges
  BY <1>1 DEF BackboneEdges, Edge, NodeIds, Backbone
<1>2. ASSUME NEW m \in ModelNodes(f), e \in ModelEdges(m)
      PROVE  {e.from, e.to} \subseteq NodeIds(f)
  <2>1. m.id \in ProviderNodeIds(f)
    BY DEF ProviderNodeIds
  <2>2. {<<"gateway">>, <<"evaluation">>, <<"database">>, <<"gpu">>} \subseteq NodeIds(f)
    BY DEF NodeIds, Backbone
  <2>3. /\ e.from \in {<<"gateway">>, <<"gpu">>, m.id}
        /\ e.to \in {<<"evaluation">>, <<"database">>, m.id}
    BY <1>2 DEF ModelEdges, Edge
  <2> QED BY <2>1, <2>2, <2>3 DEF NodeIds
<1> QED BY <1>1, <1>2 DEF Edges

\* The way of a particle is made of edges of the topology its model is in.
LEMMA PathOfEdges ==
  ASSUME NEW f, NEW via, NEW seg \in 1..4, seg = 1 \/ via \in ProviderNodeIds(f)
  PROVE  Edge(Path(via)[seg], Path(via)[seg + 1]) \in Edges(f)
<1>1. /\ Path(via)[1] = <<"clients">> /\ Path(via)[2] = <<"gateway">> /\ Path(via)[3] = via
      /\ Path(via)[4] = <<"evaluation">> /\ Path(via)[5] = <<"database">>
  BY DEF Path
<1>2. CASE seg = 1
  BY <1>1, <1>2 DEF Edges, BackboneEdges
<1>3. CASE seg = 4
  BY <1>1, <1>3 DEF Edges, BackboneEdges
<1>4. CASE seg \in {2, 3}
  <2>1. PICK m \in ModelNodes(f) : m.id = via
    BY <1>4 DEF ProviderNodeIds
  <2>2. {Edge(<<"gateway">>, via), Edge(via, <<"evaluation">>)} \subseteq ModelEdges(m)
    BY <2>1 DEF ModelEdges
  <2>3. ModelEdges(m) \subseteq Edges(f)
    BY <2>1 DEF Edges
  <2>4. CASE seg = 2
    BY <1>1, <2>2, <2>3, <2>4
  <2>5. CASE seg = 3
    BY <1>1, <2>2, <2>3, <2>5
  <2> QED BY <1>4, <2>4, <2>5
<1> QED BY <1>2, <1>3, <1>4

LEMMA MapOfEdges == MapInv => ParticlesOnMap /\ ParticlesFollowEdges
<1> SUFFICES ASSUME MapInv
             PROVE  ParticlesOnMap /\ ParticlesFollowEdges
  OBVIOUS
<1>1. ASSUME NEW p \in particles
      PROVE  Edge(Path(p.via)[p.seg], Path(p.via)[p.seg + 1]) \in Edges(drawn)
  <2>1. p.seg \in 1..4 /\ (p.seg = 1 \/ p.via \in ProviderNodeIds(drawn))
    BY <1>1 DEF MapInv
  <2> QED BY <2>1, PathOfEdges
<1>2. ASSUME NEW p \in particles
      PROVE  {Path(p.via)[p.seg], Path(p.via)[p.seg + 1]} \subseteq NodeIds(drawn)
  <2> DEFINE e == Edge(Path(p.via)[p.seg], Path(p.via)[p.seg + 1])
  <2>1. {e.from, e.to} \subseteq NodeIds(drawn)
    BY <1>1, <1>2, EdgesJoinNodes
  <2> QED BY <2>1 DEF Edge
<1> QED BY <1>1, <1>2, EdgesJoinNodes DEF ParticlesOnMap, ParticlesFollowEdges

LEMMA FocusIsBright == FocusStandsOut
<1> SUFFICES ASSUME NEW e \in Edges(drawn), Focus \in {e.from, e.to}
             PROVE  {e.from, e.to} \subseteq NeighborSet(Focus, drawn)
  BY DEF FocusStandsOut, Dim
<1> QED BY DEF NeighborSet

-----------------------------------------------------------------------------
(* What the command centre says of its traffic.                                *)

LEMMA TwoMembers ==
  ASSUME NEW S, IsFiniteSet(S)
  PROVE  Cardinality(S) > 1 <=> \E a, b \in S : a # b
<1>1. ASSUME NEW a \in S, NEW b \in S, a # b PROVE Cardinality(S) > 1
  <2>1. IsFiniteSet({a, b}) /\ Cardinality({a, b}) = 2
    <3>1. IsFiniteSet({a}) /\ Cardinality({a}) = 1
      BY FS_Singleton
    <3>2. IsFiniteSet({a} \cup {b}) /\ Cardinality({a} \cup {b}) = Cardinality({a}) + 1
      BY <1>1, <3>1, FS_AddElement
    <3>3. {a} \cup {b} = {a, b}
      OBVIOUS
    <3> QED BY <3>1, <3>2, <3>3
  <2>2. Cardinality({a, b}) <= Cardinality(S) /\ Cardinality(S) \in Nat
    BY <1>1, FS_Subset, FS_CardinalityType
  <2> QED BY <2>1, <2>2
<1>2. ASSUME Cardinality(S) > 1 PROVE \E a, b \in S : a # b
  <2>1. PICK a \in S : TRUE
    BY <1>2, FS_EmptySet
  <2>2. S # {a}
    BY <1>2, FS_Singleton
  <2> QED BY <2>1, <2>2
<1> QED BY <1>1, <1>2

\* Two requests have completed within so many half seconds.
BusyIn(ages, within) == \E a, b \in ages : a # b /\ a < within /\ b < within

\* What the counter held when it last counted, and what the toolbar read of it, have
\* aged since, but not so far that they are forgotten.
TrafficInv ==
    /\ clock \in 0..5
    /\ arrived \subseteq Nat /\ IsFiniteSet(arrived) /\ realTimes \subseteq arrived
    /\ simulatedRef \in BOOLEAN
    /\ ~simulatedRef => BusyIn(arrived, Window + (clock % TickEvery))
    /\ label = "live" => BusyIn(arrived, Window + 1 + (clock % PollEvery))

LEMMA TrafficInitInv == TrafficInit => TrafficInv
  BY FS_EmptySet DEF TrafficInit, TrafficInv

LEMMA AgedIsFinite ==
  ASSUME NEW S \in SUBSET Nat, IsFiniteSet(S)
  PROVE  IsFiniteSet(Aged(S)) /\ Aged(S) \subseteq Nat
<1>1. IsFiniteSet({b \in S : b < Horizon})
  BY FS_Subset
<1> DEFINE Young == {b \in S : b < Horizon}
           older == [a \in Young |-> a + 1]
<1>3. older \in Surjection(Young, Aged(S))
  BY Zenon DEF Aged, Surjection
<1>2. IsFiniteSet(Aged(S))
  BY <1>1, <1>3, FS_Surjection
<1> QED BY <1>2 DEF Aged

\* What is young enough is still there half a second later, as old as that.
LEMMA BusyAges ==
  ASSUME NEW S \in SUBSET Nat, NEW n \in Nat, n <= Horizon, BusyIn(S, n)
  PROVE  BusyIn(Aged(S), n + 1)
<1>1. PICK a, b \in S : a # b /\ a < n /\ b < n
  BY DEF BusyIn
<1>2. a + 1 \in Aged(S) /\ b + 1 \in Aged(S)
  BY <1>1 DEF Aged, Horizon, Window, TickEvery, PollEvery
<1>3. a + 1 # b + 1 /\ a + 1 < n + 1 /\ b + 1 < n + 1
  BY <1>1
<1> QED BY <1>2, <1>3 DEF BusyIn

LEMMA BusyGrows ==
  ASSUME NEW S \in SUBSET Nat, NEW T \in SUBSET Nat, S \subseteq T,
         NEW m \in Nat, NEW n \in Nat, m <= n, BusyIn(S, m)
  PROVE  BusyIn(T, n)
BY DEF BusyIn

\* The tick that finds two requests finds them within the window.
LEMMA TickIsBusy ==
  ASSUME NEW S \in SUBSET Nat, IsFiniteSet(S), ~Simulates(Recent(S))
  PROVE  BusyIn(S, Window)
<1>1. IsFiniteSet(Recent(S))
  BY FS_Subset DEF Recent
<1>2. \E a, b \in Recent(S) : a # b
  BY <1>1, TwoMembers DEF Simulates
<1> QED BY <1>2 DEF Recent, BusyIn

LEMMA TrafficStep == TrafficInv /\ [TrafficNext]_trafficVars => TrafficInv'
<1> SUFFICES ASSUME TrafficInv, [TrafficNext]_trafficVars
             PROVE  TrafficInv'
  OBVIOUS
<1>1. CASE RequestEvent
  <2>1. /\ arrived' = arrived \cup {0} /\ realTimes' = realTimes \cup {0}
        /\ UNCHANGED <<clock, simulatedRef, connectedNow, label>>
    BY <1>1 DEF RequestEvent
  <2>2. IsFiniteSet(arrived')
    BY <2>1, FS_AddElement DEF TrafficInv
  <2>3. \A n : BusyIn(arrived, n) => BusyIn(arrived', n)
    BY <2>1 DEF BusyIn
  <2>4. ~simulatedRef' => BusyIn(arrived', Window + (clock' % TickEvery))
    BY <2>1, <2>3 DEF TrafficInv
  <2>5. label' = "live" => BusyIn(arrived', Window + 1 + (clock' % PollEvery))
    BY <2>1, <2>3 DEF TrafficInv
  <2>6. /\ clock' \in 0..5 /\ simulatedRef' \in BOOLEAN
        /\ arrived' \subseteq Nat /\ realTimes' \subseteq arrived'
    BY <2>1 DEF TrafficInv
  <2> QED BY <2>2, <2>4, <2>5, <2>6 DEF TrafficInv
<1>2. CASE ConnectionChanges
  BY <1>2 DEF ConnectionChanges, TrafficInv, BusyIn
<1>3. CASE TimePasses
  <2> DEFINE aged == Aged(realTimes)
  <2>1. /\ clock' = (clock + 1) % 6 /\ arrived' = Aged(arrived)
        /\ realTimes' = IF clock' % TickEvery = 0 THEN Recent(aged) ELSE aged
        /\ simulatedRef' = IF clock' % TickEvery = 0 THEN Simulates(Recent(aged)) ELSE simulatedRef
        /\ label' = IF clock' % PollEvery = 0 THEN Label(connectedNow, simulatedRef') ELSE label
    BY <1>3 DEF TimePasses, TickEvery, PollEvery
  <2>2. clock \in 0..5 /\ arrived \in SUBSET Nat /\ IsFiniteSet(arrived) /\ realTimes \subseteq arrived
    BY DEF TrafficInv
  <2>3. /\ clock' \in 0..5 /\ clock' % TickEvery \in 0..1 /\ clock' % PollEvery \in 0..2
        /\ clock % TickEvery \in 0..1 /\ clock % PollEvery \in 0..2
        /\ clock' % TickEvery # 0 => clock % TickEvery = 0 /\ clock' % TickEvery = 1
        /\ clock' % PollEvery # 0 => clock' % PollEvery = (clock % PollEvery) + 1
    <3>1. clock = 0 \/ clock = 1 \/ clock = 2 \/ clock = 3 \/ clock = 4 \/ clock = 5
      BY <2>2
    <3>2. CASE clock = 0 BY <2>1, <3>2 DEF TickEvery, PollEvery
    <3>3. CASE clock = 1 BY <2>1, <3>3 DEF TickEvery, PollEvery
    <3>4. CASE clock = 2 BY <2>1, <3>4 DEF TickEvery, PollEvery
    <3>5. CASE clock = 3 BY <2>1, <3>5 DEF TickEvery, PollEvery
    <3>6. CASE clock = 4 BY <2>1, <3>6 DEF TickEvery, PollEvery
    <3>7. CASE clock = 5 BY <2>1, <3>7 DEF TickEvery, PollEvery
    <3> QED BY <3>1, <3>2, <3>3, <3>4, <3>5, <3>6, <3>7
  <2>4. IsFiniteSet(arrived') /\ arrived' \in SUBSET Nat
    BY <2>1, <2>2, AgedIsFinite
  <2>5. aged \subseteq arrived'
    BY <2>1, <2>2 DEF Aged
  <2>6. Recent(aged) \subseteq aged
    BY DEF Recent
  <2>7. simulatedRef' \in BOOLEAN
    BY <2>1 DEF TrafficInv, Simulates
  <2>8. ASSUME ~simulatedRef' PROVE BusyIn(arrived', Window + (clock' % TickEvery))
    <3>1. CASE clock' % TickEvery = 0
      <4>1. IsFiniteSet(aged) /\ aged \in SUBSET Nat
        BY <2>4, <2>5, FS_Subset
      <4>2. ~Simulates(Recent(aged))
        BY <2>1, <2>8, <3>1
      <4>3. BusyIn(aged, Window)
        BY <4>1, <4>2, TickIsBusy
      <4>4. Window \in Nat /\ Window + 0 \in Nat /\ Window <= Window + 0
        BY DEF Window
      <4>5. BusyIn(arrived', Window + 0)
        BY <4>1, <4>3, <4>4, <2>4, <2>5, BusyGrows
      <4> QED BY <4>5, <3>1
    <3>2. CASE clock' % TickEvery # 0
      <4>1. ~simulatedRef /\ clock % TickEvery = 0 /\ clock' % TickEvery = 1
        BY <2>1, <2>3, <2>8, <3>2
      <4>2. BusyIn(arrived, Window + (clock % TickEvery))
        BY <4>1 DEF TrafficInv
      <4>3. Window + (clock % TickEvery) = Window /\ Window \in Nat /\ Window <= Horizon
        BY <4>1 DEF Window, Horizon, TickEvery, PollEvery
      <4>4. BusyIn(Aged(arrived), Window + 1)
        BY <2>2, <4>2, <4>3, BusyAges
      <4> QED BY <2>1, <4>1, <4>4
    <3> QED BY <3>1, <3>2
  <2>9. ASSUME label' = "live" PROVE BusyIn(arrived', Window + 1 + (clock' % PollEvery))
    <3>1. CASE clock' % PollEvery = 0
      <4>1. ~simulatedRef'
        BY <2>1, <2>9, <3>1 DEF Label
      <4>2. BusyIn(arrived', Window + (clock' % TickEvery))
        BY <4>1, <2>8
      <4>3. /\ Window + (clock' % TickEvery) \in Nat /\ Window + 1 + (clock' % PollEvery) \in Nat
            /\ Window + (clock' % TickEvery) <= Window + 1 + (clock' % PollEvery)
        BY <2>3, <3>1 DEF Window
      <4> QED BY <4>2, <4>3, <2>4, BusyGrows
    <3>2. CASE clock' % PollEvery # 0
      <4>1. label = "live"
        BY <2>1, <2>9, <3>2
      <4>2. BusyIn(arrived, Window + 1 + (clock % PollEvery))
        BY <4>1 DEF TrafficInv
      <4>3. /\ Window + 1 + (clock % PollEvery) \in Nat
            /\ Window + 1 + (clock % PollEvery) <= Horizon
            /\ Window + 1 + (clock % PollEvery) + 1 = Window + 1 + (clock' % PollEvery)
        <5>1. Window = 10 /\ Horizon = 15
          BY DEF Window, Horizon, TickEvery, PollEvery
        <5>2. clock % PollEvery \in 0..1 /\ clock' % PollEvery = (clock % PollEvery) + 1
          BY <2>3, <3>2
        <5> QED BY <5>1, <5>2
      <4>4. BusyIn(Aged(arrived), Window + 1 + (clock % PollEvery) + 1)
        BY <2>2, <4>2, <4>3, BusyAges
      <4> QED BY <2>1, <4>3, <4>4
    <3> QED BY <3>1, <3>2
  <2>10. realTimes' \subseteq arrived'
    BY <2>1, <2>5, <2>6
  <2> QED BY <2>3, <2>4, <2>7, <2>8, <2>9, <2>10 DEF TrafficInv
<1>4. CASE UNCHANGED trafficVars
  BY <1>4 DEF trafficVars, TrafficInv, BusyIn
<1> QED BY <1>1, <1>2, <1>3, <1>4 DEF TrafficNext

LEMMA LiveIsBusy == TrafficInv => LiveMeansTraffic
<1> SUFFICES ASSUME TrafficInv, label = "live"
             PROVE  Cardinality(arrived) >= 2
  BY DEF LiveMeansTraffic
<1>1. Cardinality(arrived) > 1 /\ Cardinality(arrived) \in Nat
  BY TwoMembers, FS_CardinalityType DEF TrafficInv, BusyIn
<1> QED BY <1>1

\* No particle is off the edges of the topology that is drawn, nothing beside the focus
\* is dimmed, and "live" is said only of traffic: for every fleet, although the ids that
\* particles fly to are ahead of the topology by a render (topology.ts, Scene2D.tsx,
\* useLiveTraffic.ts).
THEOREM ConsoleMapTellsFleet == ConsoleSpec => []MapTellsFleet
<1>1. ConsoleInit => MapInv /\ TrafficInv
  BY MapInitInv, TrafficInitInv DEF ConsoleInit
<1>2. MapInv /\ [ConsoleNext]_consoleVars => MapInv'
  BY MapStep DEF ConsoleNext, consoleVars
<1>3. TrafficInv /\ [ConsoleNext]_consoleVars => TrafficInv'
  BY TrafficStep DEF ConsoleNext, consoleVars
<1>4. MapInv /\ TrafficInv => MapTellsFleet
  BY MapOfEdges, FocusIsBright, LiveIsBusy DEF MapTellsFleet
<1> QED BY <1>1, <1>2, <1>3, <1>4, PTL DEF ConsoleSpec

-----------------------------------------------------------------------------
(* The lines of a log.                                                         *)

\* The frames of a stream, the comment first: how many are in its first r tokens, where
\* the first d end, and what is in one.
WholeFrames(r) == IF r < 3 THEN 0 ELSE ((r - 3) \div 4) + 1
EndOfFrame(d) == IF d = 0 THEN 0 ELSE 4 * d - 1
FrameAt(d) == IF d = 1 THEN <<Comment>> ELSE <<d - 1, d - 1>>

\* What splitting finds between the end of frame d and token r.
Parsed(d, r) ==
    [frames |-> [i \in 1..(WholeFrames(r) - d) |-> FrameAt(d + i)],
     rest |-> SubSeq(Body, EndOfFrame(WholeFrames(r)) + 1, r)]

LEMMA BodyTokens ==
  /\ Body \in Seq(Int) /\ Len(Body) = 4 * MaxFrames + 3
  /\ Body[1] = Comment /\ Body[2] = NL /\ Body[3] = NL
  /\ \A d \in 1..MaxFrames :
       Body[4 * d] = d /\ Body[4 * d + 1] = d /\ Body[4 * d + 2] = NL /\ Body[4 * d + 3] = NL
<1> USE LogAssumption
<1> DEFINE n == 4 * MaxFrames  opening == <<Comment, NL, NL>>
           rest == [i \in 1..n |-> FrameOf(((i - 1) \div 4) + 1)[((i - 1) % 4) + 1]]
<1>1. MaxFrames \in Nat \ {0} /\ n \in Nat
  OBVIOUS
<1>2. opening \in Seq(Int) /\ Len(opening) = 3 /\ opening[1] = Comment /\ opening[2] = NL /\ opening[3] = NL
  BY DEF Comment, NL
<1>3. ASSUME NEW d \in Int
      PROVE  FrameOf(d)[1] = d /\ FrameOf(d)[2] = d /\ FrameOf(d)[3] = NL /\ FrameOf(d)[4] = NL
  BY DEF FrameOf
<1>4. \A i \in 1..n : rest[i] \in Int
  <2> SUFFICES ASSUME NEW i \in 1..n
               PROVE  FrameOf(((i - 1) \div 4) + 1)[((i - 1) % 4) + 1] \in Int
    OBVIOUS
  <2> DEFINE d == ((i - 1) \div 4) + 1  j == ((i - 1) % 4) + 1
  <2>1. d \in Int /\ j \in 1..4
    OBVIOUS
  <2> HIDE DEF d, j
  <2>2. FrameOf(d)[j] \in Int
    BY <1>3, <2>1 DEF NL
  <2> QED BY <2>2 DEF d, j
<1>5. rest \in Seq(Int) /\ Len(rest) = n
  <2>1. rest \in [1..n -> Int]
    BY <1>4
  <2> HIDE DEF rest, n
  <2> QED BY <1>1, <2>1, FcnSeq
<1>6. ASSUME NEW d \in 1..MaxFrames, NEW j \in 1..4
      PROVE  4 * d - 4 + j \in 1..n /\ rest[4 * d - 4 + j] = FrameOf(d)[j]
  <2> DEFINE i == 4 * d - 4 + j
  <2>1. i \in 1..n /\ (i - 1) \div 4 = d - 1 /\ (i - 1) % 4 = j - 1
    OBVIOUS
  <2>2. ((i - 1) \div 4) + 1 = d /\ ((i - 1) % 4) + 1 = j
    BY <2>1
  <2> QED BY <2>1, <2>2
<1>7. Body = opening \o rest
  BY DEF Body
<1> HIDE DEF opening, rest, n
<1>8. /\ Body \in Seq(Int) /\ Len(Body) = 3 + n
      /\ \A i \in 1..(3 + n) : Body[i] = IF i <= 3 THEN opening[i] ELSE rest[i - 3]
  <2>1. /\ opening \o rest \in Seq(Int) /\ Len(opening \o rest) = Len(opening) + Len(rest)
        /\ \A i \in 1..(Len(opening) + Len(rest)) :
             (opening \o rest)[i] = IF i <= Len(opening) THEN opening[i] ELSE rest[i - Len(opening)]
    BY <1>2, <1>5, ConcatProperties
  <2> QED BY <1>2, <1>5, <1>7, <2>1
<1>9. ASSUME NEW d \in 1..MaxFrames
      PROVE  Body[4 * d] = d /\ Body[4 * d + 1] = d /\ Body[4 * d + 2] = NL /\ Body[4 * d + 3] = NL
  <2>1. ASSUME NEW j \in 1..4 PROVE Body[4 * d + (j - 1)] = FrameOf(d)[j]
    <3>1. 4 * d - 4 + j \in 1..n /\ rest[4 * d - 4 + j] = FrameOf(d)[j]
      BY <1>6
    <3>2. /\ 4 * d + (j - 1) \in 1..(3 + n) /\ ~(4 * d + (j - 1) <= 3)
          /\ (4 * d + (j - 1)) - 3 = 4 * d - 4 + j
      BY <1>1, <3>1
    <3> QED BY <1>8, <3>1, <3>2
  <2>2. d \in Int /\ 4 * d + (1 - 1) = 4 * d /\ 4 * d + (2 - 1) = 4 * d + 1 /\ 4 * d + (3 - 1) = 4 * d + 2 /\ 4 * d + (4 - 1) = 4 * d + 3
    OBVIOUS
  <2>3. Body[4 * d + (1 - 1)] = FrameOf(d)[1] /\ Body[4 * d + (2 - 1)] = FrameOf(d)[2]
        /\ Body[4 * d + (3 - 1)] = FrameOf(d)[3] /\ Body[4 * d + (4 - 1)] = FrameOf(d)[4]
    BY <2>1
  <2> QED BY <1>3, <2>2, <2>3
<1>10. Body[1] = Comment /\ Body[2] = NL /\ Body[3] = NL
  BY <1>1, <1>2, <1>8
<1>11. Len(Body) = 4 * MaxFrames + 3
  BY <1>1, <1>8 DEF n
<1> QED BY <1>8, <1>9, <1>10, <1>11

LEMMA PartOfBody ==
  ASSUME NEW b \in Nat, NEW r \in Nat, b <= r, r <= Len(Body)
  PROVE  /\ SubSeq(Body, b + 1, r) \in Seq(Int) /\ Len(SubSeq(Body, b + 1, r)) = r - b
         /\ \A i \in 1..(r - b) : SubSeq(Body, b + 1, r)[i] = Body[b + i]
<1>1. \A i \in (b + 1)..r : Body[i] \in Int
  BY BodyTokens, ElementOfSeq
<1>2. /\ SubSeq(Body, b + 1, r) \in Seq(Int)
      /\ Len(SubSeq(Body, b + 1, r)) = IF b + 1 <= r THEN r - (b + 1) + 1 ELSE 0
      /\ \A i \in 1..(r - (b + 1) + 1) : SubSeq(Body, b + 1, r)[i] = Body[b + 1 + i - 1]
  BY <1>1, SubSeqProperties
<1>3. r - (b + 1) + 1 = r - b /\ \A i \in 1..(r - b) : b + 1 + i - 1 = b + i
  OBVIOUS
<1>4. Len(SubSeq(Body, b + 1, r)) = r - b
  BY <1>2
<1> QED BY <1>2, <1>3, <1>4

LEMMA FrameBefore ==
  ASSUME NEW r \in Nat
  PROVE  /\ WholeFrames(r) \in Nat /\ EndOfFrame(WholeFrames(r)) \in Nat
         /\ EndOfFrame(WholeFrames(r)) <= r /\ r < EndOfFrame(WholeFrames(r) + 1)
<1> DEFINE p == (r - 3) \div 4
<1>1. p \in Int /\ 4 * p <= r - 3 /\ r - 3 < 4 * p + 4
  OBVIOUS
<1>2. WholeFrames(r) = IF r < 3 THEN 0 ELSE p + 1
  BY DEF WholeFrames
<1> HIDE DEF p
<1> QED BY <1>1, <1>2 DEF EndOfFrame

LEMMA WholeFramesIs ==
  ASSUME NEW d \in Nat, NEW r \in Nat, EndOfFrame(d) <= r, r < EndOfFrame(d + 1)
  PROVE  WholeFrames(r) = d
<1> DEFINE p == (r - 3) \div 4
<1>1. p \in Int /\ 4 * p <= r - 3 /\ r - 3 < 4 * p + 4
  OBVIOUS
<1>2. WholeFrames(r) = IF r < 3 THEN 0 ELSE p + 1
  BY DEF WholeFrames
<1> HIDE DEF p
<1> QED BY <1>1, <1>2 DEF EndOfFrame

\* A sequence without its last element.
LEMMA FrontIs ==
  ASSUME NEW s \in Seq(Int), NEW k \in Nat, Len(s) = k + 1
  PROVE  Front(s) \in Seq(Int) /\ Len(Front(s)) = k /\ \A i \in 1..k : Front(s)[i] = s[i]
<1>1. (k + 1) - 1 = k /\ 1 \in Int /\ k \in Int
  OBVIOUS
<1>2. Front(s) = SubSeq(s, 1, k)
  BY <1>1 DEF Front
<1>3. \A i \in 1..k : s[i] \in Int
  <2> SUFFICES ASSUME NEW i \in 1..k PROVE s[i] \in Int
    OBVIOUS
  <2>1. i \in 1..Len(s)
    OBVIOUS
  <2> QED BY <2>1, ElementOfSeq
<1>4. /\ SubSeq(s, 1, k) \in Seq(Int) /\ Len(SubSeq(s, 1, k)) = IF 1 <= k THEN k - 1 + 1 ELSE 0
      /\ \A i \in 1..(k - 1 + 1) : SubSeq(s, 1, k)[i] = s[1 + i - 1]
  BY <1>1, <1>3, SubSeqProperties
<1>5. k - 1 + 1 = k /\ \A i \in 1..k : 1 + i - 1 = i
  OBVIOUS
<1>6. Len(SubSeq(s, 1, k)) = k
  BY <1>4, <1>5
<1> QED BY <1>2, <1>4, <1>5, <1>6

\* A token more ends a frame exactly where one ends; otherwise it belongs to the rest.
LEMMA NextToken ==
  ASSUME NEW r \in Nat, r + 1 <= Len(Body), NEW rest,
         rest = SubSeq(Body, EndOfFrame(WholeFrames(r)) + 1, r)
  PROVE  LET d == WholeFrames(r)
             ends == Body[r + 1] = NL /\ rest # <<>> /\ Last(rest) = NL
         IN /\ ends => /\ WholeFrames(r + 1) = d + 1 /\ Front(rest) = FrameAt(d + 1)
                       /\ EndOfFrame(d + 1) = r + 1
            /\ ~ends => WholeFrames(r + 1) = d /\ Append(rest, Body[r + 1]) = SubSeq(Body, EndOfFrame(d) + 1, r + 1)
<1> DEFINE d == WholeFrames(r)  b == EndOfFrame(d)  q == r - b
           ends == Body[r + 1] = NL /\ rest # <<>> /\ Last(rest) = NL
<1>1. d \in Nat /\ b \in Nat /\ b <= r /\ r < EndOfFrame(d + 1)
  BY FrameBefore
<1>2. rest \in Seq(Int) /\ Len(rest) = q /\ \A i \in 1..q : rest[i] = Body[b + i]
  <2>1. r <= Len(Body)
    BY BodyTokens, LogAssumption
  <2> HIDE DEF b
  <2> QED BY <1>1, <2>1, PartOfBody DEF b
<1>3. b = IF d = 0 THEN 0 ELSE 4 * d - 1
  BY DEF EndOfFrame
<1>4. EndOfFrame(d + 1) = 4 * (d + 1) - 1
  BY <1>1 DEF EndOfFrame
<1>5. q \in 0..3 /\ (d = 0 => q \in 0..2)
  <2> HIDE DEF d, b
  <2> QED BY <1>1, <1>3, <1>4
<1>6. d <= MaxFrames
  <2> HIDE DEF d, b
  <2>1. r + 1 <= 4 * MaxFrames + 3 /\ MaxFrames \in Nat
    BY BodyTokens, LogAssumption
  <2> QED BY <1>1, <1>3, <2>1
<1>7. q # 0 => rest # <<>> /\ Last(rest) = Body[r]
  <2> SUFFICES ASSUME q # 0
               PROVE  rest # <<>> /\ Last(rest) = Body[r]
    OBVIOUS
  <2> HIDE DEF d, b
  <2>1. q \in 1..q /\ b + q = r
    BY <1>1, <1>5
  <2> HIDE DEF q
  <2>2. rest # <<>>
    BY <1>2, <1>5, EmptySeq
  <2> QED BY <1>2, <2>1, <2>2 DEF Last
<1>8. q = 0 => rest = <<>>
  <2> HIDE DEF q
  <2> QED BY <1>2, EmptySeq
<1> HIDE DEF d, b
<1>9. r = b + q
  BY <1>1
<1> HIDE DEF q
<1>10. ends <=> r + 1 = EndOfFrame(d + 1)
  <2>1. CASE d = 0
    <3>1. Body[1] = Comment /\ Body[2] = NL /\ Body[3] = NL /\ Comment # NL
      BY BodyTokens DEF Comment, NL
    <3>2. r = q /\ EndOfFrame(d + 1) = 3
      BY <1>3, <1>4, <1>9, <2>1, <1>5
    <3>3. CASE q = 0
      BY <1>8, <3>2, <3>3
    <3>4. CASE q = 1
      BY <1>7, <3>1, <3>2, <3>4
    <3>5. CASE q = 2
      BY <1>7, <3>1, <3>2, <3>5
    <3> QED BY <1>5, <2>1, <3>3, <3>4, <3>5
  <2>2. CASE d # 0
    <3>1. d \in 1..MaxFrames
      BY <1>1, <1>6, <2>2
    <3>2. /\ Body[4 * d] = d /\ Body[4 * d + 1] = d /\ Body[4 * d + 2] = NL /\ Body[4 * d + 3] = NL
      BY <3>1, BodyTokens
    <3>3. d # NL
      BY <3>1, LogAssumption DEF NL
    <3>4. r = (4 * d - 1) + q /\ EndOfFrame(d + 1) = 4 * d + 3
      BY <1>1, <1>3, <1>4, <1>9, <2>2
    <3>5. CASE q = 0
      <4>1. r + 1 = 4 * d /\ r + 1 # EndOfFrame(d + 1)
        BY <1>1, <3>4, <3>5
      <4> QED BY <1>8, <3>5, <4>1
    <3>6. CASE q = 1
      <4>1. r + 1 = 4 * d + 1 /\ r + 1 # EndOfFrame(d + 1)
        BY <1>1, <3>4, <3>6
      <4> QED BY <3>2, <3>3, <4>1
    <3>7. CASE q = 2
      <4>1. r = 4 * d + 1 /\ r + 1 # EndOfFrame(d + 1)
        BY <1>1, <3>4, <3>7
      <4> QED BY <1>7, <3>2, <3>3, <3>7, <4>1
    <3>8. CASE q = 3
      <4>1. r = 4 * d + 2 /\ r + 1 = 4 * d + 3 /\ r + 1 = EndOfFrame(d + 1)
        BY <1>1, <3>4, <3>8
      <4>2. Body[r] = NL /\ Body[r + 1] = NL
        BY <3>2, <4>1
      <4> QED BY <1>7, <3>8, <4>1, <4>2
    <3> QED BY <1>5, <3>5, <3>6, <3>7, <3>8
  <2> QED BY <2>1, <2>2
<1>11. ASSUME ends
       PROVE  WholeFrames(r + 1) = d + 1 /\ Front(rest) = FrameAt(d + 1) /\ EndOfFrame(d + 1) = r + 1
  <2>1. r + 1 = EndOfFrame(d + 1) /\ r + 1 < EndOfFrame((d + 1) + 1) /\ d + 1 \in Nat
    BY <1>1, <1>4, <1>10, <1>11 DEF EndOfFrame
  <2>2. WholeFrames(r + 1) = d + 1
    <3>1. r + 1 \in Nat /\ EndOfFrame(d + 1) <= r + 1
      BY <1>1, <2>1
    <3> QED BY <2>1, <3>1, WholeFramesIs
  <2>3. (d = 0 => q = 2) /\ (d # 0 => q = 3) /\ q \in Int
    <3>1. b + q + 1 = 4 * (d + 1) - 1 /\ q \in Int
      BY <1>4, <1>5, <1>9, <2>1
    <3> QED BY <1>1, <1>3, <3>1
  <2>4. q - 1 \in Nat /\ q = (q - 1) + 1
    BY <2>3
  <2>5. /\ Front(rest) \in Seq(Int) /\ Len(Front(rest)) = q - 1
        /\ \A i \in 1..(q - 1) : Front(rest)[i] = Body[b + i]
    <3>1. /\ Front(rest) \in Seq(Int) /\ Len(Front(rest)) = q - 1
          /\ \A i \in 1..(q - 1) : Front(rest)[i] = rest[i]
      BY <1>2, <2>4, FrontIs
    <3>2. \A i \in 1..(q - 1) : i \in 1..q
      BY <2>4
    <3> QED BY <1>2, <3>1, <3>2
  <2>6. Front(rest) = FrameAt(d + 1)
    <3>1. CASE d = 0
      <4>1. FrameAt(d + 1) = <<Comment>> /\ <<Comment>> \in Seq(Int)
        BY <3>1 DEF FrameAt, Comment
      <4>2. q - 1 = 1 /\ b + 1 = 1
        BY <1>3, <2>3, <3>1
      <4>3. Front(rest)[1] = Comment
        BY <2>5, <4>2, BodyTokens
      <4>4. \A i \in 1..Len(Front(rest)) : Front(rest)[i] = <<Comment>>[i]
        BY <2>5, <4>2, <4>3
      <4>5. Len(Front(rest)) = Len(<<Comment>>)
        BY <2>5, <4>2
      <4>6. Front(rest) = <<Comment>>
        BY <2>5, <4>1, <4>4, <4>5, SameSeq
      <4> QED BY <4>1, <4>6
    <3>2. CASE d # 0
      <4>1. FrameAt(d + 1) = <<d, d>> /\ <<d, d>> \in Seq(Int)
        BY <1>1, <3>2 DEF FrameAt
      <4>2. q - 1 = 2 /\ b + 1 = 4 * d /\ b + 2 = 4 * d + 1
        BY <1>1, <1>3, <2>3, <3>2
      <4>3. Front(rest)[1] = d /\ Front(rest)[2] = d
        <5>1. d \in 1..MaxFrames
          BY <1>1, <1>6, <3>2
        <5>2. Body[b + 1] = d /\ Body[b + 2] = d
          BY <4>2, <5>1, BodyTokens
        <5> QED BY <2>5, <4>2, <5>2
      <4>4. Len(Front(rest)) = 2 /\ Len(<<d, d>>) = 2
        BY <2>5, <4>2
      <4>5. \A i \in 1..2 : Front(rest)[i] = <<d, d>>[i]
        BY <4>3
      <4>6. Front(rest) = <<d, d>>
        BY <2>5, <4>1, <4>4, <4>5, SameSeq
      <4> QED BY <4>1, <4>6
    <3> QED BY <3>1, <3>2
  <2> QED BY <2>1, <2>2, <2>6
<1>12. ASSUME ~ends
       PROVE  WholeFrames(r + 1) = d /\ Append(rest, Body[r + 1]) = SubSeq(Body, b + 1, r + 1)
  <2>1. b <= r + 1 /\ r + 1 < EndOfFrame(d + 1) /\ r + 1 \in Nat
    BY <1>1, <1>4, <1>10, <1>12
  <2>2. WholeFrames(r + 1) = d
    BY <1>1, <2>1, WholeFramesIs DEF b
  <2>3. /\ SubSeq(Body, b + 1, r + 1) \in Seq(Int) /\ Len(SubSeq(Body, b + 1, r + 1)) = (r + 1) - b
        /\ \A i \in 1..((r + 1) - b) : SubSeq(Body, b + 1, r + 1)[i] = Body[b + i]
    BY <1>1, <2>1, PartOfBody
  <2>4. Body[r + 1] \in Int
    <3>1. r + 1 \in 1..Len(Body)
      BY BodyTokens, LogAssumption
    <3> QED BY <3>1, BodyTokens, ElementOfSeq
  <2>5. /\ Append(rest, Body[r + 1]) \in Seq(Int) /\ Len(Append(rest, Body[r + 1])) = q + 1
        /\ \A i \in 1..q : Append(rest, Body[r + 1])[i] = rest[i]
        /\ Append(rest, Body[r + 1])[q + 1] = Body[r + 1]
    BY <1>2, <2>4, AppendProperties
  <2>6. (r + 1) - b = q + 1 /\ b + (q + 1) = r + 1 /\ q \in Nat
    BY <1>1, <1>5, <1>9
  <2>7. \A i \in 1..(q + 1) : Append(rest, Body[r + 1])[i] = SubSeq(Body, b + 1, r + 1)[i]
    <3> SUFFICES ASSUME NEW i \in 1..(q + 1)
                 PROVE  Append(rest, Body[r + 1])[i] = SubSeq(Body, b + 1, r + 1)[i]
      OBVIOUS
    <3>1. CASE i \in 1..q
      BY <1>2, <2>3, <2>5, <2>6, <3>1
    <3>2. CASE i = q + 1
      BY <2>3, <2>5, <2>6, <3>2
    <3>3. i \in 1..q \/ i = q + 1
      BY <2>6
    <3> QED BY <3>1, <3>2, <3>3
  <2>8. Append(rest, Body[r + 1]) = SubSeq(Body, b + 1, r + 1)
    BY <2>3, <2>5, <2>6, <2>7, SameSeq
  <2> QED BY <2>2, <2>8
<1> QED BY <1>11, <1>12 DEF d, b

-----------------------------------------------------------------------------
\* A token more of what is split.
Token(so, t) ==
    IF t = NL /\ so.rest # <<>> /\ Last(so.rest) = NL
    THEN [frames |-> Append(so.frames, Front(so.rest)), rest |-> <<>>]
    ELSE [frames |-> so.frames, rest |-> Append(so.rest, t)]

\* What has been split of the tokens, one after the other.
Splits(g, tokens) ==
    /\ g = [k \in 0..Len(tokens) |-> g[k]] /\ g[0] = [frames |-> <<>>, rest |-> <<>>]
    /\ \A k \in 1..Len(tokens) : g[k] = Token(g[k - 1], tokens[k])

LEMMA SplitIs ==
  ASSUME NEW tokens, NEW n \in Nat, Len(tokens) = n, NEW g, Splits(g, tokens)
  PROVE  SplitFrames(tokens) = g[n]
<1>0. /\ g = [k \in 0..n |-> g[k]] /\ g[0] = [frames |-> <<>>, rest |-> <<>>]
      /\ \A k \in 1..n : g[k] = Token(g[k - 1], tokens[k])
  BY DEF Splits
<1> DEFINE Of(f, k) == IF k = 0 THEN [frames |-> <<>>, rest |-> <<>>] ELSE Token(f[k - 1], tokens[k])
           f0 == CHOOSE f : f = [k \in 0..n |-> Of(f, k)]
<1>1. SplitFrames(tokens) = f0[n]
  BY DEF SplitFrames, Token
<1>2. g = [k \in 0..n |-> Of(g, k)]
  <2>1. \A k \in 0..n : k = 0 \/ k \in 1..n
    OBVIOUS
  <2>2. \A k \in 0..n : g[k] = Of(g, k)
    <3> HIDE DEF Token
    <3> QED BY <1>0, <2>1
  <2>3. [k \in 0..n |-> g[k]] = [k \in 0..n |-> Of(g, k)]
    <3> HIDE DEF Of
    <3> QED BY <2>2
  <2> HIDE DEF Of
  <2> QED BY <1>0, <2>3
<1>3. f0 = [k \in 0..n |-> Of(f0, k)]
  <2> HIDE DEF Of
  <2> QED BY <1>2
<1> HIDE DEF f0
<1> DEFINE U == {k \in Nat : k <= n => f0[k] = g[k]}
<1>4. \A k \in 0..n : f0[k] = Of(f0, k)
  <2> HIDE DEF Of
  <2>1. \A k \in 0..n : [j \in 0..n |-> Of(f0, j)][k] = Of(f0, k)
    OBVIOUS
  <2> QED BY <1>3, <2>1
<1>5. 0 \in U
  <2>1. 0 \in 0..n
    OBVIOUS
  <2>2. f0[0] = Of(f0, 0)
    BY <1>4, <2>1
  <2> QED BY <1>0, <2>2
<1>6. ASSUME NEW k \in Nat, k \in U PROVE k + 1 \in U
  <2> SUFFICES ASSUME k + 1 <= n
               PROVE  f0[k + 1] = g[k + 1]
    OBVIOUS
  <2>1. k + 1 \in 0..n /\ k + 1 \in 1..n /\ (k + 1) - 1 = k /\ k + 1 # 0 /\ k <= n
    OBVIOUS
  <2>2. f0[k] = g[k]
    BY <1>6, <2>1
  <2>3. f0[k + 1] = Token(f0[k], tokens[k + 1])
    <3>1. f0[k + 1] = Of(f0, k + 1)
      BY <1>4, <2>1
    <3> QED BY <2>1, <3>1
  <2>4. g[k + 1] = Token(g[k], tokens[k + 1])
    BY <1>0, <2>1
  <2> QED BY <2>2, <2>3, <2>4
<1>7. Nat \subseteq U
  <2> HIDE DEF U
  <2> QED BY <1>5, <1>6, NatInduct
<1>8. f0[n] = g[n]
  BY <1>7
<1> QED BY <1>1, <1>8

\* Splitting what follows a frame finds the frames after it, and the rest.
LEMMA SplitParsed ==
  ASSUME NEW d0 \in Nat, NEW r \in Nat, EndOfFrame(d0) <= r, r <= Len(Body)
  PROVE  SplitFrames(SubSeq(Body, EndOfFrame(d0) + 1, r)) = Parsed(d0, r)
<1> DEFINE b == EndOfFrame(d0)  n == r - b  tokens == SubSeq(Body, b + 1, r)
           g == [k \in 0..n |-> Parsed(d0, b + k)]
<1>1. b \in Nat /\ n \in Nat /\ b + n = r /\ b < EndOfFrame(d0 + 1)
  BY DEF EndOfFrame
<1>2. tokens \in Seq(Int) /\ Len(tokens) = n /\ \A i \in 1..n : tokens[i] = Body[b + i]
  <2> HIDE DEF b
  <2> QED BY <1>1, PartOfBody DEF b
<1>3. Parsed(d0, b) = [frames |-> <<>>, rest |-> <<>>]
  <2>1. WholeFrames(b) = d0
    BY <1>1, WholeFramesIs
  <2>2. 1..(d0 - d0) = {}
    OBVIOUS
  <2>3. SubSeq(Body, b + 1, b) = <<>>
    <3> HIDE DEF b
    <3>1. b + 1 \in Int /\ b \in Int /\ b < b + 1
      BY <1>1
    <3> QED BY <3>1, SubSeqEmpty
  <2>4. [i \in 1..(d0 - d0) |-> FrameAt(d0 + i)] = <<>>
    BY <2>2
  <2> QED BY <2>1, <2>3, <2>4 DEF Parsed
<1> HIDE DEF b, n
<1>4. ASSUME NEW k \in 1..n
      PROVE  Parsed(d0, b + k) = Token(Parsed(d0, b + (k - 1)), tokens[k])
  <2> DEFINE p == b + (k - 1)  w == WholeFrames(p)  rest == SubSeq(Body, EndOfFrame(w) + 1, p)
             ends == Body[p + 1] = NL /\ rest # <<>> /\ Last(rest) = NL
             past0 == [i \in 1..(w - d0) |-> FrameAt(d0 + i)]
  <2>1. p \in Nat /\ p + 1 = b + k /\ p + 1 <= Len(Body) /\ b <= p
    <3>1. k \in Int /\ 1 <= k /\ k <= n
      BY <1>1
    <3>2. Len(Body) \in Nat
      BY BodyTokens, LenProperties
    <3> QED BY <1>1, <3>1, <3>2
  <2>2. tokens[k] = Body[p + 1]
    BY <1>2, <2>1
  <2>3. w \in Nat /\ d0 <= w
    <3>1. w \in Nat /\ p < EndOfFrame(w + 1)
      BY <2>1, FrameBefore
    <3> HIDE DEF w, p
    <3>2. EndOfFrame(d0) < EndOfFrame(w + 1)
      BY <1>1, <2>1, <3>1 DEF b, EndOfFrame
    <3> QED BY <3>1, <3>2 DEF EndOfFrame
  <2>4. Parsed(d0, p) = [frames |-> past0, rest |-> rest]
    BY DEF Parsed
  <2>5. Parsed(d0, b + k) = [frames |-> [i \in 1..(WholeFrames(p + 1) - d0) |-> FrameAt(d0 + i)],
                            rest |-> SubSeq(Body, EndOfFrame(WholeFrames(p + 1)) + 1, p + 1)]
    BY <2>1 DEF Parsed
  <2>6. /\ ends => /\ WholeFrames(p + 1) = w + 1 /\ Front(rest) = FrameAt(w + 1)
                   /\ EndOfFrame(w + 1) = p + 1
        /\ ~ends => WholeFrames(p + 1) = w /\ Append(rest, Body[p + 1]) = SubSeq(Body, EndOfFrame(w) + 1, p + 1)
    <3> HIDE DEF p
    <3> QED BY <2>1, NextToken
  <2> HIDE DEF p, w, rest
  <2>7. CASE ends
    <3>1. Append(past0, FrameAt(w + 1)) = [i \in 1..((w + 1) - d0) |-> FrameAt(d0 + i)]
      <4> DEFINE S == {FrameAt(d0 + i) : i \in 1..((w + 1) - d0)}  m == w - d0
                 all == [i \in 1..((w + 1) - d0) |-> FrameAt(d0 + i)]
      <4>1. m \in Nat /\ (w + 1) - d0 = m + 1 /\ d0 + (m + 1) = w + 1
        BY <2>3
      <4> HIDE DEF m
      <4>2. past0 \in [1..m -> S] /\ FrameAt(w + 1) \in S
        <5>1. past0 = [i \in 1..m |-> FrameAt(d0 + i)]
          BY DEF m
        <5>2. \A i \in 1..m : i \in 1..((w + 1) - d0)
          BY <4>1
        <5>3. m + 1 \in 1..((w + 1) - d0)
          BY <4>1
        <5> QED BY <4>1, <5>1, <5>2, <5>3
      <4>3. all \in [1..(m + 1) -> S]
        BY <4>1
      <4>4. past0 \in Seq(S) /\ Len(past0) = m /\ all \in Seq(S) /\ Len(all) = m + 1
        <5>1. m + 1 \in Nat
          BY <4>1
        <5> HIDE DEF S, all, past0
        <5> QED BY <4>1, <4>2, <4>3, <5>1, FcnSeq
      <4>5. /\ Append(past0, FrameAt(w + 1)) \in Seq(S) /\ Len(Append(past0, FrameAt(w + 1))) = m + 1
            /\ \A i \in 1..m : Append(past0, FrameAt(w + 1))[i] = past0[i]
            /\ Append(past0, FrameAt(w + 1))[m + 1] = FrameAt(w + 1)
        <5> HIDE DEF S, all, past0
        <5> QED BY <4>2, <4>4, AppendProperties
      <4>6. \A i \in 1..m : past0[i] = FrameAt(d0 + i)
        BY DEF m
      <4>7. \A i \in 1..(m + 1) : all[i] = FrameAt(d0 + i)
        BY <4>1
      <4> HIDE DEF past0, all, S
      <4>8. \A i \in 1..(m + 1) : Append(past0, FrameAt(w + 1))[i] = all[i]
        <5> SUFFICES ASSUME NEW i \in 1..(m + 1) PROVE Append(past0, FrameAt(w + 1))[i] = all[i]
          OBVIOUS
        <5>1. i \in 1..m \/ i = m + 1
          BY <4>1
        <5> QED BY <4>1, <4>5, <4>6, <4>7, <5>1
      <4>9. Append(past0, FrameAt(w + 1)) = all
        BY <4>4, <4>5, <4>8, SameSeq
      <4> QED BY <4>9 DEF all
    <3>2. SubSeq(Body, EndOfFrame(WholeFrames(p + 1)) + 1, p + 1) = <<>>
      <4>1. EndOfFrame(WholeFrames(p + 1)) = p + 1
        BY <2>6, <2>7
      <4>2. (p + 1) + 1 \in Int /\ p + 1 \in Int /\ p + 1 < (p + 1) + 1
        BY <2>1
      <4>3. SubSeq(Body, (p + 1) + 1, p + 1) = <<>>
        BY <4>2, SubSeqEmpty
      <4> QED BY <4>1, <4>3
    <3>3. Token([frames |-> past0, rest |-> rest], Body[p + 1])
            = [frames |-> Append(past0, Front(rest)), rest |-> <<>>]
      <4> HIDE DEF past0
      <4> QED BY <2>7 DEF Token
    <3>4. WholeFrames(p + 1) = w + 1 /\ Front(rest) = FrameAt(w + 1)
      BY <2>6, <2>7
    <3> HIDE DEF past0, ends
    <3>5. Token(Parsed(d0, p), tokens[k]) = [frames |-> Append(past0, FrameAt(w + 1)), rest |-> <<>>]
      BY <2>2, <2>4, <3>3, <3>4
    <3>6. Parsed(d0, b + k) = [frames |-> Append(past0, FrameAt(w + 1)), rest |-> <<>>]
      BY <2>5, <3>1, <3>2, <3>4
    <3> QED BY <3>5, <3>6 DEF p
  <2>8. CASE ~ends
    <3>1. WholeFrames(p + 1) = w /\ Append(rest, Body[p + 1]) = SubSeq(Body, EndOfFrame(w) + 1, p + 1)
      BY <2>6, <2>8
    <3>2. Token([frames |-> past0, rest |-> rest], Body[p + 1])
            = [frames |-> past0, rest |-> Append(rest, Body[p + 1])]
      <4> HIDE DEF past0
      <4> QED BY <2>8 DEF Token
    <3>3. Parsed(d0, b + k) = [frames |-> past0, rest |-> Append(rest, Body[p + 1])]
      BY <2>5, <3>1
    <3> HIDE DEF past0, ends
    <3>4. Token(Parsed(d0, p), tokens[k]) = Parsed(d0, b + k)
      BY <2>2, <2>4, <3>2, <3>3
    <3> QED BY <3>4 DEF p
  <2> QED BY <2>7, <2>8
<1>5. g = [k \in 0..n |-> g[k]]
  OBVIOUS
<1>6. g[0] = [frames |-> <<>>, rest |-> <<>>]
  <2>1. 0 \in 0..n /\ b + 0 = b
    BY <1>1
  <2>2. g[0] = Parsed(d0, b + 0)
    BY <2>1
  <2> QED BY <1>3, <2>1, <2>2
<1>7. ASSUME NEW k \in 1..n PROVE g[k] = Token(g[k - 1], tokens[k])
  <2>1. k \in 0..n /\ k - 1 \in 0..n
    BY <1>1
  <2>2. g[k] = Parsed(d0, b + k) /\ g[k - 1] = Parsed(d0, b + (k - 1))
    BY <2>1
  <2> QED BY <1>4, <2>2
<1>8. g[n] = Parsed(d0, r)
  <2>1. n \in 0..n
    BY <1>1
  <2>2. g[n] = Parsed(d0, b + n)
    BY <2>1
  <2> QED BY <1>1, <2>2
<1> HIDE DEF g
<1>9. SplitFrames(tokens) = g[n]
  <2> HIDE DEF tokens
  <2>1. \A k \in 1..n : g[k] = Token(g[k - 1], tokens[k])
    BY <1>7
  <2>2. n \in Nat /\ Len(tokens) = n
    BY <1>1, <1>2
  <2> HIDE DEF Token
  <2>3. Splits(g, tokens)
    BY <1>5, <1>6, <2>1, <2>2 DEF Splits
  <2> QED BY <2>2, <2>3, SplitIs
<1> QED BY <1>8, <1>9 DEF b

\* The lines after a of the container, up to b, and how many d frames bring.
LinesFrom(a, b) == [i \in 1..(b - a) |-> <<a + i, a + i>>]
LinesOf(d) == IF d = 0 THEN 0 ELSE d - 1

LEMMA PayloadOfFrame ==
  ASSUME NEW d \in Nat
  PROVE  /\ Payload(FrameAt(1)) = <<>>
         /\ d >= 1 => Payload(FrameAt(d + 1)) = <<d, d>> /\ <<d, d>> # <<>>
<1>1. Payload(FrameAt(1)) = <<>>
  <2>1. FrameAt(1) = <<Comment>> /\ DOMAIN <<Comment>> = 1..1 /\ <<Comment>>[1] = Comment
    BY DEF FrameAt
  <2>2. {i \in DOMAIN <<Comment>> : <<Comment>>[i] \notin {NL, Comment}} = {}
    <3>1. \A i \in 1..1 : i = 1
      OBVIOUS
    <3> QED BY <2>1, <3>1
  <2> QED BY <2>1, <2>2, KeptNone DEF Payload
<1>2. ASSUME d >= 1
      PROVE  Payload(FrameAt(d + 1)) = <<d, d>> /\ <<d, d>> # <<>>
  <2> DEFINE f == <<d, d>>
  <2>1. FrameAt(d + 1) = f
    BY <1>2 DEF FrameAt
  <2>2. f \in Seq(Int) /\ Len(f) = 2 /\ DOMAIN f = 1..2 /\ f[1] = d /\ f[2] = d /\ f # <<>>
    OBVIOUS
  <2>3. \A i \in 1..2 : f[i] = d
    BY <2>2
  <2>4. d \notin {NL, Comment}
    BY <1>2 DEF NL, Comment
  <2>5. {i \in DOMAIN f : f[i] \notin {NL, Comment}} = 1..2
    <3> HIDE DEF f
    <3> QED BY <2>2, <2>3, <2>4
  <2>6. Kept(f, 1..2) = EndFrom(f, 1, 2)
    <3>1. 2 \in Nat /\ 1 \in 1..(2 + 1)
      OBVIOUS
    <3> HIDE DEF f
    <3> QED BY <3>1, KeptTail
  <2>7. EndFrom(f, 1, 2) = f
    <3>1. 2 - 1 + 1 = 2 /\ \A j \in 1..2 : 1 + j - 1 = j
      OBVIOUS
    <3>2. f = [j \in 1..2 |-> f[j]]
      BY <2>2
    <3> HIDE DEF f
    <3> QED BY <3>1, <3>2 DEF EndFrom
  <2> HIDE DEF f
  <2>8. Payload(FrameAt(d + 1)) = f
    BY <2>1, <2>5, <2>6, <2>7 DEF Payload
  <2> QED BY <2>2, <2>8 DEF f
<1> QED BY <1>1, <1>2

LEMMA LinesParsed ==
  ASSUME NEW d \in Nat, NEW r \in Nat, d <= WholeFrames(r)
  PROVE  Incoming(Parsed(d, r).frames) = LinesFrom(LinesOf(d), LinesOf(WholeFrames(r)))
<1> DEFINE w == WholeFrames(r)  m == w - d
           fs == [i \in 1..m |-> FrameAt(d + i)]
           texts == [i \in DOMAIN fs |-> Payload(fs[i])]
           k == IF d = 0 /\ m # 0 THEN 2 ELSE 1
<1>1. w \in Nat
  BY FrameBefore
<1> HIDE DEF w
<1>2. m \in Nat /\ w = d + m
  BY <1>1 DEF w
<1>3. Parsed(d, r).frames = fs
  BY DEF Parsed, w
<1> HIDE DEF m
<1>4. DOMAIN fs = 1..m /\ \A i \in 1..m : fs[i] = FrameAt(d + i)
  OBVIOUS
<1>5. DOMAIN texts = 1..m /\ \A i \in 1..m : texts[i] = Payload(FrameAt(d + i))
  BY <1>4
<1>6. ASSUME NEW i \in 1..m
      PROVE  /\ d + i = 1 => texts[i] = <<>>
             /\ d + i # 1 => texts[i] = <<d + i - 1, d + i - 1>> /\ texts[i] # <<>>
  <2> HIDE DEF texts
  <2>1. texts[i] = Payload(FrameAt(d + i))
    BY <1>5
  <2>2. CASE d + i = 1
    BY <2>1, <2>2, PayloadOfFrame
  <2>3. CASE d + i # 1
    <3> DEFINE e == d + i - 1
    <3>1. e \in Nat /\ e >= 1 /\ e + 1 = d + i
      BY <1>2, <2>3
    <3> HIDE DEF e
    <3>2. Payload(FrameAt(e + 1)) = <<e, e>> /\ <<e, e>> # <<>>
      BY <3>1, PayloadOfFrame
    <3>3. texts[i] = <<e, e>> /\ texts[i] # <<>>
      BY <2>1, <3>1, <3>2
    <3> QED BY <2>3, <3>3 DEF e
  <2> QED BY <2>2, <2>3
<1> HIDE DEF texts
<1>7. k \in 1..(m + 1) /\ d + k - 1 = (IF d = 0 /\ m # 0 THEN 1 ELSE d)
  BY <1>2
<1>8. {i \in DOMAIN fs : texts[i] # <<>>} = k..m
  <2>1. \A i \in 1..m : d + i # 1 <=> i \in k..m
    BY <1>2
  <2>2. \A i \in 1..m : texts[i] # <<>> <=> d + i # 1
    BY <1>6
  <2>3. \A i \in k..m : i \in 1..m
    BY <1>2
  <2> HIDE DEF k, fs
  <2> QED BY <1>4, <2>1, <2>2, <2>3
<1>9. Incoming(fs) = Kept(texts, k..m)
  BY <1>8 DEF Incoming, texts
<1>10. Kept(texts, k..m) = EndFrom(texts, k, m)
  <2>1. k \in 1..(m + 1)
    BY <1>7
  <2> HIDE DEF k
  <2> QED BY <1>2, <2>1, KeptTail
<1>11. LinesOf(w) - LinesOf(d) = m - k + 1 /\ (m # 0 => LinesOf(d) = d + k - 2)
  <2>1. CASE d = 0 /\ m # 0
    BY <1>2, <2>1 DEF LinesOf
  <2>2. CASE d = 0 /\ m = 0
    BY <1>2, <2>2 DEF LinesOf
  <2>3. CASE d # 0
    BY <1>2, <2>3 DEF LinesOf
  <2> QED BY <2>1, <2>2, <2>3
<1>12. ASSUME NEW j \in 1..(m - k + 1)
       PROVE  texts[k + j - 1] = <<LinesOf(d) + j, LinesOf(d) + j>>
  <2>1. k + j - 1 \in 1..m /\ d + (k + j - 1) # 1 /\ d + (k + j - 1) - 1 = (d + k - 2) + j
    BY <1>2
  <2>3. m # 0
    BY <1>2, <2>1
  <2> HIDE DEF k
  <2>2. texts[k + j - 1] = <<d + (k + j - 1) - 1, d + (k + j - 1) - 1>>
    BY <1>6, <2>1
  <2> QED BY <1>11, <2>1, <2>2, <2>3
<1> HIDE DEF k
<1>13. EndFrom(texts, k, m) = [j \in 1..(LinesOf(w) - LinesOf(d)) |-> <<LinesOf(d) + j, LinesOf(d) + j>>]
  BY <1>11, <1>12 DEF EndFrom
<1> QED BY <1>3, <1>9, <1>10, <1>13 DEF LinesFrom, w

LEMMA LinesTyped ==
  ASSUME NEW a \in Nat, NEW b \in Nat, a <= b
  PROVE  /\ LinesFrom(a, b) \in Seq(Seq(1..b)) /\ Len(LinesFrom(a, b)) = b - a
         /\ \A i \in 1..(b - a) : LinesFrom(a, b)[i] = <<a + i, a + i>>
<1> DEFINE m == b - a
<1>1. m \in Nat
  OBVIOUS
<1>2. ASSUME NEW i \in 1..m PROVE <<a + i, a + i>> \in Seq(1..b)
  <2>1. a + i \in 1..b
    OBVIOUS
  <2> QED BY <2>1
<1>3. LinesFrom(a, b) = [i \in 1..m |-> <<a + i, a + i>>]
  BY DEF LinesFrom
<1> HIDE DEF m
<1>4. LinesFrom(a, b) \in [1..m -> Seq(1..b)]
  BY <1>2, <1>3
<1>5. LinesFrom(a, b) \in Seq(Seq(1..b)) /\ Len(LinesFrom(a, b)) = m
  BY <1>1, <1>4, FcnSeq
<1>6. \A i \in 1..m : LinesFrom(a, b)[i] = <<a + i, a + i>>
  BY <1>3
<1> QED BY <1>5, <1>6 DEF m

\* The lines up to b and those after it are those up to c.
LEMMA LinesGoOn ==
  ASSUME NEW a \in Nat, NEW b \in Nat, NEW c \in Nat, a <= b, b <= c
  PROVE  LinesFrom(a, b) \o LinesFrom(b, c) = LinesFrom(a, c)
<1> DEFINE x == LinesFrom(a, b)  y == LinesFrom(b, c)  z == LinesFrom(a, c)  S == Seq(1..c)
<1>1. x \in Seq(Seq(1..b)) /\ Len(x) = b - a /\ \A i \in 1..(b - a) : x[i] = <<a + i, a + i>>
  BY LinesTyped
<1>2. y \in Seq(S) /\ Len(y) = c - b /\ \A i \in 1..(c - b) : y[i] = <<b + i, b + i>>
  BY LinesTyped
<1>3. z \in Seq(S) /\ Len(z) = c - a /\ \A i \in 1..(c - a) : z[i] = <<a + i, a + i>>
  <2>1. a <= c
    OBVIOUS
  <2> QED BY <2>1, LinesTyped
<1> HIDE DEF x, y, z
<1>4. x \in Seq(S)
  <2>1. 1..b \subseteq 1..c
    OBVIOUS
  <2>2. Seq(1..b) \subseteq Seq(1..c)
    BY <2>1
  <2> HIDE DEF S
  <2>3. Seq(1..b) \subseteq S
    BY <2>2 DEF S
  <2>4. Seq(Seq(1..b)) \subseteq Seq(S)
    BY <2>3
  <2> QED BY <1>1, <2>4
<1> HIDE DEF S
<1>5. /\ x \o y \in Seq(S) /\ Len(x \o y) = Len(x) + Len(y)
      /\ \A i \in 1..(Len(x) + Len(y)) : (x \o y)[i] = IF i <= Len(x) THEN x[i] ELSE y[i - Len(x)]
  BY <1>2, <1>4, ConcatProperties
<1>6. Len(x) + Len(y) = c - a
  BY <1>1, <1>2
<1>7. ASSUME NEW i \in 1..(c - a) PROVE (x \o y)[i] = z[i]
  <2>1. CASE i <= b - a
    <3>1. i \in 1..(b - a) /\ i <= Len(x) /\ i \in 1..(Len(x) + Len(y))
      BY <1>1, <1>6, <2>1
    <3> QED BY <1>1, <1>3, <1>5, <3>1
  <2>2. CASE ~(i <= b - a)
    <3>1. i - (b - a) \in 1..(c - b) /\ b + (i - (b - a)) = a + i
      BY <2>2
    <3>2. y[i - (b - a)] = <<a + i, a + i>>
      BY <1>2, <3>1
    <3>3. (x \o y)[i] = y[i - (b - a)]
      BY <1>1, <1>5, <1>6, <2>2
    <3> QED BY <1>3, <3>2, <3>3
  <2> QED BY <2>1, <2>2
<1>8. x \o y = z
  BY <1>3, <1>5, <1>6, <1>7, SameSeq
<1> QED BY <1>8 DEF x, y, z

\* What is kept of a sequence: as many as there may be, the last ones.
LEMMA KeepIs ==
  ASSUME NEW S, NEW s \in Seq(S)
  PROVE  /\ Keep(s) \in Seq(S) /\ Len(Keep(s)) = IF Len(s) > MaxLines THEN MaxLines ELSE Len(s)
         /\ \A i \in 1..Len(Keep(s)) : Keep(s)[i] = s[(Len(s) - Len(Keep(s))) + i]
<1> DEFINE n == Len(s)
<1>1. MaxLines \in Nat \ {0} /\ n \in Nat
  BY LogAssumption, LenProperties
<1>2. CASE n > MaxLines
  <2> DEFINE k == n - MaxLines
  <2>1. k \in Nat /\ k + 1 \in Int /\ n \in Int /\ k + 1 <= n /\ n - (k + 1) + 1 = MaxLines
    BY <1>1, <1>2
  <2>2. Keep(s) = SubSeq(s, k + 1, n)
    BY <1>2 DEF Keep
  <2> HIDE DEF k
  <2>3. \A i \in (k + 1)..n : s[i] \in S
    <3>1. \A i \in (k + 1)..n : i \in 1..n
      BY <2>1
    <3> QED BY <3>1, ElementOfSeq
  <2> HIDE DEF n
  <2>4. /\ SubSeq(s, k + 1, n) \in Seq(S)
        /\ Len(SubSeq(s, k + 1, n)) = IF k + 1 <= n THEN n - (k + 1) + 1 ELSE 0
        /\ \A i \in 1..(n - (k + 1) + 1) : SubSeq(s, k + 1, n)[i] = s[k + 1 + i - 1]
    BY <2>1, <2>3, SubSeqProperties
  <2>5. Keep(s) \in Seq(S) /\ Len(Keep(s)) = MaxLines
    BY <2>1, <2>2, <2>4
  <2>6. ASSUME NEW i \in 1..MaxLines PROVE Keep(s)[i] = s[(n - MaxLines) + i]
    <3>1. k + 1 + i - 1 = (n - MaxLines) + i
      BY <1>1, <2>1 DEF k
    <3> QED BY <2>1, <2>2, <2>4, <3>1
  <2> QED BY <1>2, <2>5, <2>6 DEF n
<1>3. CASE ~(n > MaxLines)
  <2>1. Keep(s) = s
    BY <1>3 DEF Keep
  <2>2. \A i \in 1..n : (n - n) + i = i
    BY <1>1
  <2> QED BY <1>3, <2>1, <2>2
<1> QED BY <1>2, <1>3

LEMMA KeepTwice ==
  ASSUME NEW S, NEW s \in Seq(S), NEW t \in Seq(S)
  PROVE  Keep(Keep(s) \o t) = Keep(s \o t)
<1> DEFINE k == Keep(s)  n == Len(s)  m == Len(t)  c == Len(k)
<1>1. MaxLines \in Nat \ {0} /\ n \in Nat /\ m \in Nat
  BY LogAssumption, LenProperties
<1>2. /\ k \in Seq(S) /\ c = (IF n > MaxLines THEN MaxLines ELSE n)
      /\ \A i \in 1..c : k[i] = s[(n - c) + i]
  BY KeepIs
<1> HIDE DEF k
<1>3. /\ k \o t \in Seq(S) /\ Len(k \o t) = c + m
      /\ \A i \in 1..(c + m) : (k \o t)[i] = IF i <= c THEN k[i] ELSE t[i - c]
  BY <1>2, ConcatProperties
<1>4. /\ s \o t \in Seq(S) /\ Len(s \o t) = n + m
      /\ \A i \in 1..(n + m) : (s \o t)[i] = IF i <= n THEN s[i] ELSE t[i - n]
  BY ConcatProperties
<1> DEFINE u == Keep(k \o t)  v == Keep(s \o t)
<1>5. u \in Seq(S) /\ Len(u) = (IF c + m > MaxLines THEN MaxLines ELSE c + m)
      /\ \A i \in 1..Len(u) : u[i] = (k \o t)[((c + m) - Len(u)) + i]
  BY <1>3, KeepIs
<1>6. v \in Seq(S) /\ Len(v) = (IF n + m > MaxLines THEN MaxLines ELSE n + m)
      /\ \A i \in 1..Len(v) : v[i] = (s \o t)[((n + m) - Len(v)) + i]
  BY <1>4, KeepIs
<1> HIDE DEF u, v, n, m, c
<1> DEFINE l == Len(u)
<1>7. Len(v) = l /\ l \in Nat /\ l <= c + m /\ c <= n /\ c \in Nat
  BY <1>1, <1>2, <1>5, <1>6
<1> HIDE DEF l
<1>8. ASSUME NEW i \in 1..l PROVE u[i] = v[i]
  <2> DEFINE p == ((c + m) - l) + i  q == ((n + m) - l) + i
  <2>1. p \in 1..(c + m) /\ q \in 1..(n + m) /\ q = (n - c) + p /\ p \in Int /\ q \in Int
    BY <1>1, <1>7
  <2>2. u[i] = (k \o t)[p] /\ v[i] = (s \o t)[q]
    BY <1>5, <1>6, <1>7 DEF l
  <2> HIDE DEF p, q
  <2>3. CASE p <= c
    <3>1. q <= n /\ p \in 1..c
      BY <1>1, <1>7, <2>1, <2>3
    <3>2. (k \o t)[p] = k[p] /\ (s \o t)[q] = s[q]
      BY <1>3, <1>4, <2>1, <2>3, <3>1
    <3>3. k[p] = s[q]
      BY <1>2, <2>1, <3>1
    <3> QED BY <2>2, <3>2, <3>3
  <2>4. CASE ~(p <= c)
    <3>1. ~(q <= n) /\ q - n = p - c
      BY <1>1, <1>7, <2>1, <2>4
    <3>2. (k \o t)[p] = t[p - c] /\ (s \o t)[q] = t[q - n]
      BY <1>3, <1>4, <2>1, <2>4, <3>1
    <3> QED BY <2>2, <3>1, <3>2
  <2> QED BY <2>3, <2>4
<1>9. u = v
  BY <1>5, <1>6, <1>7, <1>8, SameSeq DEF l
<1> QED BY <1>9 DEF u, v, k

-----------------------------------------------------------------------------
\* Of the body the first tokens have been read, of those the buffer has what follows
\* the last whole frame, and the lines are those that were there when the stream
\* began, and of its frames since they were cleared.
ReadInv ==
    /\ received = SubSeq(Body, 1, Len(received)) /\ Len(received) \in 0..Len(Body)
    /\ buffer = SubSeq(Body, EndOfFrame(WholeFrames(Len(received))) + 1, Len(received))
    /\ lines \in Seq(Seq(1..MaxFrames)) /\ Len(lines) <= MaxLines
    /\ before \in Seq(Seq(1..MaxFrames)) /\ Len(before) <= MaxLines
    /\ cleared \in 0..Complete
    /\ LinesOfStream

\* One request is in charge; every one that was stopped answers once.
BadgeInv ==
    /\ shown \in BOOLEAN
    /\ connState \in {"connecting", "streaming", "paused", "closed", "error"}
    /\ stream \in {"none", "asked", "reading", "over"}
    /\ streams \in 0..MaxStreams
    /\ aborted \in Nat
    /\ aborted + (IF Pending THEN 1 ELSE 0) <= streams
    /\ BadgeTellsStream

ViewInv ==
    /\ follow \in BOOLEAN /\ atEnd \in BOOLEAN /\ scrolled \in BOOLEAN
    /\ FollowsEnd

LogInv == ReadInv /\ BadgeInv /\ ViewInv

LEMMA WholeLines ==
  ASSUME NEW r \in Nat
  PROVE  LinesOf(WholeFrames(r)) = IF r < 3 THEN 0 ELSE (r - 3) \div 4
<1> DEFINE p == (r - 3) \div 4
<1>1. p \in Int /\ (r >= 3 => p >= 0)
  OBVIOUS
<1> HIDE DEF p
<1>2. WholeFrames(r) = IF r < 3 THEN 0 ELSE p + 1
  BY DEF WholeFrames, p
<1>3. LinesOf(WholeFrames(r)) = IF r < 3 THEN 0 ELSE p
  BY <1>1, <1>2 DEF LinesOf
<1> QED BY <1>3 DEF p

LEMMA MoreFrames ==
  ASSUME NEW r \in Nat, NEW q \in Nat, r <= q, q <= Len(Body)
  PROVE  /\ WholeFrames(r) \in Nat /\ WholeFrames(q) \in Nat /\ WholeFrames(r) <= WholeFrames(q)
         /\ LinesOf(WholeFrames(r)) \in Nat /\ LinesOf(WholeFrames(q)) \in 0..MaxFrames
         /\ LinesOf(WholeFrames(r)) <= LinesOf(WholeFrames(q))
<1> DEFINE x == WholeFrames(r)  y == WholeFrames(q)
<1>1. x \in Nat /\ EndOfFrame(x) <= r /\ r < EndOfFrame(x + 1) /\ y \in Nat /\ EndOfFrame(y) <= q /\ q < EndOfFrame(y + 1)
  BY FrameBefore
<1>2. q <= 4 * MaxFrames + 3 /\ MaxFrames \in Nat
  BY BodyTokens, LogAssumption
<1> HIDE DEF x, y
<1>3. x <= y /\ y <= MaxFrames + 1
  BY <1>1, <1>2 DEF EndOfFrame
<1> QED BY <1>1, <1>2, <1>3 DEF x, y, LinesOf

LEMMA JoinParts ==
  ASSUME NEW b \in Nat, NEW r \in Nat, NEW q \in Nat, b <= r, r <= q, q <= Len(Body)
  PROVE  SubSeq(Body, b + 1, r) \o SubSeq(Body, r + 1, q) = SubSeq(Body, b + 1, q)
<1> DEFINE x == SubSeq(Body, b + 1, r)  y == SubSeq(Body, r + 1, q)  z == SubSeq(Body, b + 1, q)
<1>0. Len(Body) \in Nat /\ r <= Len(Body) /\ b <= q
  BY BodyTokens, LenProperties
<1>1. x \in Seq(Int) /\ Len(x) = r - b /\ \A i \in 1..(r - b) : x[i] = Body[b + i]
  BY <1>0, PartOfBody
<1>2. y \in Seq(Int) /\ Len(y) = q - r /\ \A i \in 1..(q - r) : y[i] = Body[r + i]
  BY <1>0, PartOfBody
<1>3. z \in Seq(Int) /\ Len(z) = q - b /\ \A i \in 1..(q - b) : z[i] = Body[b + i]
  BY <1>0, PartOfBody
<1> HIDE DEF x, y, z
<1>4. /\ x \o y \in Seq(Int) /\ Len(x \o y) = Len(x) + Len(y)
      /\ \A i \in 1..(Len(x) + Len(y)) : (x \o y)[i] = IF i <= Len(x) THEN x[i] ELSE y[i - Len(x)]
  BY <1>1, <1>2, ConcatProperties
<1>5. Len(x) + Len(y) = q - b
  BY <1>1, <1>2
<1>6. ASSUME NEW i \in 1..(q - b) PROVE (x \o y)[i] = z[i]
  <2>1. CASE i <= r - b
    <3>1. i \in 1..(r - b) /\ i <= Len(x) /\ i \in 1..(Len(x) + Len(y))
      BY <1>1, <1>5, <2>1
    <3> QED BY <1>1, <1>3, <1>4, <3>1
  <2>2. CASE ~(i <= r - b)
    <3>1. i - (r - b) \in 1..(q - r) /\ r + (i - (r - b)) = b + i
      BY <2>2
    <3>2. y[i - (r - b)] = Body[b + i]
      BY <1>2, <3>1
    <3>3. (x \o y)[i] = y[i - (r - b)]
      BY <1>1, <1>4, <1>5, <2>2
    <3> QED BY <1>3, <3>2, <3>3
  <2> QED BY <2>1, <2>2
<1>7. x \o y = z
  BY <1>3, <1>4, <1>5, <1>6, SameSeq
<1> QED BY <1>7 DEF x, y, z

LEMMA JoinThree ==
  ASSUME NEW S, NEW s \in Seq(S), NEW x \in Seq(S), NEW y \in Seq(S)
  PROVE  (s \o x) \o y = s \o (x \o y)
<1> DEFINE l == s \o x  r == x \o y  ll == l \o y  rr == s \o r
           k == Len(s)  m == Len(x)  n == Len(y)
<1>1. k \in Nat /\ m \in Nat /\ n \in Nat
  BY LenProperties
<1>2. /\ l \in Seq(S) /\ Len(l) = k + m
      /\ \A i \in 1..(k + m) : l[i] = IF i <= k THEN s[i] ELSE x[i - k]
  BY ConcatProperties
<1>3. /\ r \in Seq(S) /\ Len(r) = m + n
      /\ \A i \in 1..(m + n) : r[i] = IF i <= m THEN x[i] ELSE y[i - m]
  BY ConcatProperties
<1> HIDE DEF l, r
<1>4. /\ ll \in Seq(S) /\ Len(ll) = (k + m) + n
      /\ \A i \in 1..((k + m) + n) : ll[i] = IF i <= k + m THEN l[i] ELSE y[i - (k + m)]
  <2>1. /\ ll \in Seq(S) /\ Len(ll) = Len(l) + Len(y)
        /\ \A i \in 1..(Len(l) + Len(y)) : ll[i] = IF i <= Len(l) THEN l[i] ELSE y[i - Len(l)]
    <3>1. l \in Seq(S)
      BY <1>2
    <3> QED BY <3>1, ConcatProperties
  <2> HIDE DEF ll
  <2>2. Len(l) = k + m
    BY <1>2
  <2> QED BY <2>1, <2>2
<1>5. /\ rr \in Seq(S) /\ Len(rr) = k + (m + n)
      /\ \A i \in 1..(k + (m + n)) : rr[i] = IF i <= k THEN s[i] ELSE r[i - k]
  <2>1. /\ rr \in Seq(S) /\ Len(rr) = Len(s) + Len(r)
        /\ \A i \in 1..(Len(s) + Len(r)) : rr[i] = IF i <= Len(s) THEN s[i] ELSE r[i - Len(s)]
    <3>1. r \in Seq(S)
      BY <1>3
    <3> QED BY <3>1, ConcatProperties
  <2> HIDE DEF rr
  <2>2. Len(r) = m + n
    BY <1>3
  <2> QED BY <2>1, <2>2
<1> HIDE DEF ll, rr, k, m, n
<1>6. ASSUME NEW i \in 1..((k + m) + n) PROVE ll[i] = rr[i]
  <2>1. CASE i <= k
    <3>1. i <= k + m /\ i \in 1..(k + m) /\ i \in 1..(k + (m + n))
      BY <1>1, <2>1
    <3> QED BY <1>2, <1>4, <1>5, <2>1, <3>1
  <2>2. CASE ~(i <= k) /\ i <= k + m
    <3>1. i \in 1..(k + m) /\ i \in 1..(k + (m + n)) /\ i - k \in 1..(m + n) /\ i - k <= m
      BY <1>1, <2>2
    <3>2. ll[i] = x[i - k]
      BY <1>2, <1>4, <2>2, <3>1
    <3>3. rr[i] = x[i - k]
      BY <1>3, <1>5, <2>2, <3>1
    <3> QED BY <3>2, <3>3
  <2>3. CASE ~(i <= k) /\ ~(i <= k + m)
    <3>1. i \in 1..(k + (m + n)) /\ i - k \in 1..(m + n) /\ ~(i - k <= m) /\ (i - k) - m = i - (k + m)
      BY <1>1, <2>3
    <3>2. ll[i] = y[i - (k + m)]
      BY <1>4, <2>3
    <3>3. rr[i] = y[i - (k + m)]
      BY <1>3, <1>5, <2>3, <3>1
    <3> QED BY <3>2, <3>3
  <2> QED BY <2>1, <2>2, <2>3
<1>7. Len(ll) = Len(rr)
  BY <1>1, <1>4, <1>5
<1>8. ll = rr
  BY <1>4, <1>5, <1>6, <1>7, SameSeq
<1> QED BY <1>8 DEF ll, rr, l, r

LEMMA MoreSeqs ==
  ASSUME NEW A, NEW B, A \subseteq B
  PROVE  Seq(A) \subseteq Seq(B)
  OBVIOUS

\* Lines that were kept, and then some of the same stream.
LEMMA LinesKept ==
  ASSUME NEW s \in Seq(Seq(1..MaxFrames)), NEW a \in Nat, NEW b \in Nat, NEW c \in 0..MaxFrames, a <= b, b <= c
  PROVE  /\ Keep(Keep(s \o LinesFrom(a, b)) \o LinesFrom(b, c)) = Keep(s \o LinesFrom(a, c))
         /\ Keep(s \o LinesFrom(a, c)) \in Seq(Seq(1..MaxFrames))
         /\ Len(Keep(s \o LinesFrom(a, c))) <= MaxLines
<1> DEFINE S == Seq(1..MaxFrames)
<1>1. ASSUME NEW d \in Nat, NEW e \in 0..MaxFrames, d <= e PROVE LinesFrom(d, e) \in Seq(S)
  <2>1. e \in Nat /\ MaxFrames \in Nat
    BY LogAssumption
  <2>2. LinesFrom(d, e) \in Seq(Seq(1..e))
    BY <1>1, <2>1, LinesTyped
  <2>3. 1..e \subseteq 1..MaxFrames
    BY <2>1
  <2>4. Seq(1..e) \subseteq S
    BY <2>3, MoreSeqs
  <2> HIDE DEF S
  <2>5. Seq(Seq(1..e)) \subseteq Seq(S)
    BY <2>4
  <2> QED BY <2>2, <2>5
<1>2. c \in Nat /\ b \in 0..MaxFrames /\ a <= c
  BY LogAssumption
<1>3. LinesFrom(a, b) \in Seq(S) /\ LinesFrom(b, c) \in Seq(S) /\ LinesFrom(a, c) \in Seq(S)
  BY <1>1, <1>2
<1>4. LinesFrom(a, b) \o LinesFrom(b, c) = LinesFrom(a, c)
  BY <1>2, LinesGoOn
<1> HIDE DEF S
<1>5. s \in Seq(S)
  BY DEF S
<1>6. s \o LinesFrom(a, b) \in Seq(S) /\ s \o LinesFrom(a, c) \in Seq(S)
  BY <1>3, <1>5, ConcatProperties
<1>7. Keep(Keep(s \o LinesFrom(a, b)) \o LinesFrom(b, c)) = Keep((s \o LinesFrom(a, b)) \o LinesFrom(b, c))
  BY <1>3, <1>6, KeepTwice
<1>8. (s \o LinesFrom(a, b)) \o LinesFrom(b, c) = s \o (LinesFrom(a, b) \o LinesFrom(b, c))
  <2> DEFINE x == LinesFrom(a, b)  y == LinesFrom(b, c)
  <2>1. x \in Seq(S) /\ y \in Seq(S)
    BY <1>3
  <2> HIDE DEF x, y
  <2>2. (s \o x) \o y = s \o (x \o y)
    BY <1>5, <2>1, JoinThree
  <2> QED BY <2>2 DEF x, y
<1>9. Keep(s \o LinesFrom(a, c)) \in Seq(S) /\ Len(Keep(s \o LinesFrom(a, c))) <= MaxLines
  <2>1. MaxLines \in Nat /\ Len(s \o LinesFrom(a, c)) \in Nat
    BY <1>6, LogAssumption, LenProperties
  <2>2. /\ Keep(s \o LinesFrom(a, c)) \in Seq(S)
        /\ Len(Keep(s \o LinesFrom(a, c))) = IF Len(s \o LinesFrom(a, c)) > MaxLines THEN MaxLines ELSE Len(s \o LinesFrom(a, c))
    BY <1>6, KeepIs
  <2> QED BY <2>1, <2>2
<1> QED BY <1>4, <1>7, <1>8, <1>9 DEF S

\* Lines that fit are kept as they are, and no line follows from none.
LEMMA LinesFit ==
  ASSUME NEW s \in Seq(Seq(1..MaxFrames)), Len(s) <= MaxLines, NEW a \in Nat
  PROVE  Keep(s \o LinesFrom(a, a)) = s
<1>1. LinesFrom(a, a) = <<>>
  <2>1. 1..(a - a) = {}
    OBVIOUS
  <2> QED BY <2>1 DEF LinesFrom
<1>2. s \o <<>> = s
  BY ConcatEmptySeq
<1>3. ~(Len(s) > MaxLines)
  <2>1. Len(s) \in Nat /\ MaxLines \in Nat
    BY LenProperties, LogAssumption
  <2> QED BY <2>1
<1> QED BY <1>1, <1>2, <1>3 DEF Keep

LEMMA ReadNothing ==
  /\ SubSeq(Body, 1, 0) = <<>> /\ WholeFrames(0) = 0 /\ EndOfFrame(0) = 0
  /\ SubSeq(Body, EndOfFrame(WholeFrames(0)) + 1, 0) = <<>>
<1>1. SubSeq(Body, 1, 0) = <<>>
  BY SubSeqEmpty
<1>2. WholeFrames(0) = 0 /\ EndOfFrame(0) = 0
  BY DEF WholeFrames, EndOfFrame
<1>3. EndOfFrame(WholeFrames(0)) + 1 = 1
  BY <1>2
<1> QED BY <1>1, <1>2, <1>3

LEMMA LogInitInv == LogInit => LogInv
<1> SUFFICES ASSUME LogInit
             PROVE  LogInv
  OBVIOUS
<1> USE LogAssumption
<1>1. /\ shown = TRUE /\ connState = "connecting" /\ lines = <<>> /\ stream = "asked" /\ streams = 1 /\ aborted = 0
      /\ received = <<>> /\ buffer = <<>> /\ before = <<>> /\ cleared = 0
      /\ follow = TRUE /\ atEnd = TRUE /\ scrolled = FALSE
  BY DEF LogInit
<1>2. ReadInv
  <2>1. Len(received) = 0 /\ 0 \in 0..Len(Body)
    <3>1. Len(Body) \in Nat
      BY BodyTokens, LenProperties
    <3> QED BY <1>1, <3>1
  <2>2. lines \in Seq(Seq(1..MaxFrames)) /\ Len(lines) = 0 /\ 0 <= MaxLines
    BY <1>1
  <2>3. Complete = 0
    BY <2>1 DEF Complete
  <2>4. Keep(lines \o LinesFrom(0, 0)) = lines
    <3>1. Len(lines) <= MaxLines /\ 0 \in Nat
      BY <2>2
    <3>2. lines \in Seq(Seq(1..MaxFrames))
      BY <2>2
    <3> QED BY <3>1, <3>2, LinesFit
  <2>5. LinesOfStream
    BY <1>1, <2>3, <2>4 DEF LinesOfStream, LinesFrom
  <2> QED BY <1>1, <2>1, <2>2, <2>3, <2>5, ReadNothing DEF ReadInv
<1>3. BadgeInv
  BY <1>1 DEF BadgeInv, BadgeTellsStream, Pending
<1>4. ViewInv
  BY <1>1 DEF ViewInv, FollowsEnd
<1> QED BY <1>2, <1>3, <1>4 DEF LogInv

LEMMA ReadKept == ReadInv /\ UNCHANGED <<lines, reading>> => ReadInv'
  BY DEF ReadInv, reading, Complete, LinesOfStream

LEMMA BadgeKept == BadgeInv /\ UNCHANGED <<shown, connState, stream, streams, aborted>> => BadgeInv'
<1> SUFFICES ASSUME BadgeInv, UNCHANGED <<shown, connState, stream, streams, aborted>>
             PROVE  BadgeInv'
  OBVIOUS
<1>1. Pending' <=> Pending
  BY DEF Pending
<1>2. BadgeTellsStream'
  BY DEF BadgeInv, BadgeTellsStream
<1>3. aborted' + (IF Pending' THEN 1 ELSE 0) <= streams'
  BY <1>1 DEF BadgeInv
<1> QED BY <1>2, <1>3 DEF BadgeInv

LEMMA ViewKept == ViewInv /\ UNCHANGED view => ViewInv'
  BY DEF ViewInv, view, FollowsEnd

\* The effect leaves the view where it follows the end, if it follows.
LEMMA ViewFollows ==
  ASSUME ViewInv, NEW changed \in BOOLEAN, FollowEffect(changed), follow' \in BOOLEAN, ~changed => follow' = follow
  PROVE  ViewInv'
<1>1. follow \in BOOLEAN /\ atEnd \in BOOLEAN /\ scrolled \in BOOLEAN /\ (follow => atEnd \/ scrolled)
  BY DEF ViewInv, FollowsEnd
<1>2. CASE ~changed
  BY <1>1, <1>2 DEF FollowEffect, ViewInv, FollowsEnd
<1>3. CASE changed /\ follow'
  <2>1. atEnd' = TRUE /\ scrolled' = (scrolled \/ ~atEnd \/ lines' # lines)
    BY <1>3 DEF FollowEffect
  <2> QED BY <1>3, <2>1 DEF ViewInv, FollowsEnd
<1>4. CASE changed /\ ~follow'
  <2>1. atEnd' = (atEnd /\ lines' = lines) /\ scrolled' = scrolled
    BY <1>4 DEF FollowEffect
  <2> QED BY <1>1, <1>4, <2>1 DEF ViewInv, FollowsEnd
<1> QED BY <1>2, <1>3, <1>4

\* What a chunk adds, wherever it was cut.
LEMMA ChunkStep ==
  ASSUME ReadInv, NEW size \in 1..MaxChunk, ReadChunk(size)
  PROVE  ReadInv'
<1> USE LogAssumption
<1> DEFINE r == Len(received)  q == r + size  chunk == SubSeq(Body, r + 1, r + size)
           w == WholeFrames(r)  b == EndOfFrame(w)  c == LinesOf(w)  d == LinesOf(WholeFrames(q))
           S == Seq(1..MaxFrames)
<1>1. r \in Nat /\ q \in Nat /\ r <= q /\ q <= Len(Body) /\ r <= Len(Body) /\ Len(Body) \in Nat
  <2>1. Len(Body) \in Nat
    BY BodyTokens, LenProperties
  <2>2. r \in 0..Len(Body) /\ size <= Len(Body) - r
    BY DEF ReadInv, ReadChunk
  <2> HIDE DEF r
  <2> QED BY <2>1, <2>2
<1>2. /\ received' = received \o chunk
      /\ buffer' = SplitFrames(buffer \o chunk).rest
      /\ lines' = Keep(lines \o Incoming(SplitFrames(buffer \o chunk).frames))
      /\ before' = before /\ cleared' = cleared
  BY DEF ReadChunk
<1>3. received = SubSeq(Body, 1, r) /\ buffer = SubSeq(Body, b + 1, r)
  BY DEF ReadInv
<1>h. /\ lines = Keep(before \o LinesFrom(cleared, Complete)) /\ cleared \in 0..Complete
      /\ before \in Seq(S) /\ Len(before) <= MaxLines
  BY DEF ReadInv, LinesOfStream, LinesFrom
<1>c. Complete = c
  BY <1>1, WholeLines DEF Complete
<1> HIDE DEF r
<1>4. w \in Nat /\ b \in Nat /\ b <= r
  BY <1>1, FrameBefore
<1>5. /\ w <= WholeFrames(q) /\ c \in Nat /\ d \in 0..MaxFrames /\ c <= d
  <2> HIDE DEF q
  <2> QED BY <1>1, MoreFrames
<1>6. received' = SubSeq(Body, 1, q)
  <2>1. SubSeq(Body, 0 + 1, r) \o SubSeq(Body, r + 1, q) = SubSeq(Body, 0 + 1, q)
    <3>1. 0 \in Nat /\ 0 <= r
      BY <1>1
    <3> HIDE DEF q
    <3> QED BY <1>1, <3>1, JoinParts
  <2>2. 0 + 1 = 1
    OBVIOUS
  <2> QED BY <1>2, <1>3, <2>1, <2>2
<1>7. buffer \o chunk = SubSeq(Body, b + 1, q)
  <2>1. SubSeq(Body, b + 1, r) \o SubSeq(Body, r + 1, q) = SubSeq(Body, b + 1, q)
    <3> HIDE DEF q, b
    <3> QED BY <1>1, <1>4, JoinParts
  <2> QED BY <1>3, <2>1
<1> HIDE DEF chunk, q
<1>8. SplitFrames(buffer \o chunk) = Parsed(w, q)
  <2>1. EndOfFrame(w) <= q
    BY <1>1, <1>4
  <2> HIDE DEF w
  <2>2. SplitFrames(SubSeq(Body, EndOfFrame(w) + 1, q)) = Parsed(w, q)
    BY <1>1, <1>4, <2>1, SplitParsed
  <2> QED BY <1>7, <2>2 DEF b
<1>9. Len(received') = q
  <2>1. SubSeq(Body, 0 + 1, q) \in Seq(Int) /\ Len(SubSeq(Body, 0 + 1, q)) = q - 0
    <3>1. 0 \in Nat /\ 0 <= q
      BY <1>1
    <3> QED BY <1>1, <3>1, PartOfBody
  <2>2. 0 + 1 = 1 /\ q - 0 = q
    BY <1>1
  <2> QED BY <1>6, <2>1, <2>2
<1>10. buffer' = SubSeq(Body, EndOfFrame(WholeFrames(Len(received'))) + 1, Len(received'))
  <2>1. SplitFrames(buffer \o chunk).rest = Parsed(w, q).rest
    BY <1>8
  <2> HIDE DEF w
  <2>2. Parsed(w, q).rest = SubSeq(Body, EndOfFrame(WholeFrames(q)) + 1, q)
    BY DEF Parsed
  <2> QED BY <1>2, <1>9, <2>1, <2>2
<1>11. Incoming(SplitFrames(buffer \o chunk).frames) = LinesFrom(c, d)
  <2> HIDE DEF w
  <2>1. Incoming(Parsed(w, q).frames) = LinesFrom(LinesOf(w), LinesOf(WholeFrames(q)))
    BY <1>1, <1>4, <1>5, LinesParsed
  <2> QED BY <1>8, <2>1 DEF c, d
<1> HIDE DEF w, b, c, d
<1>12. lines' = Keep(Keep(before \o LinesFrom(cleared, c)) \o LinesFrom(c, d))
  BY <1>2, <1>11, <1>h, <1>c
<1>13. cleared \in Nat /\ cleared <= c
  BY <1>5, <1>h, <1>c
<1>14. /\ lines' = Keep(before \o LinesFrom(cleared, d))
       /\ lines' \in Seq(S) /\ Len(lines') <= MaxLines
  BY <1>5, <1>12, <1>13, <1>h, LinesKept
<1>15. Complete' = d
  <2>1. Complete' = IF q < 3 THEN 0 ELSE (q - 3) \div 4
    BY <1>9 DEF Complete
  <2> QED BY <1>1, <2>1, WholeLines DEF d
<1>16. LinesOfStream'
  BY <1>2, <1>14, <1>15 DEF LinesOfStream, LinesFrom
<1>17. cleared' \in 0..Complete'
  BY <1>2, <1>5, <1>13, <1>15
<1>18. Len(received') \in 0..Len(Body) /\ received' = SubSeq(Body, 1, Len(received'))
  BY <1>1, <1>6, <1>9
<1>19. before' \in Seq(S) /\ Len(before') <= MaxLines
  BY <1>2, <1>h
<1> QED BY <1>10, <1>14, <1>16, <1>17, <1>18, <1>19 DEF ReadInv

LEMMA ClearStep ==
  ASSUME ReadInv, ClearLines
  PROVE  ReadInv'
<1> USE LogAssumption
<1> DEFINE r == Len(received)  c == LinesOf(WholeFrames(r))
<1>1. /\ lines' = <<>> /\ before' = <<>> /\ received' = received /\ buffer' = buffer
      /\ cleared' = Len(Incoming(SplitFrames(received).frames))
  BY DEF ClearLines
<1>2. r \in 0..Len(Body) /\ received = SubSeq(Body, 1, r) /\ Len(Body) \in Nat
      /\ buffer = SubSeq(Body, EndOfFrame(WholeFrames(r)) + 1, r)
  BY BodyTokens, LenProperties DEF ReadInv
<1>3. Complete = c
  <2>1. r \in Nat
    BY <1>2
  <2> QED BY <2>1, WholeLines DEF Complete
<1>4. Complete' = Complete
  BY <1>1 DEF Complete
<1> HIDE DEF r
<1>5. r \in Nat /\ r <= Len(Body) /\ r <= r
  BY <1>2
<1>6. WholeFrames(r) \in Nat /\ c \in Nat
  BY <1>5, MoreFrames
<1>7. cleared' = c
  <2>1. SplitFrames(SubSeq(Body, EndOfFrame(0) + 1, r)) = Parsed(0, r)
    <3>1. 0 \in Nat /\ EndOfFrame(0) <= r
      BY <1>5 DEF EndOfFrame
    <3> QED BY <1>5, <3>1, SplitParsed
  <2>2. EndOfFrame(0) + 1 = 1 /\ LinesOf(0) = 0
    BY DEF EndOfFrame, LinesOf
  <2>3. Incoming(Parsed(0, r).frames) = LinesFrom(LinesOf(0), LinesOf(WholeFrames(r)))
    <3>1. 0 \in Nat /\ 0 <= WholeFrames(r)
      BY <1>6
    <3> QED BY <1>5, <3>1, LinesParsed
  <2>4. cleared' = Len(LinesFrom(0, c))
    BY <1>1, <1>2, <2>1, <2>2, <2>3
  <2> HIDE DEF c
  <2>5. Len(LinesFrom(0, c)) = c - 0
    <3>1. 0 \in Nat /\ 0 <= c
      BY <1>6
    <3> QED BY <1>6, <3>1, LinesTyped
  <2> QED BY <1>6, <2>4, <2>5
<1>8. before' \in Seq(Seq(1..MaxFrames)) /\ Len(before') <= MaxLines /\ lines' = before'
  BY <1>1
<1>9. LinesOfStream'
  <2> HIDE DEF c
  <2>1. Keep(before' \o LinesFrom(c, c)) = before'
    BY <1>6, <1>8, LinesFit
  <2> QED BY <1>3, <1>4, <1>7, <1>8, <2>1 DEF LinesOfStream, LinesFrom
<1>10. cleared' \in 0..Complete'
  <2> HIDE DEF c
  <2> QED BY <1>3, <1>4, <1>6, <1>7
<1>11. Len(received') = r
  BY <1>1 DEF r
<1> QED BY <1>1, <1>2, <1>8, <1>9, <1>10, <1>11 DEF ReadInv

\* A stream that starts finds the lines that are there.
LEMMA StartStep ==
  ASSUME ReadInv, Start, UNCHANGED lines
  PROVE  ReadInv'
<1> USE LogAssumption
<1>1. received' = <<>> /\ buffer' = <<>> /\ before' = lines /\ cleared' = 0 /\ lines' = lines
  BY DEF Start
<1>2. Len(received') = 0 /\ 0 \in 0..Len(Body)
  <2>1. Len(Body) \in Nat
    BY BodyTokens, LenProperties
  <2> QED BY <1>1, <2>1
<1>3. Complete' = 0
  BY <1>2 DEF Complete
<1>4. lines \in Seq(Seq(1..MaxFrames)) /\ Len(lines) <= MaxLines
  BY DEF ReadInv
<1>5. LinesOfStream'
  <2>1. Keep(lines \o LinesFrom(0, 0)) = lines
    BY <1>4, LinesFit
  <2> QED BY <1>1, <1>3, <2>1 DEF LinesOfStream, LinesFrom
<1>6. /\ received' = SubSeq(Body, 1, Len(received'))
      /\ buffer' = SubSeq(Body, EndOfFrame(WholeFrames(Len(received'))) + 1, Len(received'))
  BY <1>1, <1>2, ReadNothing
<1> QED BY <1>1, <1>2, <1>3, <1>4, <1>5, <1>6 DEF ReadInv

LEMMA LogStep == LogInv /\ [LogNext]_logVars => LogInv'
<1> SUFFICES ASSUME LogInv, [LogNext]_logVars
             PROVE  LogInv'
  OBVIOUS
<1> USE LogAssumption
<1>u. ReadInv /\ BadgeInv /\ ViewInv
  BY DEF LogInv
<1>h. /\ shown \in BOOLEAN /\ connState \in {"connecting", "streaming", "paused", "closed", "error"}
      /\ stream \in {"none", "asked", "reading", "over"} /\ streams \in 0..MaxStreams /\ aborted \in Nat
      /\ aborted + (IF Pending THEN 1 ELSE 0) <= streams /\ BadgeTellsStream
  BY <1>u DEF BadgeInv
<1>c. Stop => aborted' \in Nat /\ aborted' <= streams
  BY <1>h DEF Stop
<1>1. ASSUME Opened \/ Refused \/ StreamEnds \/ StreamBreaks PROVE LogInv'
  <2>1. UNCHANGED <<shown, lines, streams, aborted, reading, view>> /\ Pending
    BY <1>1 DEF Opened, Refused, StreamEnds, StreamBreaks, Pending
  <2>2. \/ stream' = "reading" /\ connState' = "streaming"
        \/ stream' = "over" /\ connState' \in {"closed", "error"}
    BY <1>1 DEF Opened, Refused, StreamEnds, StreamBreaks
  <2>3. aborted' + (IF Pending' THEN 1 ELSE 0) <= streams'
    BY <1>h, <2>1, <2>2 DEF Pending
  <2>4. BadgeTellsStream'
    BY <2>2 DEF BadgeTellsStream
  <2>5. BadgeInv'
    BY <1>h, <2>1, <2>2, <2>3, <2>4 DEF BadgeInv
  <2> QED BY <1>u, <2>1, <2>5, ReadKept, ViewKept DEF LogInv
<1>2. ASSUME NEW size \in 1..MaxChunk, ReadChunk(size) PROVE LogInv'
  <2>1. ReadInv'
    BY <1>u, <1>2, ChunkStep
  <2>2. UNCHANGED <<shown, connState, stream, streams, aborted>> /\ follow' = follow /\ FollowEffect(lines' # lines)
    BY <1>2 DEF ReadChunk
  <2>3. ViewInv'
    <3>1. (lines' # lines) \in BOOLEAN /\ follow' \in BOOLEAN
      BY <1>u, <2>2 DEF ViewInv
    <3> QED BY <1>u, <2>2, <3>1, ViewFollows
  <2> QED BY <1>u, <2>1, <2>2, <2>3, BadgeKept DEF LogInv
<1>3. ASSUME AbortSeen PROVE LogInv'
  <2>1. aborted > 0 /\ aborted' = aborted - 1 /\ UNCHANGED <<shown, connState, lines, stream, streams, reading, view>>
    BY <1>3 DEF AbortSeen
  <2>2. aborted' \in Nat /\ aborted' + (IF Pending' THEN 1 ELSE 0) <= streams'
    BY <1>h, <2>1 DEF Pending
  <2>3. BadgeTellsStream'
    BY <1>h, <2>1 DEF BadgeTellsStream
  <2>4. BadgeInv'
    BY <1>h, <2>1, <2>2, <2>3 DEF BadgeInv
  <2> QED BY <1>u, <2>1, <2>4, ReadKept, ViewKept DEF LogInv
<1>4. ASSUME Pause PROVE LogInv'
  <2>1. Stop /\ stream' = "none" /\ connState' = "paused" /\ UNCHANGED <<shown, lines, streams, reading, view>>
    BY <1>4 DEF Pause
  <2>2. aborted' \in Nat /\ aborted' + (IF Pending' THEN 1 ELSE 0) <= streams'
    BY <1>h, <1>c, <2>1 DEF Pending
  <2>3. BadgeTellsStream'
    BY <2>1 DEF BadgeTellsStream
  <2>4. BadgeInv'
    BY <1>h, <2>1, <2>2, <2>3 DEF BadgeInv
  <2> QED BY <1>u, <2>1, <2>4, ReadKept, ViewKept DEF LogInv
<1>5. ASSUME Resume PROVE LogInv'
  <2>1. Start /\ streams < MaxStreams /\ UNCHANGED <<shown, lines, view>>
    BY <1>5 DEF Resume
  <2>2. Stop /\ stream' = "asked" /\ streams' = streams + 1 /\ connState' = "connecting"
    BY <2>1 DEF Start
  <2>3. /\ streams' \in 0..MaxStreams /\ aborted' \in Nat
        /\ aborted' + (IF Pending' THEN 1 ELSE 0) <= streams'
    BY <1>h, <1>c, <2>1, <2>2 DEF Pending
  <2>4. BadgeTellsStream'
    BY <2>2 DEF BadgeTellsStream
  <2>5. BadgeInv'
    BY <1>h, <2>1, <2>2, <2>3, <2>4 DEF BadgeInv
  <2>6. ReadInv'
    BY <1>u, <2>1, StartStep
  <2> QED BY <1>u, <2>1, <2>5, <2>6, ViewKept DEF LogInv
<1>6. ASSUME ClearLines PROVE LogInv'
  <2>1. ReadInv'
    BY <1>u, <1>6, ClearStep
  <2>2. UNCHANGED <<shown, connState, stream, streams, aborted>> /\ follow' = follow /\ FollowEffect(TRUE)
    BY <1>6 DEF ClearLines
  <2>3. ViewInv'
    <3>1. TRUE \in BOOLEAN /\ follow' \in BOOLEAN
      BY <1>u, <2>2 DEF ViewInv
    <3> QED BY <1>u, <2>2, <3>1, ViewFollows
  <2> QED BY <1>u, <2>1, <2>2, <2>3, BadgeKept DEF LogInv
<1>7. ASSUME ToggleFollow PROVE LogInv'
  <2>1. /\ follow' = ~follow /\ lines' = lines /\ FollowEffect(TRUE)
        /\ UNCHANGED <<shown, connState, stream, streams, aborted, reading>>
    BY <1>7 DEF ToggleFollow
  <2>2. ViewInv'
    <3>1. TRUE \in BOOLEAN /\ follow' \in BOOLEAN
      BY <1>u, <2>1 DEF ViewInv
    <3> QED BY <1>u, <2>1, <3>1, ViewFollows
  <2> QED BY <1>u, <2>1, <2>2, BadgeKept, ReadKept DEF LogInv
<1>8. ASSUME Scroll PROVE LogInv'
  <2>1. /\ atEnd' \in BOOLEAN /\ scrolled' = TRUE
        /\ UNCHANGED <<shown, connState, lines, stream, streams, aborted, reading, follow>>
    BY <1>8 DEF Scroll
  <2>2. ViewInv'
    BY <1>u, <2>1 DEF ViewInv, FollowsEnd
  <2> QED BY <1>u, <2>1, <2>2, BadgeKept, ReadKept DEF LogInv
<1>9. ASSUME OnScroll PROVE LogInv'
  <2>1. /\ scrolled' = FALSE /\ follow' = (follow /\ atEnd)
        /\ UNCHANGED <<shown, connState, lines, stream, streams, aborted, reading, atEnd>>
    BY <1>9 DEF OnScroll
  <2>2. ViewInv'
    BY <1>u, <2>1 DEF ViewInv, FollowsEnd
  <2> QED BY <1>u, <2>1, <2>2, BadgeKept, ReadKept DEF LogInv
<1>10. ASSUME UnmountLogs PROVE LogInv'
  <2>1. shown' = FALSE /\ Stop /\ stream' = "none" /\ UNCHANGED <<connState, lines, streams, reading, view>>
    BY <1>10 DEF UnmountLogs
  <2>2. aborted' \in Nat /\ aborted' + (IF Pending' THEN 1 ELSE 0) <= streams'
    BY <1>h, <1>c, <2>1 DEF Pending
  <2>3. BadgeTellsStream'
    BY <2>1 DEF BadgeTellsStream
  <2>4. BadgeInv'
    BY <1>h, <2>1, <2>2, <2>3 DEF BadgeInv
  <2> QED BY <1>u, <2>1, <2>4, ReadKept, ViewKept DEF LogInv
<1>11. CASE UNCHANGED logVars
  <2>1. UNCHANGED <<lines, reading>> /\ UNCHANGED view /\ UNCHANGED <<shown, connState, stream, streams, aborted>>
    BY <1>11 DEF logVars, reading, view
  <2> QED BY <1>u, <2>1, ReadKept, BadgeKept, ViewKept DEF LogInv
<1> QED BY <1>1, <1>2, <1>3, <1>4, <1>5, <1>6, <1>7, <1>8, <1>9, <1>10, <1>11 DEF LogNext

\* The lines shown are those of the stream since they were cleared, whole and in order,
\* however the body is cut into chunks and the reader stopped and started; the badge is
\* true of the request in charge, and following has the end in view (DeploymentLogs.tsx).
THEOREM ConsoleLogFaithful == ConsoleSpec => []LogFaithful
<1>1. ConsoleInit => LogInv
  BY LogInitInv DEF ConsoleInit
<1>2. LogInv /\ [ConsoleNext]_consoleVars => LogInv'
  BY LogStep DEF ConsoleNext, consoleVars
<1>3. LogInv => LogFaithful
  BY DEF LogInv, ReadInv, BadgeInv, ViewInv, LogFaithful
<1> QED BY <1>1, <1>2, <1>3, PTL DEF ConsoleSpec
==============================================================================
