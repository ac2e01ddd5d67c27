--------------------------- MODULE Dialects_proofs ---------------------------
(***************************************************************************)
(* What of a request arrives at another provider, and what of the answer   *)
(* reaches client and ledger, for any requests the APIs accept, any pairs  *)
(* of dialects and answers of any length.                                  *)
(*                                                                         *)
(* A request passes two translations, each of which drops what it has no   *)
(* word for; the first invariant remembers until the provider has answered *)
(* that the wire holds what both of them left.  The second one, StreamInv, *)
(* holds a stream together event by event: the provider's answer is what   *)
(* the translator will know once it has the event that is still waiting,   *)
(* the chunks of that event say just what it will have learnt, and the     *)
(* client with its renderer follows what the translator has read.  For     *)
(* Anthropic's client that takes the numbers of its blocks, which of them  *)
(* are open, and whose they are.                                           *)
(***************************************************************************)
EXTENDS Dialects, WellFoundedInduction, SequenceTheorems, TLAPS

-----------------------------------------------------------------------------
(* The request *)

\* Requests of one make-up pass both translations whole.
LEMMA PlainPassesShape ==
  ASSUME NEW a \in AllAsks, Plain(a), NEW c \in Parties
  PROVE  RequestToOpenAIShape(c, a) = a
<1>1. a.extras \cap Carried = a.extras
  BY DEF Plain
<1>2. Mapped(a) = a.blocks
  <2>1. CASE a.role = "user" /\ a.blocks = {"text"}
    BY <2>1 DEF Mapped
  <2>2. CASE a.role = "user" /\ a.blocks = {"tool_result"}
    BY <2>2 DEF Mapped
  <2>3. CASE a.role = "assistant" /\ a.blocks = {"text"}
    BY <2>3 DEF Mapped
  <2>4. CASE a.role = "assistant" /\ a.blocks = {"tool_use"}
    BY <2>4 DEF Mapped
  <2>5. a.role \in {"user", "assistant"} /\ (a.role = "user" => "tool_use" \notin a.blocks)
        /\ (a.role = "assistant" => "tool_result" \notin a.blocks)
    BY DEF AllAsks
  <2> QED BY <2>1, <2>2, <2>3, <2>4, <2>5 DEF Plain
<1>3. a = [role |-> a.role, blocks |-> a.blocks, extras |-> a.extras]
  BY DEF AllAsks
<1>4. [a EXCEPT !.blocks = Mapped(a), !.extras = @ \cap Carried] = a
  BY <1>1, <1>2, <1>3
<1> QED BY <1>4 DEF RequestToOpenAIShape, AnthropicRequestToOpenAI, GeminiRequestToOpenAI, Parties

LEMMA PlainPassesPrepare ==
  ASSUME NEW a \in AllAsks, Plain(a), NEW u \in Parties
  PROVE  PrepareRequest(u, a) = a
<1>1. a.extras \cap Carried = a.extras /\ a.blocks \ {"image"} = a.blocks
  BY DEF Plain
<1>2. a = [role |-> a.role, blocks |-> a.blocks, extras |-> a.extras]
  BY DEF AllAsks
<1>3. [a EXCEPT !.blocks = @ \ {"image"}, !.extras = @ \cap Carried] = a
  BY <1>1, <1>2
<1> QED BY <1>3 DEF PrepareRequest, AnthropicPrepare, GeminiPrepare, Parties

\* Until the provider answers, ask and pair are as the client chose them and
\* the wire holds the translation of the one for the other.
Translation ==
  /\ pair \in Pairs
  /\ pc \in {"ask", "sent"} => ask \in Asks
  /\ pc = "sent" => wire = PrepareRequest(pair[2], RequestToOpenAIShape(pair[1], ask))

LEMMA InitTranslation == Init => Translation
BY DEF Init, Translation

LEMMA NextTranslation == Translation /\ [Next]_vars => Translation'
<1> SUFFICES ASSUME Translation, [Next]_vars PROVE Translation'
  OBVIOUS
<1>1. CASE StayHome
  BY <1>1 DEF StayHome, Translation
<1>2. CASE Send
  BY <1>2 DEF Send, Translation
<1>3. CASE Opened
  BY <1>3 DEF Opened, Translation
<1>4. CASE Relayed
  BY <1>4 DEF Relayed, Translation
<1>5. CASE Arrive
  BY <1>5 DEF Arrive, Translation
<1>6. CASE HandleChunk
  BY <1>6 DEF HandleChunk, Translation
<1>7. CASE Finish
  BY <1>7 DEF Finish, Close, Translation
<1>8. CASE Fail
  BY <1>8 DEF Fail, Translation
<1>9. CASE UNCHANGED vars
  BY <1>9 DEF vars, Translation
<1>10. CASE CutInCharacter \/ CutInNewline \/ SkipGlued
  BY <1>10 DEF CutInCharacter, CutInNewline, SkipGlued, HandleTorn, Translation
<1>11. CASE FinishShort
  BY <1>11 DEF FinishShort, Close, Translation
<1> QED BY <1>1, <1>2, <1>3, <1>4, <1>5, <1>6, <1>7, <1>8, <1>9, <1>10, <1>11 DEF Next

\* A request made of one kind of content, the system prompt, function tools,
\* temperature and token limit arrives as it was asked, whatever dialect its
\* client speaks and whichever provider it is sent to.
THEOREM PlainRequestsAlwaysSurvive == Spec => []PlainRequestsSurvive
<1>1. Translation => PlainRequestsSurvive
  <2> SUFFICES ASSUME Translation, pc = "sent", Plain(ask) PROVE wire = ask
    BY DEF PlainRequestsSurvive
  <2>1. ask \in AllAsks /\ pair[1] \in Parties /\ pair[2] \in Parties
    BY DialectsAssumption DEF Translation
  <2>2. RequestToOpenAIShape(pair[1], ask) = ask /\ PrepareRequest(pair[2], ask) = ask
    BY <2>1, PlainPassesShape, PlainPassesPrepare
  <2> QED BY <2>2 DEF Translation
<1>2. Translation /\ [Next]_vars => Translation'
  BY NextTranslation
<1> QED BY <1>1, <1>2, InitTranslation, PTL DEF Spec

-----------------------------------------------------------------------------
(* Events and chunks, one after the other *)

\* Induction over the natural numbers, with the induction hypothesis a set.
LEMMA NatsBySteps ==
  ASSUME NEW T, 0 \in T, \A n \in Nat : n \in T => n + 1 \in T
  PROVE  \A n \in Nat : n \in T
<1> DEFINE Bad == {n \in Nat : n \notin T}
<1> SUFFICES ASSUME Bad # {} PROVE FALSE
  OBVIOUS
<1>1. PICK n \in Bad : \A m \in Bad : ~(<<m, n>> \in OpToRel(<, Nat))
  <2>1. Bad \subseteq Nat
    OBVIOUS
  <2> HIDE DEF Bad
  <2> QED BY <2>1, NatLessThanWellFounded, WFMin
<1>2. n \in Nat /\ n \notin T /\ n # 0
  OBVIOUS
<1>3. n - 1 \in Nat /\ <<n - 1, n>> \in OpToRel(<, Nat)
  BY <1>2 DEF OpToRel
<1>4. n - 1 \in T
  BY <1>1, <1>3
<1>5. (n - 1) + 1 \in T
  BY <1>3, <1>4
<1> QED BY <1>2, <1>5

\* A set of numbers below a bound has a largest one.
LEMMA MaxIn ==
  ASSUME NEW n \in Nat, NEW s \in SUBSET (1..n), s # {}
  PROVE  Max(s) \in s /\ \A y \in s : Max(s) >= y
<1> DEFINE Above == {m \in Nat : \A y \in s : m >= y}
<1>1. \E m \in Above : m \in s
  <2> SUFFICES ASSUME \A m \in Above : m \notin s PROVE FALSE
    OBVIOUS
  <2> DEFINE T == {k \in Nat : k <= n => n - k \in Above}
  <2>1. 0 \in T
    OBVIOUS
  <2>2. ASSUME NEW k \in Nat, k \in T PROVE k + 1 \in T
    <3>1. CASE k + 1 <= n
      <4>1. n - k \in Above /\ n - k \notin s
        BY <2>2, <3>1
      <4>2. \A y \in s : y \in Int /\ n - k >= y /\ y # n - k
        BY <4>1
      <4>3. n - (k + 1) \in Nat /\ \A y \in s : n - (k + 1) >= y
        BY <3>1, <4>2
      <4> QED BY <4>3
    <3>2. CASE ~(k + 1 <= n)
      BY <3>2
    <3> QED BY <3>1, <3>2
  <2>3. n \in T
    <3> HIDE DEF T
    <3> QED BY <2>1, <2>2, NatsBySteps
  <2>4. 0 \in Above
    BY <2>3
  <2>5. PICK y \in s : y \in 1..n
    OBVIOUS
  <2>6. 0 >= y
    BY <2>4
  <2> QED BY <2>5, <2>6
<1> QED BY <1>1 DEF Max

\* One step of either fold of the stream: of the events a client reads, of the
\* chunks a renderer is given.
FoldStep(kind, c, acc, x) == IF kind = "reads" THEN ReadOne(c, acc, x) ELSE RenderNext(c, acc, x)

\* What the fold of a prefix computes, by the set of its places.
FoldOver(kind, c, base, xs, n, f) ==
  f = [s \in SUBSET (1..n) |-> IF s = {} THEN base
                               ELSE FoldStep(kind, c, f[s \ {Max(s)}], xs[Max(s)])]

\* The partial results of a fold exist, for a sequence of any length.
LEMMA FoldExists ==
  ASSUME NEW kind, NEW c, NEW base, NEW xs, NEW n \in Nat
  PROVE  \E f : FoldOver(kind, c, base, xs, n, f)
<1> DEFINE T == {m \in Nat : \E f : FoldOver(kind, c, base, xs, m, f)}
<1>1. 0 \in T
  <2> DEFINE g == [s \in SUBSET (1..0) |-> base]
  <2>1. \A s \in SUBSET (1..0) : s = {}
    OBVIOUS
  <2>2. FoldOver(kind, c, base, xs, 0, g)
    BY <2>1 DEF FoldOver
  <2> QED BY <2>2
<1>2. ASSUME NEW m \in Nat, m \in T PROVE m + 1 \in T
  <2>1. PICK f : FoldOver(kind, c, base, xs, m, f)
    BY <1>2
  <2> DEFINE D == SUBSET (1..m)
             D1 == SUBSET (1..(m + 1))
             V(h, s) == IF s = {} THEN base ELSE FoldStep(kind, c, h[s \ {Max(s)}], xs[Max(s)])
             g == [s \in D1 |-> V(f, s)]
  <2>2. ASSUME NEW s \in D1, s # {} PROVE s \ {Max(s)} \in D
    <3>1. m + 1 \in Nat /\ s \in SUBSET (1..(m + 1))
      OBVIOUS
    <3>2. Max(s) \in s /\ \A y \in s : Max(s) >= y
      <4> HIDE DEF D, D1, g, V
      <4> QED BY <2>2, <3>1, MaxIn
    <3>3. ASSUME NEW y \in s, y # Max(s) PROVE y \in 1..m
      <4>1. y \in 1..(m + 1) /\ Max(s) \in 1..(m + 1) /\ Max(s) >= y
        BY <3>1, <3>2
      <4> HIDE DEF D, D1, g, V
      <4> QED BY <3>3, <4>1
    <3> QED BY <3>3
  <2>3. ASSUME NEW s \in D PROVE s \in D1 /\ g[s] = f[s]
    <3>1. s \in D1
      OBVIOUS
    <3>2. f[s] = V(f, s)
      BY <2>1 DEF FoldOver
    <3> QED BY <3>1, <3>2
  <2>4. ASSUME NEW s \in D1 PROVE g[s] = V(g, s)
    <3>1. CASE s = {}
      BY <3>1
    <3>2. CASE s # {}
      <4>1. g[s \ {Max(s)}] = f[s \ {Max(s)}]
        BY <2>2, <2>3, <3>2
      <4> QED BY <4>1
    <3> QED BY <3>1, <3>2
  <2>5. g = [s \in D1 |-> V(g, s)]
    <3> HIDE DEF V
    <3>1. g = [s \in D1 |-> g[s]]
      OBVIOUS
    <3> HIDE DEF g
    <3> QED BY <2>4, <3>1
  <2>6. FoldOver(kind, c, base, xs, m + 1, g)
    BY <2>5 DEF FoldOver
  <2> QED BY <2>6
<1>3. n \in T
  <2> HIDE DEF T
  <2> QED BY <1>1, <1>2, NatsBySteps
<1> QED BY <1>3

\* A fold over nothing has not left its start.
LEMMA FoldStarts ==
  ASSUME NEW kind, NEW c, NEW base, NEW xs, NEW n \in Nat, NEW f,
         FoldOver(kind, c, base, xs, n, f)
  PROVE  f[{}] = base
<1>1. {} \in SUBSET (1..n)
  OBVIOUS
<1> QED BY <1>1 DEF FoldOver

\* The fold takes the elements in their order.
LEMMA FoldSteps ==
  ASSUME NEW kind, NEW c, NEW base, NEW xs, NEW n \in Nat, NEW f,
         FoldOver(kind, c, base, xs, n, f)
  PROVE  \A k \in 1..n : f[1..k] = FoldStep(kind, c, f[1..(k - 1)], xs[k])
<1> DEFINE V(h, s) == IF s = {} THEN base ELSE FoldStep(kind, c, h[s \ {Max(s)}], xs[Max(s)])
<1>1. \A s \in SUBSET (1..n) : f[s] = V(f, s)
  BY DEF FoldOver
<1>3. ASSUME NEW k \in 1..n PROVE f[1..k] = FoldStep(kind, c, f[1..(k - 1)], xs[k])
  <2>1. 1..k \in SUBSET (1..n) /\ 1..k # {} /\ k \in Nat /\ 1..k \in SUBSET (1..k) /\ k \in 1..k
    OBVIOUS
  <2>2. Max(1..k) \in 1..k /\ \A y \in 1..k : Max(1..k) >= y
    <3> HIDE DEF V
    <3> QED BY <2>1, MaxIn
  <2>3. Max(1..k) = k
    <3> HIDE DEF V
    <3> QED BY <2>1, <2>2
  <2>4. (1..k) \ {k} = 1..(k - 1)
    BY <2>1
  <2>5. f[1..k] = V(f, 1..k)
    BY <1>1, <2>1
  <2> QED BY <2>1, <2>3, <2>4, <2>5
<1> QED BY <1>3

\* What the fold of a prefix computes depends on the prefix alone.
LEMMA FoldsAgree ==
  ASSUME NEW kind, NEW c, NEW base, NEW xs, NEW ys, NEW m \in Nat, NEW n \in Nat, NEW f, NEW h,
         FoldOver(kind, c, base, xs, m, f), FoldOver(kind, c, base, ys, n, h),
         NEW k \in Nat, k <= m, k <= n, \A i \in 1..k : xs[i] = ys[i]
  PROVE  f[1..k] = h[1..k]
<1> DEFINE T == {j \in Nat : j <= k => f[1..j] = h[1..j]}
<1>1. 0 \in T
  <2>1. f[{}] = base /\ h[{}] = base
    BY FoldStarts
  <2>2. 1..0 = {}
    OBVIOUS
  <2> QED BY <2>1, <2>2
<1>2. ASSUME NEW j \in Nat, j \in T PROVE j + 1 \in T
  <2> SUFFICES ASSUME j + 1 <= k PROVE f[1..(j + 1)] = h[1..(j + 1)]
    OBVIOUS
  <2>1. j + 1 \in 1..m /\ j + 1 \in 1..n /\ j + 1 \in 1..k /\ (j + 1) - 1 = j
    OBVIOUS
  <2>2. f[1..(j + 1)] = FoldStep(kind, c, f[1..j], xs[j + 1])
    <3> HIDE DEF T
    <3>1. \A l \in 1..m : f[1..l] = FoldStep(kind, c, f[1..(l - 1)], xs[l])
      BY FoldSteps
    <3> QED BY <2>1, <3>1
  <2>3. h[1..(j + 1)] = FoldStep(kind, c, h[1..j], ys[j + 1])
    <3> HIDE DEF T
    <3>1. \A l \in 1..n : h[1..l] = FoldStep(kind, c, h[1..(l - 1)], ys[l])
      BY FoldSteps
    <3> QED BY <2>1, <3>1
  <2>4. f[1..j] = h[1..j] /\ xs[j + 1] = ys[j + 1]
    BY <1>2, <2>1
  <2> QED BY <2>2, <2>3, <2>4
<1>3. k \in T
  <2> HIDE DEF T
  <2> QED BY <1>1, <1>2, NatsBySteps
<1> QED BY <1>3

\* What the fold computes at the end of the sequence is the fold.
LEMMA FoldIsOne ==
  ASSUME NEW kind, NEW c, NEW base, NEW xs, NEW n \in Nat, NEW f, NEW h,
         FoldOver(kind, c, base, xs, n, f), FoldOver(kind, c, base, xs, n, h)
  PROVE  f[1..n] = h[1..n]
<1> DEFINE ys == xs
<1>1. n <= n /\ (\A i \in 1..n : xs[i] = ys[i]) /\ FoldOver(kind, c, base, ys, n, h)
  OBVIOUS
<1> HIDE DEF ys
<1> QED BY <1>1, FoldsAgree

\* Both operators of the stream are this fold.
LEMMA ReadsIsFold ==
  ASSUME NEW c, NEW g, NEW E, NEW es \in Seq(E), NEW f, FoldOver("reads", c, g, es, Len(es), f)
  PROVE  Reads(c, g, es) = f[1..Len(es)]
<1> DEFINE iter[s \in SUBSET (DOMAIN es)] ==
             IF s = {} THEN g ELSE ReadOne(c, iter[s \ {Max(s)}], es[Max(s)])
<1>1. Reads(c, g, es) = iter[DOMAIN es]
  BY DEF Reads, FoldLeft, MapThenFoldSet
<1>2. Len(es) \in Nat /\ DOMAIN es = 1..Len(es)
  OBVIOUS
<1>3. f = [s \in SUBSET (DOMAIN es) |-> IF s = {} THEN g ELSE ReadOne(c, f[s \ {Max(s)}], es[Max(s)])]
  BY <1>2 DEF FoldOver, FoldStep
<1>4. iter = [s \in SUBSET (DOMAIN es) |-> IF s = {} THEN g ELSE ReadOne(c, iter[s \ {Max(s)}], es[Max(s)])]
  BY <1>3
<1> HIDE DEF iter
<1>5. FoldOver("reads", c, g, es, Len(es), iter)
  BY <1>2, <1>4 DEF FoldOver, FoldStep
<1>6. f[1..Len(es)] = iter[1..Len(es)]
  BY <1>2, <1>5, FoldIsOne
<1> QED BY <1>1, <1>2, <1>6

LEMMA RenderAllIsFold ==
  ASSUME NEW c, NEW r, NEW E, NEW cs \in Seq(E), NEW f,
         FoldOver("renders", c, Rendered(r, << >>), cs, Len(cs), f)
  PROVE  RenderAll(c, r, cs) = f[1..Len(cs)]
<1> DEFINE iter[s \in SUBSET (DOMAIN cs)] ==
             IF s = {} THEN Rendered(r, << >>) ELSE RenderNext(c, iter[s \ {Max(s)}], cs[Max(s)])
<1>1. RenderAll(c, r, cs) = iter[DOMAIN cs]
  BY DEF RenderAll, FoldLeft, MapThenFoldSet
<1>2. Len(cs) \in Nat /\ DOMAIN cs = 1..Len(cs)
  OBVIOUS
<1>3. f = [s \in SUBSET (DOMAIN cs) |->
            IF s = {} THEN Rendered(r, << >>) ELSE RenderNext(c, f[s \ {Max(s)}], cs[Max(s)])]
  BY <1>2 DEF FoldOver, FoldStep
<1>4. iter = [s \in SUBSET (DOMAIN cs) |->
               IF s = {} THEN Rendered(r, << >>) ELSE RenderNext(c, iter[s \ {Max(s)}], cs[Max(s)])]
  BY <1>3
<1> HIDE DEF iter
<1>5. FoldOver("renders", c, Rendered(r, << >>), cs, Len(cs), iter)
  BY <1>2, <1>4 DEF FoldOver, FoldStep
<1>6. f[1..Len(cs)] = iter[1..Len(cs)]
  BY <1>2, <1>5, FoldIsOne
<1> QED BY <1>1, <1>2, <1>6

\* Reading no event, and one event more.
LEMMA ReadsNone == ASSUME NEW c, NEW g PROVE Reads(c, g, << >>) = g
<1> DEFINE es == << >>
<1>1. es \in Seq({}) /\ Len(es) = 0 /\ 0 \in Nat /\ 1..0 = {}
  OBVIOUS
<1> HIDE DEF es
<1>2. PICK f : FoldOver("reads", c, g, es, 0, f)
  BY <1>1, FoldExists
<1>3. Reads(c, g, es) = f[1..0]
  BY <1>1, <1>2, ReadsIsFold
<1>4. f[{}] = g
  BY <1>1, <1>2, FoldStarts
<1> QED BY <1>1, <1>3, <1>4 DEF es

LEMMA ReadsMore ==
  ASSUME NEW c, NEW g, NEW E, NEW es \in Seq(E), NEW e \in E
  PROVE  Reads(c, g, Append(es, e)) = ReadOne(c, Reads(c, g, es), e)
<1> DEFINE ms == Append(es, e)
           n == Len(es)
<1>1. /\ ms \in Seq(E) /\ n \in Nat /\ n + 1 \in Nat /\ Len(ms) = n + 1 /\ ms[n + 1] = e
      /\ n + 1 \in 1..(n + 1) /\ (n + 1) - 1 = n
      /\ \A i \in 1..n : es[i] = ms[i]
  OBVIOUS
<1> HIDE DEF ms, n
<1>2. PICK f : FoldOver("reads", c, g, es, n, f)
  BY <1>1, FoldExists
<1>3. PICK h : FoldOver("reads", c, g, ms, n + 1, h)
  BY <1>1, FoldExists
<1>4. Reads(c, g, es) = f[1..n]
  BY <1>2, ReadsIsFold DEF n
<1>5. Reads(c, g, ms) = h[1..(n + 1)]
  BY <1>1, <1>3, ReadsIsFold
<1>6. f[1..n] = h[1..n]
  BY <1>1, <1>2, <1>3, FoldsAgree, SMTT(30)
<1>7. \A k \in 1..(n + 1) : h[1..k] = FoldStep("reads", c, h[1..(k - 1)], ms[k])
  BY <1>1, <1>3, FoldSteps
<1>8. h[1..(n + 1)] = FoldStep("reads", c, h[1..n], e)
  BY <1>1, <1>7
<1> QED BY <1>4, <1>5, <1>6, <1>8 DEF FoldStep, ms

\* Reading goes on where it stopped.
LEMMA ReadsOn ==
  ASSUME NEW c, NEW g, NEW E, NEW es \in Seq(E), NEW ms \in Seq(E)
  PROVE  Reads(c, g, es \o ms) = Reads(c, Reads(c, g, es), ms)
<1> DEFINE Upto(k) == SubSeq(ms, 1, k)
           T == {k \in Nat : k <= Len(ms) =>
                   Reads(c, g, es \o Upto(k)) = Reads(c, Reads(c, g, es), Upto(k))}
<1>1. 0 \in T
  <2>1. Upto(0) = << >> /\ es \o << >> = es
    BY SubSeqEmpty, ConcatEmptySeq
  <2> HIDE DEF Upto
  <2> QED BY <2>1, ReadsNone
<1>2. ASSUME NEW k \in Nat, k \in T PROVE k + 1 \in T
  <2> SUFFICES ASSUME k + 1 <= Len(ms)
               PROVE  Reads(c, g, es \o Upto(k + 1)) = Reads(c, Reads(c, g, es), Upto(k + 1))
    OBVIOUS
  <2>1. Upto(k) \in Seq(E) /\ ms[k + 1] \in E /\ Upto(k + 1) = Append(Upto(k), ms[k + 1])
    OBVIOUS
  <2>2. Reads(c, g, es \o Upto(k)) = Reads(c, Reads(c, g, es), Upto(k))
    BY <1>2
  <2> HIDE DEF Upto, T
  <2>3. es \o Append(Upto(k), ms[k + 1]) = Append(es \o Upto(k), ms[k + 1]) /\ es \o Upto(k) \in Seq(E)
    BY <2>1
  <2> DEFINE e == ms[k + 1]
             bs == es \o Upto(k)
  <2> HIDE DEF e, bs
  <2>4. Reads(c, g, Append(bs, e)) = ReadOne(c, Reads(c, g, bs), e)
    <3>1. bs \in Seq(E) /\ e \in E
      BY <2>1, <2>3 DEF e, bs
    <3> QED BY <3>1, ReadsMore
  <2>5. Reads(c, Reads(c, g, es), Append(Upto(k), ms[k + 1]))
          = ReadOne(c, Reads(c, Reads(c, g, es), Upto(k)), ms[k + 1])
    BY <2>1, ReadsMore
  <2> QED BY <2>1, <2>2, <2>3, <2>4, <2>5 DEF e, bs
<1>3. Len(ms) \in T
  <2> HIDE DEF T
  <2> QED BY <1>1, <1>2, NatsBySteps
<1>4. Upto(Len(ms)) = ms /\ Len(ms) <= Len(ms)
  OBVIOUS
<1>5. Reads(c, g, es \o Upto(Len(ms))) = Reads(c, Reads(c, g, es), Upto(Len(ms)))
  BY <1>3, <1>4
<1> HIDE DEF Upto
<1> QED BY <1>4, <1>5

\* Reading one event, and two.
LEMMA ReadsThis == ASSUME NEW c, NEW g, NEW e PROVE Reads(c, g, <<e>>) = ReadOne(c, g, e)
<1> DEFINE es == << >>
<1>1. es \in Seq({e}) /\ e \in {e} /\ Append(es, e) = <<e>>
  OBVIOUS
<1>2. Reads(c, g, es) = g
  BY ReadsNone
<1> DEFINE E == {e}
<1> HIDE DEF es, E
<1>3. Reads(c, g, Append(es, e)) = ReadOne(c, Reads(c, g, es), e)
  <2>1. es \in Seq(E) /\ e \in E
    BY <1>1 DEF E
  <2> QED BY <2>1, ReadsMore
<1> QED BY <1>1, <1>2, <1>3

LEMMA ReadsThese ==
  ASSUME NEW c, NEW g, NEW d, NEW e
  PROVE  Reads(c, g, <<d, e>>) = ReadOne(c, ReadOne(c, g, d), e)
<1> DEFINE es == <<d>>
<1>1. es \in Seq({d, e}) /\ e \in {d, e}
  OBVIOUS
<1>2. Append(es, e) = <<d, e>>
  <2>1. Append(es, e) \in Seq({d, e}) /\ <<d, e>> \in Seq({d, e})
    BY <1>1
  <2>2. Len(Append(es, e)) = 2 /\ Len(<<d, e>>) = 2
    OBVIOUS
  <2>3. \A i \in 1..2 : Append(es, e)[i] = <<d, e>>[i]
    OBVIOUS
  <2> QED BY <2>1, <2>2, <2>3, SeqEqual
<1>3. Reads(c, g, es) = ReadOne(c, g, d)
  BY ReadsThis
<1> HIDE DEF es
<1>4. Reads(c, g, Append(es, e)) = ReadOne(c, Reads(c, g, es), e)
  BY <1>1, ReadsMore
<1> QED BY <1>2, <1>3, <1>4

\* A translator's step gives no chunk, one, or two.
LEMMA RenderNone == ASSUME NEW c, NEW r PROVE RenderAll(c, r, << >>) = Rendered(r, << >>)
<1> DEFINE cs == << >>
<1>1. cs \in Seq({}) /\ Len(cs) = 0 /\ 0 \in Nat /\ 1..0 = {}
  OBVIOUS
<1> DEFINE b == Rendered(r, << >>)
<1> HIDE DEF cs, b
<1>2. PICK f : FoldOver("renders", c, b, cs, 0, f)
  BY <1>1, FoldExists
<1>3. RenderAll(c, r, cs) = f[1..0]
  BY <1>1, <1>2, RenderAllIsFold, ZenonT(30) DEF b
<1>4. f[{}] = b
  BY <1>1, <1>2, FoldStarts
<1> QED BY <1>1, <1>3, <1>4 DEF cs, b

LEMMA RenderThis ==
  ASSUME NEW c, NEW r, NEW x PROVE RenderAll(c, r, <<x>>) = RenderNext(c, Rendered(r, << >>), x)
<1> DEFINE cs == <<x>>
           b == Rendered(r, << >>)
           n == 1
<1>1. cs \in Seq({x}) /\ Len(cs) = n /\ n \in Nat /\ cs[1] = x
  OBVIOUS
<1> HIDE DEF cs, b, n
<1>2. PICK f : FoldOver("renders", c, b, cs, n, f)
  BY <1>1, FoldExists
<1>3. RenderAll(c, r, cs) = f[1..n]
  BY <1>1, <1>2, RenderAllIsFold DEF b
<1>4. f[{}] = b
  BY <1>1, <1>2, FoldStarts
<1>5. \A k \in 1..n : f[1..k] = FoldStep("renders", c, f[1..(k - 1)], cs[k])
  BY <1>1, <1>2, FoldSteps
<1>6. 1 \in 1..n /\ 1..(1 - 1) = {}
  BY DEF n
<1>7. f[1..1] = FoldStep("renders", c, f[{}], cs[1])
  BY <1>5, <1>6
<1> QED BY <1>1, <1>3, <1>4, <1>7 DEF FoldStep, cs, b, n

LEMMA RenderThese ==
  ASSUME NEW c, NEW r, NEW x, NEW y
  PROVE  RenderAll(c, r, <<x, y>>) = RenderNext(c, RenderNext(c, Rendered(r, << >>), x), y)
<1> DEFINE cs == <<x, y>>
           b == Rendered(r, << >>)
<1>1. cs \in Seq({x, y}) /\ Len(cs) = 2 /\ 2 \in Nat /\ cs[1] = x /\ cs[2] = y
  OBVIOUS
<1> HIDE DEF cs, b
<1>2. PICK f : FoldOver("renders", c, b, cs, 2, f)
  BY <1>1, FoldExists
<1>3. RenderAll(c, r, cs) = f[1..2]
  BY <1>1, <1>2, RenderAllIsFold, ZenonT(30) DEF b
<1>4. f[{}] = b
  BY <1>1, <1>2, FoldStarts
<1>7. \A k \in 1..2 : f[1..k] = FoldStep("renders", c, f[1..(k - 1)], cs[k])
  BY <1>1, <1>2, FoldSteps
<1>5. 1..0 = {}
  OBVIOUS
<1>6. f[1..1] = FoldStep("renders", c, f[{}], cs[1]) /\ f[1..2] = FoldStep("renders", c, f[1..1], cs[2])
  BY <1>5, <1>7
<1> QED BY <1>1, <1>3, <1>4, <1>6 DEF FoldStep, cs, b

-----------------------------------------------------------------------------
(* What holds between provider, translator, renderer and client *)

Reasons == {"", "stop", "length", "tool_use", "max_tokens", "end_turn"}
Block == [open : BOOLEAN, input : Seq(Nat), ps : Seq(Nat)]
Accumulator == [begun : BOOLEAN, text : Seq(Nat), blocks : Seq(Block), tools : Seq(Nat),
                why : Reasons, ended : BOOLEAN, ok : BOOLEAN]
Renderer == [started : BOOLEAN, text : Int, spoke : BOOLEAN, next : Nat, slots : Seq(Nat),
             open : Seq(Nat), closed : BOOLEAN]
Usage == [{"inp", "out"} -> Nat]
Answer == [n : Nat, text : Seq(Nat), calls : Seq(Seq(Nat)), usage : Usage]

\* Anthropic's calls whose block has not stopped, by index.
Pending == UNION {[D -> Seq(Nat)] : D \in SUBSET Nat}
Translator == [text : Seq(Nat), blocks : Pending, calls : Seq(Seq(Nat)), why : {"stop", "length"}, usage : Usage]

\* The translator once it has the event that waits for its blank line.
Ahead == IF held = NoEvent THEN tr ELSE Push(pair[2], tr, held).t

\* It then knows what the provider said; Anthropic's open call is still among
\* its blocks.
Knows(t, u, answer, at) ==
  /\ t.text = answer.text
  /\ t.usage = answer.usage
  /\ IF at.open = 0 THEN answer.calls = t.calls
     ELSE /\ u = "anthropic" /\ at.phase = "body"
          /\ at.open = Len(t.calls) + 1
          /\ at.open \in DOMAIN t.blocks
          /\ answer.calls = Append(t.calls, t.blocks[at.open])

\* How far a provider can be.
Steps == [phase : {"start", "body", "last", "over"}, open : Nat]

\* What one event adds to the answer, and the chunks that say so.
Extended(calls, i, ps) ==
  IF i = Len(calls) THEN Append(calls, ps) ELSE [calls EXCEPT ![i + 1] = calls[i + 1] \o ps]

Same(s, t) == s.text = t.text /\ s.calls = t.calls

Passes(t, s, phase) ==
  \/ s.cs = << >> /\ Same(s.t, t)
  \/ s.cs = <<Role>> /\ Same(s.t, t)
  \/ \E p \in Nat : s.cs = <<TextChunk(p)>> /\ s.t.text = Append(t.text, p) /\ s.t.calls = t.calls
  \/ \E i \in 0..Len(t.calls), ps \in Seq(Nat) :
       s.cs = <<ToolChunk(i, ps)>> /\ s.t.text = t.text /\ s.t.calls = Extended(t.calls, i, ps)
  \/ \E why \in {"stop", "length"} : s.cs = <<FinishChunk(why)>> /\ Same(s.t, t)
  \/ \E why \in {"stop", "length"} : s.cs = <<FinishChunk(why), Done>> /\ Same(s.t, t) /\ phase = "over"
  \/ s.cs = <<Done>> /\ Same(s.t, t) /\ phase = "over"

\* A block that was given the arguments of a call.
Carries(b, ps) == b.ps = ps /\ (b.ps = << >> => b.input = << >>)

\* A client that has read what was rendered of a translator's text and calls.
OpenAIFollows(g, text, calls) ==
  /\ g \in Accumulator /\ g.ok /\ g.text = text
  /\ Len(g.blocks) = Len(calls) /\ Len(g.tools) = Len(calls)
  /\ \A j \in 1..Len(calls) : g.tools[j] = j - 1 /\ Carries(g.blocks[j], calls[j])

\* The blocks of Anthropic's client: one for each call, at its place, and the
\* one that text goes to are open, and no other.
Placed(blocks, text, places, calls) ==
  /\ blocks \in Seq(Block) /\ places \in Seq(Nat) /\ Len(places) = Len(calls)
  /\ text = NoBlock \/ text \in 0..(Len(blocks) - 1)
  /\ \A j \in 1..Len(calls) :
       /\ places[j] \in 0..(Len(blocks) - 1)
       /\ places[j] # text
       /\ Carries(blocks[places[j] + 1], calls[j])
  /\ \A j, k \in 1..Len(calls) : places[j] = places[k] => j = k
  /\ \A k \in 0..(Len(blocks) - 1) :
       blocks[k + 1].open <=> (k = text \/ \E j \in 1..Len(calls) : k = places[j])

AnthropicFollows(g, r, text, calls) ==
  /\ g \in Accumulator /\ g.ok /\ ~g.ended /\ g.text = text /\ g.tools = r.open
  /\ r \in Renderer /\ r.started = g.begun /\ r.next = Len(g.blocks)
  /\ ~r.spoke => text = << >>
  /\ Len(r.slots) = Len(calls) /\ \A j \in 1..Len(calls) : r.slots[j] = j - 1
  /\ Placed(g.blocks, r.text, r.open, calls)

GeminiFollows(g, r, text) ==
  /\ g \in Accumulator /\ g.ok /\ ~g.ended /\ g.text = text
  /\ r \in Renderer
  /\ ~r.spoke => text = << >>

Follows(c, g, r, text, calls) ==
  CASE c = "openai" -> OpenAIFollows(g, text, calls)
    [] c = "anthropic" -> AnthropicFollows(g, r, text, calls)
    [] c = "gemini" -> GeminiFollows(g, r, text)

\* While the answer may still grow: what was said is what the translator will
\* know,
Speaking ==
  /\ said \in Answer
  /\ up \in Steps
  /\ pair[2] = "gemini" => up.phase # "last"
  /\ tr \in Translator /\ Ahead \in Translator
  /\ Knows(Ahead, pair[2], said, up)
  /\ held # NoEvent => Passes(tr, Push(pair[2], tr, held), up.phase)

\* and client and renderer follow what it knows already.
Streaming ==
  /\ Speaking
  /\ Follows(pair[1], client, ren, tr.text, tr.calls)
  /\ client.ended => pair[1] = "openai" /\ up.phase = "over" /\ held = NoEvent

\* What the SDK has at the end, and whether it was told to run tools.
Told(g, calls) == g.why = "tool_use" <=> calls # << >>
Ends(g, text, calls) == g.ok /\ g.text = text /\ Calls(g) = calls

\* After the end, in order or not.
Closed ==
  /\ Ends(client, tr.text, tr.calls)
  /\ pair[1] # "openai" => client.ended
  /\ pair[1] = "anthropic" => Told(client, tr.calls)
  /\ IsPrefix(tr.text, said.text)
  /\ result = Completion(tr)
  /\ up.phase = "over" => said.text = tr.text /\ said.calls = tr.calls /\ said.usage = tr.usage

Failed ==
  /\ client.ok /\ client.text = tr.text
  /\ pair[1] # "openai" => client.ended
  /\ IsPrefix(tr.text, said.text)

\* What the completion of a finished stream holds.
Kept ==
  up.phase = "over" =>
    result.text = said.text /\ result.calls = said.calls /\ result.usage = said.usage

\* A stream no cut has touched; and of OpenAI's, which are kept as bytes, what
\* the translator makes of every other one.
StreamInv ==
  /\ pair \in Pairs
  /\ pc \in {"ask", "home", "sent", "relayed", "stream", "closed", "failed"}
  /\ cut = "none" =>
       /\ pc = "closed" => Closed
       /\ pc = "failed" => Failed
       /\ pc \notin {"closed", "failed"} => Streaming
  /\ pair[2] = "openai" =>
       /\ pc = "closed" => Kept
       /\ pc \notin {"closed", "failed"} => Speaking

-----------------------------------------------------------------------------
(* The blocks of Anthropic's client *)

\* One block, changed by the SDK.
LEMMA BlockShut ==
  ASSUME NEW b \in Block
  PROVE  LET d == [b EXCEPT !.open = FALSE] IN d \in Block /\ ~d.open /\ d.ps = b.ps /\ d.input = b.input
BY DEF Block

LEMMA BlockFilled ==
  ASSUME NEW b \in Block, NEW ps \in Seq(Nat)
  PROVE  LET d == [b EXCEPT !.ps = b.ps \o ps]
         IN d \in Block /\ d.open = b.open /\ d.ps = b.ps \o ps /\ d.input = b.input
<1>1. b.ps \o ps \in Seq(Nat)
  BY DEF Block
<1> QED BY <1>1 DEF Block

\* A change of one block leaves the others.
LEMMA OneBlockChanges ==
  ASSUME NEW blocks \in Seq(Block), NEW i \in 0..(Len(blocks) - 1), NEW d \in Block
  PROVE  LET bs == [blocks EXCEPT ![i + 1] = d]
         IN /\ bs \in Seq(Block) /\ Len(bs) = Len(blocks) /\ bs[i + 1] = d
            /\ \A k \in 0..(Len(blocks) - 1) : k # i => bs[k + 1] = blocks[k + 1]
<1>1. i + 1 \in 1..Len(blocks)
  OBVIOUS
<1> QED BY <1>1, ExceptSeq

\* The blocks stay placed when the text block closes, opens or takes text
\* and when a call opens its block or adds to it.
LEMMA TextBlockShut ==
  ASSUME NEW blocks, NEW i, NEW places, NEW calls \in Seq(Seq(Nat)),
         Placed(blocks, i, places, calls), i # NoBlock
  PROVE  Placed([blocks EXCEPT ![i + 1] = [blocks[i + 1] EXCEPT !.open = FALSE]], NoBlock, places, calls)
<1> DEFINE d == [blocks[i + 1] EXCEPT !.open = FALSE]
           bs == [blocks EXCEPT ![i + 1] = d]
<1>1. blocks \in Seq(Block) /\ i \in 0..(Len(blocks) - 1) /\ blocks[i + 1] \in Block
  BY DEF Placed
<1>2. d \in Block /\ ~d.open
  BY <1>1, BlockShut
<1> HIDE DEF d
<1>3. /\ bs \in Seq(Block) /\ Len(bs) = Len(blocks) /\ bs[i + 1] = d
      /\ \A k \in 0..(Len(blocks) - 1) : k # i => bs[k + 1] = blocks[k + 1]
  BY <1>1, <1>2, OneBlockChanges
<1> HIDE DEF bs
<1>4. ASSUME NEW j \in 1..Len(calls)
      PROVE  /\ places[j] \in 0..(Len(bs) - 1) /\ places[j] # NoBlock /\ bs[places[j] + 1] = blocks[places[j] + 1]
             /\ Carries(bs[places[j] + 1], calls[j])
  <2>1. places[j] \in 0..(Len(blocks) - 1) /\ places[j] # i /\ Carries(blocks[places[j] + 1], calls[j])
    BY DEF Placed
  <2>2. places[j] # NoBlock
    BY <2>1 DEF NoBlock
  <2> QED BY <1>3, <2>1, <2>2
<1>5. ASSUME NEW k \in 0..(Len(bs) - 1)
      PROVE  bs[k + 1].open <=> (k = NoBlock \/ \E j \in 1..Len(calls) : k = places[j])
  <2>1. k # NoBlock /\ k \in 0..(Len(blocks) - 1)
    BY <1>3 DEF NoBlock
  <2>2. CASE k = i
    <3>1. \A j \in 1..Len(calls) : places[j] # i
      BY DEF Placed
    <3> QED BY <1>2, <1>3, <2>1, <2>2, <3>1
  <2>3. CASE k # i
    <3>1. blocks[k + 1].open <=> \E j \in 1..Len(calls) : k = places[j]
      BY <2>1, <2>3 DEF Placed
    <3> QED BY <1>3, <2>1, <2>3, <3>1
  <2> QED BY <2>2, <2>3
<1>6. Placed(bs, NoBlock, places, calls)
  BY <1>3, <1>4, <1>5 DEF Placed
<1> QED BY <1>6 DEF bs, d

LEMMA TextBlockOpened ==
  ASSUME NEW blocks, NEW places, NEW calls \in Seq(Seq(Nat)), Placed(blocks, NoBlock, places, calls),
         NEW b \in Block, b.open
  PROVE  Placed(Append(blocks, b), Len(blocks), places, calls)
<1> DEFINE bs == Append(blocks, b)
           n == Len(blocks)
<1>1. blocks \in Seq(Block) /\ n \in Nat
  BY DEF Placed
<1>2. /\ bs \in Seq(Block) /\ Len(bs) = n + 1 /\ bs[n + 1] = b
      /\ \A k \in 0..(n - 1) : bs[k + 1] = blocks[k + 1] /\ k # n
  BY <1>1
<1> HIDE DEF bs
<1>3. ASSUME NEW j \in 1..Len(calls)
      PROVE  places[j] \in 0..(Len(bs) - 1) /\ places[j] # n /\ Carries(bs[places[j] + 1], calls[j])
  <2>1. places[j] \in 0..(n - 1) /\ Carries(blocks[places[j] + 1], calls[j])
    BY DEF Placed
  <2> DEFINE p == places[j]
  <2> HIDE DEF p, n
  <2>2. p \in 0..(n - 1) => p \in 0..((n + 1) - 1) /\ p # n /\ bs[p + 1] = blocks[p + 1]
    BY <1>1, <1>2
  <2> QED BY <1>2, <2>1, <2>2 DEF p
<1>4. ASSUME NEW k \in 0..(Len(bs) - 1)
      PROVE  bs[k + 1].open <=> (k = n \/ \E j \in 1..Len(calls) : k = places[j])
  <2>1. CASE k = n
    BY <1>2, <2>1
  <2>2. CASE k # n
    <3>1. k \in 0..(n - 1) /\ k # NoBlock
      BY <1>1, <1>2, <2>2 DEF NoBlock
    <3>2. blocks[k + 1].open <=> \E j \in 1..Len(calls) : k = places[j]
      BY <3>1 DEF Placed
    <3> QED BY <1>2, <2>2, <3>1, <3>2
  <2> QED BY <2>1, <2>2
<1>5. n \in 0..(Len(bs) - 1)
  BY <1>1, <1>2
<1> HIDE DEF n
<1>6. Placed(bs, n, places, calls)
  BY <1>2, <1>3, <1>4, <1>5 DEF Placed
<1> QED BY <1>6 DEF bs, n

LEMMA TextBlockFilled ==
  ASSUME NEW blocks, NEW i, NEW places, NEW calls \in Seq(Seq(Nat)), NEW ps \in Seq(Nat),
         Placed(blocks, i, places, calls), i # NoBlock
  PROVE  Placed([blocks EXCEPT ![i + 1] = [blocks[i + 1] EXCEPT !.ps = blocks[i + 1].ps \o ps]], i, places, calls)
<1> DEFINE d == [blocks[i + 1] EXCEPT !.ps = blocks[i + 1].ps \o ps]
           bs == [blocks EXCEPT ![i + 1] = d]
<1>1. blocks \in Seq(Block) /\ i \in 0..(Len(blocks) - 1) /\ blocks[i + 1] \in Block
  BY DEF Placed
<1>2. d \in Block /\ d.open = blocks[i + 1].open
  BY <1>1, BlockFilled
<1> HIDE DEF d
<1>3. /\ bs \in Seq(Block) /\ Len(bs) = Len(blocks) /\ bs[i + 1] = d
      /\ \A k \in 0..(Len(blocks) - 1) : k # i => bs[k + 1] = blocks[k + 1]
  BY <1>1, <1>2, OneBlockChanges
<1> HIDE DEF bs
<1>4. ASSUME NEW j \in 1..Len(calls)
      PROVE  places[j] \in 0..(Len(bs) - 1) /\ places[j] # i /\ Carries(bs[places[j] + 1], calls[j])
  <2>1. places[j] \in 0..(Len(blocks) - 1) /\ places[j] # i /\ Carries(blocks[places[j] + 1], calls[j])
    BY DEF Placed
  <2> QED BY <1>3, <2>1
<1>5. ASSUME NEW k \in 0..(Len(bs) - 1)
      PROVE  bs[k + 1].open <=> (k = i \/ \E j \in 1..Len(calls) : k = places[j])
  <2>1. k \in 0..(Len(blocks) - 1)
    BY <1>3
  <2>2. bs[k + 1].open = blocks[k + 1].open
    BY <1>2, <1>3, <2>1
  <2>3. blocks[k + 1].open <=> (k = i \/ \E j \in 1..Len(calls) : k = places[j])
    BY <2>1 DEF Placed
  <2> QED BY <2>2, <2>3
<1>6. Placed(bs, i, places, calls)
  BY <1>1, <1>3, <1>4, <1>5 DEF Placed
<1> QED BY <1>6 DEF bs, d

LEMMA ToolBlockOpened ==
  ASSUME NEW blocks, NEW places, NEW calls \in Seq(Seq(Nat)), Placed(blocks, NoBlock, places, calls),
         NEW ps \in Seq(Nat), NEW b \in Block, b.open, Carries(b, ps)
  PROVE  Placed(Append(blocks, b), NoBlock, Append(places, Len(blocks)), Append(calls, ps))
<1> DEFINE bs == Append(blocks, b)
           n == Len(blocks)
           m == Len(calls)
           cs == Append(calls, ps)
           qs == Append(places, n)
<1>1. blocks \in Seq(Block) /\ n \in Nat /\ m \in Nat /\ places \in Seq(Nat) /\ Len(places) = m
  BY DEF Placed
<1>2. /\ bs \in Seq(Block) /\ Len(bs) = n + 1 /\ bs[n + 1] = b
      /\ \A k \in 0..(n - 1) : bs[k + 1] = blocks[k + 1] /\ k # n /\ k # NoBlock /\ k \in 0..((n + 1) - 1)
  BY <1>1 DEF NoBlock
<1>3. Len(cs) = m + 1 /\ cs[m + 1] = ps /\ \A j \in 1..m : cs[j] = calls[j]
  BY <1>1
<1>4. qs \in Seq(Nat) /\ Len(qs) = m + 1 /\ qs[m + 1] = n /\ \A j \in 1..m : qs[j] = places[j]
  BY <1>1
<1> HIDE DEF bs, n, m, cs, qs
<1>5. n \in 0..((n + 1) - 1) /\ n # NoBlock
  BY <1>1 DEF NoBlock
<1>6. \A j \in 1..m : places[j] \in 0..(n - 1) /\ Carries(blocks[places[j] + 1], calls[j])
  BY DEF Placed, n, m
<1>7. \A j \in 1..(m + 1) : j \in 1..m \/ j = m + 1
  BY <1>1
<1>8. ASSUME NEW j \in 1..(m + 1)
      PROVE  qs[j] \in 0..((n + 1) - 1) /\ qs[j] # NoBlock /\ Carries(bs[qs[j] + 1], cs[j])
  <2>1. CASE j = m + 1
    BY <1>2, <1>3, <1>4, <1>5, <2>1
  <2>2. CASE j \in 1..m
    BY <1>2, <1>3, <1>4, <1>6, <2>2, ZenonT(30)
  <2> QED BY <1>7, <2>1, <2>2
<1>9. ASSUME NEW j \in 1..(m + 1), NEW k \in 1..(m + 1), qs[j] = qs[k] PROVE j = k
  <2>1. CASE j = m + 1 /\ k \in 1..m
    BY <1>2, <1>4, <1>6, <1>9, <2>1
  <2>2. CASE k = m + 1 /\ j \in 1..m
    BY <1>2, <1>4, <1>6, <1>9, <2>2
  <2>3. CASE j \in 1..m /\ k \in 1..m
    <3>1. places[j] = places[k]
      BY <1>4, <1>9, <2>3
    <3> QED BY <2>3, <3>1 DEF Placed, m
  <2> QED BY <1>7, <2>1, <2>2, <2>3
<1>10. ASSUME NEW k \in 0..((n + 1) - 1)
       PROVE  bs[k + 1].open <=> (k = NoBlock \/ \E j \in 1..(m + 1) : k = qs[j])
  <2>1. CASE k = n
    <3>1. m + 1 \in 1..(m + 1)
      BY <1>1
    <3> QED BY <1>2, <1>4, <2>1, <3>1
  <2>2. CASE k # n
    <3>1. k \in 0..(n - 1) /\ k # NoBlock
      BY <1>1, <2>2 DEF NoBlock
    <3>2. blocks[k + 1].open <=> \E j \in 1..m : k = places[j]
      BY <3>1 DEF Placed, n, m
    <3>3. (\E j \in 1..(m + 1) : k = qs[j]) <=> (\E j \in 1..m : k = places[j])
      <4>1. 1..m \subseteq 1..(m + 1)
        BY <1>1
      <4> QED BY <1>4, <1>7, <2>2, <4>1
    <3> QED BY <1>2, <3>1, <3>2, <3>3
  <2> QED BY <2>1, <2>2
<1>11. Placed(bs, NoBlock, qs, cs)
  BY <1>2, <1>3, <1>4, <1>8, <1>9, <1>10 DEF Placed
<1> QED BY <1>11 DEF bs, qs, cs, n

LEMMA ToolBlockFilled ==
  ASSUME NEW blocks, NEW places, NEW calls \in Seq(Seq(Nat)), Placed(blocks, NoBlock, places, calls),
         NEW ps \in Seq(Nat), NEW l \in 1..Len(calls)
  PROVE  LET i == places[l]
         IN Placed([blocks EXCEPT ![i + 1] = [blocks[i + 1] EXCEPT !.ps = blocks[i + 1].ps \o ps]],
                   NoBlock, places, [calls EXCEPT ![l] = calls[l] \o ps])
<1> DEFINE i == places[l]
           d == [blocks[i + 1] EXCEPT !.ps = blocks[i + 1].ps \o ps]
           bs == [blocks EXCEPT ![i + 1] = d]
           cs == [calls EXCEPT ![l] = calls[l] \o ps]
<1>1. blocks \in Seq(Block) /\ i \in 0..(Len(blocks) - 1) /\ Carries(blocks[i + 1], calls[l])
  BY DEF Placed
<1>2. blocks[i + 1] \in Block /\ calls[l] \in Seq(Nat)
  BY <1>1
<1>3. d \in Block /\ d.open = blocks[i + 1].open /\ d.ps = blocks[i + 1].ps \o ps /\ d.input = blocks[i + 1].input
  BY <1>2, BlockFilled
<1>4. Len(cs) = Len(calls) /\ cs[l] = calls[l] \o ps /\ \A j \in 1..Len(calls) : j # l => cs[j] = calls[j]
  BY <1>2
<1>5. Carries(d, cs[l])
  <2>1. blocks[i + 1].ps = calls[l] /\ (calls[l] = << >> => blocks[i + 1].input = << >>)
    BY <1>1 DEF Carries
  <2>2. calls[l] \o ps = << >> => calls[l] = << >>
    BY <1>2, ConcatEqualIffEmpty
  <2> HIDE DEF d, i, cs
  <2> QED BY <1>3, <1>4, <2>1, <2>2 DEF Carries
<1> HIDE DEF d, cs
<1>6. /\ bs \in Seq(Block) /\ Len(bs) = Len(blocks) /\ bs[i + 1] = d
      /\ \A k \in 0..(Len(blocks) - 1) : k # i => bs[k + 1] = blocks[k + 1]
  <2> HIDE DEF i
  <2> QED BY <1>1, <1>3, OneBlockChanges
<1> HIDE DEF bs
<1>7. ASSUME NEW j \in 1..Len(calls)
      PROVE  places[j] \in 0..(Len(bs) - 1) /\ places[j] # NoBlock /\ Carries(bs[places[j] + 1], cs[j])
  <2>1. places[j] \in 0..(Len(blocks) - 1) /\ places[j] # NoBlock /\ Carries(blocks[places[j] + 1], calls[j])
    BY DEF Placed
  <2>2. CASE j = l
    BY <1>5, <1>6, <2>1, <2>2
  <2>3. CASE j # l
    <3>1. places[j] # i
      BY <2>3 DEF Placed
    <3> QED BY <1>4, <1>6, <2>1, <2>3, <3>1
  <2> QED BY <2>2, <2>3
<1>8. ASSUME NEW k \in 0..(Len(bs) - 1)
      PROVE  bs[k + 1].open <=> (k = NoBlock \/ \E j \in 1..Len(calls) : k = places[j])
  <2>1. k \in 0..(Len(blocks) - 1)
    BY <1>6
  <2>2. bs[k + 1].open = blocks[k + 1].open
    BY <1>3, <1>6, <2>1
  <2>3. blocks[k + 1].open <=> (k = NoBlock \/ \E j \in 1..Len(calls) : k = places[j])
    BY <2>1 DEF Placed
  <2> QED BY <2>2, <2>3
<1>9. Placed(bs, NoBlock, places, cs)
  BY <1>4, <1>6, <1>7, <1>8 DEF Placed
<1> QED BY <1>9 DEF bs, d, cs

-----------------------------------------------------------------------------
(* Anthropic's client, one event at a time *)

\* An accumulator with other blocks, text and tools.
Changed(g, h, blocks, text, tools) ==
  /\ h \in Accumulator /\ h.blocks = blocks /\ h.text = text /\ h.tools = tools
  /\ h.begun = g.begun /\ h.why = g.why /\ h.ended = g.ended /\ h.ok = g.ok

\* What the SDK's three operations do to the rest of its accumulator.
LEMMA StopChanges ==
  ASSUME NEW g \in Accumulator, NEW i \in Nat, i < Len(g.blocks), g.blocks[i + 1].open,
         NEW bs \in Seq(Block), bs = [g.blocks EXCEPT ![i + 1] = [g.blocks[i + 1] EXCEPT !.open = FALSE]]
  PROVE  Changed(g, Stop(g, i), bs, g.text, g.tools)
<1>1. Stop(g, i) = [g EXCEPT !.blocks[i + 1].open = FALSE]
  BY DEF Stop, Within
<1> QED BY <1>1 DEF Changed, Accumulator

LEMMA ExtendChanges ==
  ASSUME NEW g \in Accumulator, NEW i \in Nat, i < Len(g.blocks), g.blocks[i + 1].open, NEW ps \in Seq(Nat),
         NEW bs \in Seq(Block),
         bs = [g.blocks EXCEPT ![i + 1] = [g.blocks[i + 1] EXCEPT !.ps = g.blocks[i + 1].ps \o ps]]
  PROVE  Changed(g, Extend(g, i, ps), bs, IF IsTool(g, i) THEN g.text ELSE g.text \o ps, g.tools)
<1> DEFINE zs == IF IsTool(g, i) THEN g.text ELSE g.text \o ps
<1>1. Extend(g, i, ps) = [g EXCEPT !.blocks[i + 1].ps = g.blocks[i + 1].ps \o ps, !.text = zs]
  BY DEF Extend, Within
<1>2. zs \in Seq(Nat)
  BY DEF Accumulator
<1> HIDE DEF zs
<1>3. Changed(g, Extend(g, i, ps), bs, zs, g.tools)
  BY <1>1, <1>2 DEF Changed, Accumulator
<1> QED BY <1>3 DEF zs

LEMMA BeginChanges ==
  ASSUME NEW g \in Accumulator, g.ok, g.begun, ~g.ended, NEW ps \in Seq(Nat), NEW i \in Nat, i = Len(g.blocks),
         NEW bs \in Seq(Block), bs = Append(g.blocks, [open |-> TRUE, input |-> ps, ps |-> << >>]),
         NEW ts \in Seq(Nat), ts = Append(g.tools, i)
  PROVE  /\ Changed(g, Begin(g, TRUE, i, ps), bs, g.text, ts)
         /\ Changed(g, Begin(g, FALSE, i, ps), bs, g.text, g.tools)
<1>1. Changed(g, Begin(g, TRUE, i, ps), bs, g.text, ts)
  BY DEF Changed, Begin, Accumulator
<1>2. Changed(g, Begin(g, FALSE, i, ps), bs, g.text, g.tools)
  BY DEF Changed, Begin, Accumulator
<1> QED BY <1>1, <1>2

\* A renderer by its fields.
Is(q, started, text, spoke, next, slots, open) ==
  /\ q \in Renderer /\ q.started = started /\ q.text = text /\ q.spoke = spoke /\ q.next = next
  /\ q.slots = slots /\ q.open = open

\* The client follows through each event the renderer writes: message_start,
LEMMA AnthropicBegins ==
  ASSUME NEW g, NEW r, NEW q, NEW text \in Seq(Nat), NEW calls \in Seq(Seq(Nat)),
         AnthropicFollows(g, r, text, calls), Is(q, TRUE, r.text, r.spoke, r.next, r.slots, r.open)
  PROVE  AnthropicFollows(Reads("anthropic", g, MessageStart(r)), q, text, calls)
<1>1. g \in Accumulator /\ r \in Renderer /\ g.ok
  BY DEF AnthropicFollows
<1>2. CASE r.started
  <2>1. Reads("anthropic", g, MessageStart(r)) = g
    BY <1>2, ReadsNone DEF MessageStart
  <2> QED BY <1>2, <2>1 DEF AnthropicFollows, Is
<1>3. CASE ~r.started
  <2> DEFINE h == [g EXCEPT !.begun = TRUE, !.ok = @ /\ ~g.begun]
  <2>1. Reads("anthropic", g, MessageStart(r)) = ReadOne("anthropic", g, Ev("message_start", 0, << >>))
    BY <1>3, ReadsThis DEF MessageStart
  <2>2. ReadOne("anthropic", g, Ev("message_start", 0, << >>)) = h
    BY DEF ReadOne, AnthropicReads, Ev
  <2>3. ~g.begun
    BY <1>1, <1>3 DEF AnthropicFollows
  <2>4. h \in Accumulator /\ h.ok /\ h.ended = g.ended /\ h.text = g.text /\ h.begun /\ h.blocks = g.blocks /\ h.tools = g.tools
    BY <1>1, <2>3 DEF Accumulator
  <2> HIDE DEF h
  <2>5. AnthropicFollows(h, q, text, calls)
    BY <2>4 DEF AnthropicFollows, Is
  <2> QED BY <2>1, <2>2, <2>5
<1> QED BY <1>2, <1>3

\* the stop of the text block,
LEMMA AnthropicCloses ==
  ASSUME NEW g, NEW r, NEW q, NEW text \in Seq(Nat), NEW calls \in Seq(Seq(Nat)),
         AnthropicFollows(g, r, text, calls), Is(q, r.started, NoBlock, r.spoke, r.next, r.slots, r.open)
  PROVE  AnthropicFollows(Reads("anthropic", g, CloseTextBlock(r)), q, text, calls)
<1> DEFINE i == r.text
           bs == [g.blocks EXCEPT ![i + 1] = [g.blocks[i + 1] EXCEPT !.open = FALSE]]
           h == Stop(g, i)
<1>1. g \in Accumulator /\ r \in Renderer
  BY DEF AnthropicFollows
<1>2. CASE r.text = NoBlock
  <2>1. Reads("anthropic", g, CloseTextBlock(r)) = g
    BY <1>2, ReadsNone DEF CloseTextBlock
  <2> QED BY <1>2, <2>1 DEF AnthropicFollows, Is
<1>3. CASE r.text # NoBlock
  <2>1. Reads("anthropic", g, CloseTextBlock(r)) = ReadOne("anthropic", g, Ev("block_stop", r.text, << >>))
    BY <1>3, ReadsThis DEF CloseTextBlock
  <2>2. ReadOne("anthropic", g, Ev("block_stop", r.text, << >>)) = h
    BY DEF ReadOne, AnthropicReads, Ev
  <2>3. Placed(g.blocks, i, r.open, calls)
    BY DEF AnthropicFollows
  <2>4. i \in Nat /\ i < Len(g.blocks) /\ g.blocks[i + 1].open
    BY <1>3, <2>3 DEF Placed
  <2>5. Placed(bs, NoBlock, r.open, calls)
    <3> HIDE DEF i
    <3> QED BY <1>3, <2>3, TextBlockShut DEF i
  <2>6. bs \in Seq(Block) /\ Len(bs) = Len(g.blocks)
    <3>1. bs \in Seq(Block)
      BY <2>5 DEF Placed
    <3> QED BY <1>1, <3>1 DEF Accumulator
  <2>7. Changed(g, h, bs, g.text, g.tools)
    BY <1>1, <2>4, <2>6, StopChanges
  <2> HIDE DEF h, bs
  <2>8. AnthropicFollows(h, q, text, calls)
    BY <2>5, <2>6, <2>7 DEF AnthropicFollows, Changed, Is
  <2> QED BY <2>1, <2>2, <2>8
<1> QED BY <1>2, <1>3

\* its start,
LEMMA AnthropicOpensText ==
  ASSUME NEW g, NEW r, NEW q, NEW text \in Seq(Nat), NEW calls \in Seq(Seq(Nat)),
         AnthropicFollows(g, r, text, calls), r.started, r.text = NoBlock,
         Is(q, r.started, r.next, TRUE, r.next + 1, r.slots, r.open)
  PROVE  AnthropicFollows(ReadOne("anthropic", g, Ev("text_start", r.next, << >>)), q, text, calls)
<1> DEFINE b == [open |-> TRUE, input |-> << >>, ps |-> << >>]
           n == r.next
           bs == Append(g.blocks, b)
           ts == Append(g.tools, n)
           h == Begin(g, FALSE, n, << >>)
<1>1. g \in Accumulator /\ r \in Renderer /\ g.ok /\ g.begun /\ ~g.ended
  BY DEF AnthropicFollows
<1>2. n \in Nat /\ n = Len(g.blocks) /\ g.blocks \in Seq(Block) /\ b \in Block /\ b.open /\ g.tools \in Seq(Nat)
  BY <1>1 DEF AnthropicFollows, Renderer, Accumulator, Block
<1>3. ReadOne("anthropic", g, Ev("text_start", n, << >>)) = h
  BY DEF ReadOne, AnthropicReads, Ev
<1>4. bs \in Seq(Block) /\ ts \in Seq(Nat) /\ Len(bs) = n + 1
  BY <1>2
<1>5. << >> \in Seq(Nat)
  OBVIOUS
<1>6. Changed(g, h, bs, g.text, g.tools)
  <2> HIDE DEF n, h, ts
  <2> QED BY <1>1, <1>2, <1>4, <1>5, BeginChanges DEF h, ts
<1>7. Placed(bs, n, r.open, calls)
  <2>1. Placed(g.blocks, NoBlock, r.open, calls)
    BY DEF AnthropicFollows
  <2> HIDE DEF b, n
  <2> QED BY <1>2, <2>1, TextBlockOpened
<1> HIDE DEF h, bs
<1>8. AnthropicFollows(h, q, text, calls)
  BY <1>4, <1>6, <1>7 DEF AnthropicFollows, Changed, Is
<1> QED BY <1>3, <1>8

\* a delta of it,
LEMMA AnthropicTakesText ==
  ASSUME NEW g, NEW r, NEW text \in Seq(Nat), NEW calls \in Seq(Seq(Nat)), NEW ps \in Seq(Nat),
         AnthropicFollows(g, r, text, calls), r.spoke, r.text # NoBlock
  PROVE  AnthropicFollows(ReadOne("anthropic", g, Ev("delta", r.text, ps)), r, text \o ps, calls)
<1> DEFINE i == r.text
           bs == [g.blocks EXCEPT ![i + 1] = [g.blocks[i + 1] EXCEPT !.ps = g.blocks[i + 1].ps \o ps]]
           h == Extend(g, i, ps)
<1>1. g \in Accumulator /\ r \in Renderer /\ g.text = text
  BY DEF AnthropicFollows
<1>2. Placed(g.blocks, i, r.open, calls)
  BY DEF AnthropicFollows
<1>3. i \in Nat /\ i < Len(g.blocks) /\ g.blocks[i + 1].open
  BY <1>2 DEF Placed
<1>4. ReadOne("anthropic", g, Ev("delta", i, ps)) = h
  BY DEF ReadOne, AnthropicReads, Ev
<1>5. Placed(bs, i, r.open, calls)
  <2> HIDE DEF i
  <2> QED BY <1>2, TextBlockFilled DEF i
<1>6. bs \in Seq(Block) /\ Len(bs) = Len(g.blocks)
  <2>1. bs \in Seq(Block)
    BY <1>5 DEF Placed
  <2> QED BY <1>1, <2>1 DEF Accumulator
<1>7. ~IsTool(g, i)
  <2>1. g.tools = r.open /\ r.open \in Seq(Nat) /\ Len(r.open) = Len(calls) /\ \A j \in 1..Len(calls) : r.open[j] # i
    BY <1>2 DEF AnthropicFollows, Placed
  <2>2. DOMAIN r.open = 1..Len(calls)
    BY <2>1
  <2> HIDE DEF i
  <2> QED BY <2>1, <2>2 DEF IsTool
<1>8. Changed(g, h, bs, text \o ps, g.tools)
  <2> HIDE DEF i, h
  <2>1. Changed(g, h, bs, IF IsTool(g, i) THEN g.text ELSE g.text \o ps, g.tools)
    BY <1>1, <1>3, <1>6, ExtendChanges DEF h
  <2> QED BY <1>1, <1>7, <2>1
<1> HIDE DEF h, bs
<1>9. AnthropicFollows(h, r, text \o ps, calls)
  BY <1>5, <1>6, <1>8 DEF AnthropicFollows, Changed
<1> QED BY <1>4, <1>9

\* The last block of a sequence filled.
LEMMA LastFilled ==
  ASSUME NEW blocks \in Seq(Block), NEW b \in Block, NEW d \in Block, NEW n, n = Len(blocks)
  PROVE  [Append(blocks, b) EXCEPT ![n + 1] = d] = Append(blocks, d)
<1> DEFINE xs == [Append(blocks, b) EXCEPT ![n + 1] = d]
           ys == Append(blocks, d)
           zs == Append(blocks, b)
<1>1. zs \in Seq(Block) /\ Len(zs) = n + 1 /\ n + 1 \in 1..Len(zs) /\ n \in Nat /\ \A k \in 1..n : zs[k] = blocks[k]
  OBVIOUS
<1>2. xs \in Seq(Block) /\ Len(xs) = n + 1 /\ xs[n + 1] = d /\ \A k \in 1..n : xs[k] = blocks[k]
  <2> DEFINE i == n + 1
  <2>1. i \in 1..Len(zs) /\ \A k \in 1..n : k # i /\ k \in 1..Len(zs)
    BY <1>1
  <2> HIDE DEF zs, i
  <2>2. /\ [zs EXCEPT ![i] = d] \in Seq(Block) /\ Len([zs EXCEPT ![i] = d]) = Len(zs)
        /\ \A j \in 1..Len(zs) : [zs EXCEPT ![i] = d][j] = IF j = i THEN d ELSE zs[j]
    BY <1>1, <2>1, ExceptSeq
  <2>3. xs = [zs EXCEPT ![i] = d]
    BY DEF zs, i
  <2> HIDE DEF xs
  <2>4. Len(xs) = n + 1 /\ xs[i] = d
    BY <1>1, <2>1, <2>2, <2>3
  <2> QED BY <1>1, <2>1, <2>2, <2>3, <2>4 DEF i
<1>3. ys \in Seq(Block) /\ Len(ys) = n + 1 /\ ys[n + 1] = d /\ \A k \in 1..n : ys[k] = blocks[k]
  OBVIOUS
<1> HIDE DEF xs, ys
<1>4. \A k \in 1..(n + 1) : xs[k] = ys[k]
  BY <1>1, <1>2, <1>3
<1>5. xs = ys
  BY <1>2, <1>3, <1>4
<1> QED BY <1>5 DEF xs, ys

\* the start and first delta of a tool call,
LEMMA AnthropicCalls ==
  ASSUME NEW g, NEW r, NEW q, NEW text \in Seq(Nat), NEW calls \in Seq(Seq(Nat)), NEW ps \in Seq(Nat),
         AnthropicFollows(g, r, text, calls), r.started, r.text = NoBlock,
         Is(q, r.started, NoBlock, r.spoke, r.next + 1, Append(r.slots, Len(calls)), Append(r.open, r.next))
  PROVE  AnthropicFollows(Reads("anthropic", g, <<Ev("tool_start", r.next, ps), Ev("delta", r.next, ps)>>),
                          q, text, Append(calls, ps))
<1> DEFINE n == r.next
           b == [open |-> TRUE, input |-> ps, ps |-> << >>]
           d == [b EXCEPT !.ps = b.ps \o ps]
           bs == Append(g.blocks, b)
           ds == Append(g.blocks, d)
           ts == Append(g.tools, n)
           h == Begin(g, TRUE, n, ps)
           f == Extend(h, n, ps)
<1>1. g \in Accumulator /\ r \in Renderer /\ g.ok /\ g.begun /\ ~g.ended /\ g.text = text /\ g.tools = r.open
  BY DEF AnthropicFollows
<1>2. n \in Nat /\ n = Len(g.blocks) /\ g.blocks \in Seq(Block) /\ g.tools \in Seq(Nat)
  BY <1>1 DEF AnthropicFollows, Renderer, Accumulator
<1>3. b \in Block /\ b.open /\ d \in Block /\ d.open /\ d.ps = ps /\ d.input = ps
  <2>1. << >> \o ps = ps /\ << >> \in Seq(Nat)
    OBVIOUS
  <2>2. b \in Block /\ b.open /\ b.ps = << >> /\ b.input = ps
    BY <2>1 DEF Block
  <2> HIDE DEF b
  <2>3. d \in Block /\ d.open = b.open /\ d.ps = b.ps \o ps /\ d.input = b.input
    BY <2>2, BlockFilled
  <2>4. b.ps \o ps = ps
    BY <2>1, <2>2
  <2> QED BY <2>2, <2>3, <2>4
<1>4. Reads("anthropic", g, <<Ev("tool_start", n, ps), Ev("delta", n, ps)>>) = f
  <2>1. ReadOne("anthropic", g, Ev("tool_start", n, ps)) = h
    BY DEF ReadOne, AnthropicReads, Ev
  <2>2. ReadOne("anthropic", h, Ev("delta", n, ps)) = f
    BY DEF ReadOne, AnthropicReads, Ev
  <2> HIDE DEF n, h, f
  <2> QED BY <2>1, <2>2, ReadsThese
<1>5. bs \in Seq(Block) /\ ts \in Seq(Nat) /\ Len(bs) = n + 1 /\ bs[n + 1] = b /\ ds \in Seq(Block) /\ Len(ds) = n + 1
      /\ Len(ts) = Len(g.tools) + 1 /\ ts[Len(g.tools) + 1] = n
  BY <1>2, <1>3
<1>6. Changed(g, h, bs, g.text, ts)
  <2> HIDE DEF n, h, ts, bs
  <2> QED BY <1>1, <1>2, <1>5, BeginChanges DEF h, ts, bs
<1>7. [bs EXCEPT ![n + 1] = d] = ds
  <2> HIDE DEF n, b, d
  <2> QED BY <1>2, <1>3, LastFilled
<1>8. Placed(ds, NoBlock, Append(r.open, n), Append(calls, ps))
  <2>1. Placed(g.blocks, NoBlock, r.open, calls)
    BY DEF AnthropicFollows
  <2> HIDE DEF d, n
  <2>2. d.open /\ Carries(d, ps)
    BY <1>3 DEF Carries
  <2> QED BY <1>2, <1>3, <2>1, <2>2, ToolBlockOpened
<1> HIDE DEF h, bs, ds, ts, n, b, d
<1>9. IsTool(h, n)
  <2>1. Len(g.tools) + 1 \in DOMAIN ts
    BY <1>2, <1>5
  <2> QED BY <1>5, <1>6, <2>1 DEF IsTool, Changed
<1>10. [bs EXCEPT ![n + 1] = [bs[n + 1] EXCEPT !.ps = bs[n + 1].ps \o ps]] = ds
  <2>1. [bs[n + 1] EXCEPT !.ps = bs[n + 1].ps \o ps] = d
    BY <1>5 DEF d
  <2> QED BY <1>7, <2>1
<1>11. Changed(h, f, ds, IF IsTool(h, n) THEN h.text ELSE h.text \o ps, h.tools)
  <2>1. h \in Accumulator /\ h.blocks = bs /\ n < Len(h.blocks) /\ h.blocks[n + 1].open
    BY <1>2, <1>3, <1>5, <1>6 DEF Changed
  <2> QED BY <1>2, <1>5, <1>10, <2>1, ExtendChanges
<1>12. Changed(g, f, ds, text, ts)
  BY <1>1, <1>6, <1>9, <1>11 DEF Changed
<1> HIDE DEF f
<1>13. AnthropicFollows(f, q, text, Append(calls, ps))
  <2> DEFINE cs == Append(calls, ps)
             m == Len(calls)
             ss == Append(r.slots, m)
  <2>1. q.slots = ss /\ q.open = Append(r.open, n) /\ q \in Renderer /\ q.started = r.started /\ q.text = NoBlock
        /\ q.spoke = r.spoke /\ q.next = n + 1
    BY DEF Is, n
  <2>2. m \in Nat /\ Len(cs) = m + 1 /\ r.slots \in Seq(Nat) /\ Len(r.slots) = m /\ \A j \in 1..m : r.slots[j] = j - 1
    BY <1>1 DEF AnthropicFollows, Renderer
  <2>3. Len(ss) = m + 1 /\ \A j \in 1..(m + 1) : ss[j] = j - 1
    <3> HIDE DEF m
    <3> QED BY <2>2
  <2>4. Placed(ds, NoBlock, q.open, cs)
    BY <1>8, <2>1
  <2>5. ~r.spoke => text = << >>
    BY DEF AnthropicFollows
  <2>6. f \in Accumulator /\ f.ok /\ ~f.ended /\ f.text = text /\ f.tools = q.open /\ q.started = f.begun
        /\ q.next = Len(f.blocks) /\ f.blocks = ds
    BY <1>1, <1>5, <1>12, <2>1 DEF Changed, ts
  <2> HIDE DEF cs, ss, m
  <2>7. AnthropicFollows(f, q, text, cs)
    BY <2>1, <2>2, <2>3, <2>4, <2>5, <2>6 DEF AnthropicFollows
  <2> QED BY <2>7 DEF cs
<1> QED BY <1>4, <1>13 DEF n

\* and a further fragment of a call.
LEMMA AnthropicCallsMore ==
  ASSUME NEW g, NEW r, NEW text \in Seq(Nat), NEW calls \in Seq(Seq(Nat)), NEW ps \in Seq(Nat),
         NEW l \in 1..Len(calls), AnthropicFollows(g, r, text, calls), r.text = NoBlock
  PROVE  AnthropicFollows(ReadOne("anthropic", g, Ev("delta", r.open[l], ps)), r, text,
                          [calls EXCEPT ![l] = calls[l] \o ps])
<1> DEFINE i == r.open[l]
           bs == [g.blocks EXCEPT ![i + 1] = [g.blocks[i + 1] EXCEPT !.ps = g.blocks[i + 1].ps \o ps]]
           cs == [calls EXCEPT ![l] = calls[l] \o ps]
           h == Extend(g, i, ps)
<1>1. g \in Accumulator /\ r \in Renderer /\ g.text = text
  BY DEF AnthropicFollows
<1>2. Placed(g.blocks, NoBlock, r.open, calls)
  BY DEF AnthropicFollows
<1>3. i \in Nat /\ i < Len(g.blocks) /\ g.blocks[i + 1].open
  <2>1. g.blocks \in Seq(Block) /\ i \in 0..(Len(g.blocks) - 1)
    BY <1>2 DEF Placed
  <2>2. g.blocks[i + 1].open <=> (i = NoBlock \/ \E j \in 1..Len(calls) : i = r.open[j])
    <3>1. \A k \in 0..(Len(g.blocks) - 1) :
            g.blocks[k + 1].open <=> (k = NoBlock \/ \E j \in 1..Len(calls) : k = r.open[j])
      BY <1>2 DEF Placed
    <3> HIDE DEF i
    <3> QED BY <2>1, <3>1
  <2>3. \E j \in 1..Len(calls) : i = r.open[j]
    OBVIOUS
  <2>4. i \in Nat /\ i < Len(g.blocks)
    BY <2>1
  <2> HIDE DEF i
  <2> QED BY <2>2, <2>3, <2>4
<1>4. ReadOne("anthropic", g, Ev("delta", i, ps)) = h
  BY DEF ReadOne, AnthropicReads, Ev
<1>5. Placed(bs, NoBlock, r.open, cs)
  BY <1>2, ToolBlockFilled
<1>6. bs \in Seq(Block) /\ Len(bs) = Len(g.blocks)
  <2>1. bs \in Seq(Block)
    BY <1>5 DEF Placed
  <2> QED BY <1>1, <2>1 DEF Accumulator
<1>7. IsTool(g, i)
  <2>1. g.tools = r.open /\ r.open \in Seq(Nat) /\ Len(r.open) = Len(calls)
    BY <1>2 DEF AnthropicFollows, Placed
  <2>2. l \in DOMAIN r.open
    BY <2>1
  <2> QED BY <2>1, <2>2 DEF IsTool
<1>8. Changed(g, h, bs, text, g.tools)
  <2> HIDE DEF i, h
  <2>1. Changed(g, h, bs, IF IsTool(g, i) THEN g.text ELSE g.text \o ps, g.tools)
    BY <1>1, <1>3, <1>6, ExtendChanges DEF h
  <2> QED BY <1>1, <1>7, <2>1
<1>10. Len(cs) = Len(calls)
  OBVIOUS
<1> HIDE DEF h, bs, cs
<1>9. AnthropicFollows(h, r, text, cs)
  BY <1>5, <1>6, <1>8, <1>10 DEF AnthropicFollows, Changed
<1> QED BY <1>4, <1>9 DEF cs

-----------------------------------------------------------------------------
(* Anthropic's client, one chunk at a time *)

Kinds == {"message_start", "text_start", "tool_start", "delta", "block_stop"}
Event == [k : Kinds, i : Int, ps : Seq(Nat)]

\* What the renderer writes are events, alone or joined.
LEMMA EvIsEvent ==
  ASSUME NEW k \in Kinds, NEW i \in Int, NEW ps \in Seq(Nat) PROVE Ev(k, i, ps) \in Event
BY DEF Ev, Event

LEMMA OneEvent == ASSUME NEW e \in Event PROVE <<e>> \in Seq(Event)
OBVIOUS

LEMMA NoEvents == << >> \in Seq(Event) /\ << >> \in Seq(Nat)
OBVIOUS

LEMMA EventsOf ==
  ASSUME NEW r \in Renderer
  PROVE  /\ MessageStart(r) \in Seq(Event)
         /\ CloseTextBlock(r) \in Seq(Event)
<1>1. r.text \in Int
  BY DEF Renderer
<1>2. Ev("message_start", 0, << >>) \in Event /\ Ev("block_stop", r.text, << >>) \in Event
  <2> DEFINE z == 0
             w == r.text
             o == << >>
  <2>1. z \in Int /\ w \in Int /\ o \in Seq(Nat) /\ "message_start" \in Kinds /\ "block_stop" \in Kinds
    BY <1>1 DEF Kinds
  <2> HIDE DEF z, w, o
  <2>2. Ev("message_start", z, o) \in Event /\ Ev("block_stop", w, o) \in Event
    BY <2>1, EvIsEvent
  <2> QED BY <2>2 DEF z, w, o
<1> QED BY <1>2, OneEvent, NoEvents DEF MessageStart, CloseTextBlock

LEMMA TwoInARow == ASSUME NEW x, NEW y PROVE <<x>> \o <<y>> = <<x, y>>
<1> DEFINE s == <<x>> \o <<y>>
           t == <<x, y>>
<1>1. s \in Seq({x, y}) /\ Len(s) = 2 /\ s[1] = x /\ s[2] = y
  OBVIOUS
<1>2. t \in Seq({x, y}) /\ Len(t) = 2 /\ t[1] = x /\ t[2] = y
  OBVIOUS
<1> HIDE DEF s, t
<1>3. s = t
  BY <1>1, <1>2, SeqEqual
<1> QED BY <1>3 DEF s, t

\* Three groups of events in a row.
LEMMA ReadsThree ==
  ASSUME NEW c, NEW g, NEW a \in Seq(Event), NEW b \in Seq(Event), NEW d \in Seq(Event)
  PROVE  Reads(c, g, a \o b \o d) = Reads(c, Reads(c, Reads(c, g, a), b), d)
<1> DEFINE ab == a \o b
<1>1. ab \in Seq(Event)
  OBVIOUS
<1>3. Reads(c, g, ab) = Reads(c, Reads(c, g, a), b)
  BY ReadsOn
<1> HIDE DEF ab
<1>2. Reads(c, g, ab \o d) = Reads(c, Reads(c, g, ab), d)
  BY <1>1, ReadsOn
<1> QED BY <1>2, <1>3 DEF ab

\* What a chunk does to the renderer.
LEMMA SpeakingChanges ==
  ASSUME NEW r \in Renderer, NEW i \in Int, NEW n \in Nat
  PROVE  Is([r EXCEPT !.started = TRUE, !.spoke = TRUE, !.text = i, !.next = n],
            TRUE, i, TRUE, n, r.slots, r.open)
BY DEF Is, Renderer

LEMMA StartingChanges ==
  ASSUME NEW r \in Renderer, NEW s, s = [r EXCEPT !.started = TRUE]
  PROVE  Is(s, TRUE, r.text, r.spoke, r.next, r.slots, r.open)
BY DEF Is, Renderer

\* _emit_text: whatever came before, the text lands in an open text block.
LEMMA AnthropicText ==
  ASSUME NEW g, NEW r, NEW text \in Seq(Nat), NEW calls \in Seq(Seq(Nat)), NEW ps \in Seq(Nat),
         AnthropicFollows(g, r, text, calls)
  PROVE  /\ EmitText(r, ps).es \in Seq(Event)
         /\ AnthropicFollows(Reads("anthropic", g, EmitText(r, ps).es), EmitText(r, ps).r, text \o ps, calls)
<1> DEFINE q == [r EXCEPT !.started = TRUE]
           fresh == r.text = NoBlock
           i == IF fresh THEN r.next ELSE r.text
           n == IF fresh THEN r.next + 1 ELSE r.next
           s == [r EXCEPT !.started = TRUE, !.spoke = TRUE, !.text = i, !.next = n]
           a == MessageStart(r)
           b == IF fresh THEN <<Ev("text_start", i, << >>)>> ELSE << >>
           d == <<Ev("delta", i, ps)>>
           h == Reads("anthropic", g, a)
           f == Reads("anthropic", h, b)
<1>1. r \in Renderer /\ Placed(g.blocks, r.text, r.open, calls)
  BY DEF AnthropicFollows
<1>2. EmitText(r, ps).r = s /\ EmitText(r, ps).es = a \o b \o d
  <2>1. EmitText(r, ps) = Rendered(s, a \o b \o d)
    BY DEF EmitText
  <2> HIDE DEF s, a, b, d
  <2> QED BY <2>1 DEF Rendered
<1>3. i \in Nat /\ n \in Nat
  BY <1>1 DEF Placed, Renderer
<1>4. a \in Seq(Event) /\ b \in Seq(Event) /\ d \in Seq(Event)
  <2>1. Ev("text_start", i, << >>) \in Event /\ Ev("delta", i, ps) \in Event
    <3> DEFINE o == << >>
    <3>1. i \in Int /\ o \in Seq(Nat) /\ "text_start" \in Kinds /\ "delta" \in Kinds
      BY <1>3 DEF Kinds
    <3> HIDE DEF i, o
    <3>2. Ev("text_start", i, o) \in Event /\ Ev("delta", i, ps) \in Event
      BY <3>1, EvIsEvent
    <3> QED BY <3>2 DEF o
  <2>2. a \in Seq(Event)
    BY <1>1, EventsOf
  <2> HIDE DEF i, a
  <2> QED BY <2>1, <2>2, OneEvent, NoEvents
<1>5. Is(q, TRUE, r.text, r.spoke, r.next, r.slots, r.open)
  BY <1>1, StartingChanges
<1>6. Is(s, TRUE, i, TRUE, n, r.slots, r.open)
  <2>1. i \in Int
    BY <1>3
  <2> HIDE DEF i, n
  <2> QED BY <1>1, <1>3, <2>1, SpeakingChanges
<1> HIDE DEF q, s
<1>7. AnthropicFollows(h, q, text, calls)
  BY <1>5, AnthropicBegins
<1> HIDE DEF h
<1>8. AnthropicFollows(f, s, text, calls)
  <2>1. CASE fresh
    <3>1. Is(s, q.started, q.next, TRUE, q.next + 1, q.slots, q.open) /\ q.started /\ q.text = NoBlock /\ q.next = r.next
      BY <1>5, <1>6, <2>1 DEF Is
    <3>2. f = ReadOne("anthropic", h, Ev("text_start", q.next, << >>))
      BY <2>1, <3>1, ReadsThis
    <3> HIDE DEF f
    <3> QED BY <1>7, <3>1, <3>2, AnthropicOpensText
  <2>2. CASE ~fresh
    <3>1. f = h
      BY <2>2, ReadsNone
    <3> HIDE DEF f
    <3> QED BY <1>5, <1>6, <1>7, <2>2, <3>1 DEF AnthropicFollows, Is
  <2> QED BY <2>1, <2>2
<1>9. AnthropicFollows(Reads("anthropic", f, d), s, text \o ps, calls)
  <2>1. s.spoke /\ s.text = i /\ i # NoBlock
    BY <1>3, <1>6 DEF Is, NoBlock
  <2> HIDE DEF f, i
  <2>2. Reads("anthropic", f, d) = ReadOne("anthropic", f, Ev("delta", s.text, ps))
    BY <2>1, ReadsThis
  <2> QED BY <1>8, <2>1, <2>2, AnthropicTakesText
<1>10. Reads("anthropic", g, a \o b \o d) = Reads("anthropic", f, d)
  <2> HIDE DEF a, b, d
  <2> QED BY <1>4, ReadsThree DEF h
<1> HIDE DEF a, b, d, f
<1>11. a \o b \o d \in Seq(Event)
  BY <1>4
<1> QED BY <1>2, <1>9, <1>10, <1>11

LEMMA CallingChanges ==
  ASSUME NEW r \in Renderer, NEW i \in Int, NEW slots \in Seq(Nat), NEW open \in Seq(Nat), NEW n \in Nat
  PROVE  Is([r EXCEPT !.started = TRUE, !.text = i, !.slots = slots, !.open = open, !.next = n],
            TRUE, i, r.spoke, n, slots, open)
BY DEF Is, Renderer

LEMMA SilencingChanges ==
  ASSUME NEW r \in Renderer, NEW i \in Int
  PROVE  Is([r EXCEPT !.started = TRUE, !.text = i], TRUE, i, r.spoke, r.next, r.slots, r.open)
BY DEF Is, Renderer

\* _emit_tool_call_fragment: the fragment lands in the block of its call.
LEMMA AnthropicTool ==
  ASSUME NEW g, NEW r, NEW text \in Seq(Nat), NEW calls \in Seq(Seq(Nat)), NEW ps \in Seq(Nat),
         NEW i \in 0..Len(calls), AnthropicFollows(g, r, text, calls)
  PROVE  /\ EmitToolCallFragment(r, i, ps).es \in Seq(Event)
         /\ AnthropicFollows(Reads("anthropic", g, EmitToolCallFragment(r, i, ps).es),
                             EmitToolCallFragment(r, i, ps).r, text, Extended(calls, i, ps))
<1> DEFINE m == Len(calls)
           known == \E j \in DOMAIN r.slots : r.slots[j] = i
           at == IF known THEN CHOOSE j \in DOMAIN r.slots : r.slots[j] = i ELSE Len(r.slots) + 1
           block == IF known THEN r.open[at] ELSE r.next
           slots == IF known THEN r.slots ELSE Append(r.slots, i)
           open == IF known THEN r.open ELSE Append(r.open, block)
           n == IF known THEN r.next ELSE r.next + 1
           q == [r EXCEPT !.started = TRUE]
           p == [r EXCEPT !.started = TRUE, !.text = NoBlock]
           s == [r EXCEPT !.started = TRUE, !.text = NoBlock, !.slots = slots, !.open = open, !.next = n]
           a == MessageStart(r)
           b == CloseTextBlock(r)
           d == <<Ev("delta", block, ps)>>
           e == IF known THEN << >> ELSE <<Ev("tool_start", block, ps)>>
           h == Reads("anthropic", g, a)
           f == Reads("anthropic", h, b)
<1>1. r \in Renderer /\ Placed(g.blocks, r.text, r.open, calls)
  BY DEF AnthropicFollows
<1>2. m \in Nat /\ r.slots \in Seq(Nat) /\ Len(r.slots) = m /\ (\A j \in 1..m : r.slots[j] = j - 1)
      /\ r.open \in Seq(Nat) /\ Len(r.open) = m /\ r.next \in Nat
  BY <1>1 DEF AnthropicFollows, Placed, Renderer
<1>3. EmitToolCallFragment(r, i, ps).r = s /\ EmitToolCallFragment(r, i, ps).es = a \o b \o e \o d
  <2>1. EmitToolCallFragment(r, i, ps) = Rendered(s, a \o b \o e \o d)
    BY DEF EmitToolCallFragment
  <2> HIDE DEF s, a, b, d, e
  <2> QED BY <2>1 DEF Rendered
<1>4. known => i < m /\ at = i + 1
  <2>1. ASSUME NEW j \in DOMAIN r.slots, r.slots[j] = i PROVE j = i + 1 /\ i < m
    <3>1. DOMAIN r.slots = 1..m
      BY <1>2
    <3>2. j \in 1..m /\ r.slots[j] = j - 1
      BY <1>2, <3>1
    <3> HIDE DEF m
    <3> QED BY <1>2, <2>1, <3>2
  <2>2. known => at \in DOMAIN r.slots /\ r.slots[at] = i
    OBVIOUS
  <2> HIDE DEF at, known
  <2>3. ASSUME known PROVE i < m /\ at = i + 1
    BY <2>1, <2>2, <2>3
  <2> QED BY <2>3
<1>5. ~known => i = m
  <2> SUFFICES ASSUME ~known, i # m PROVE FALSE
    OBVIOUS
  <2>1. i + 1 \in 1..m /\ (i + 1) - 1 = i
    BY <1>2
  <2>2. r.slots[i + 1] = i /\ i + 1 \in DOMAIN r.slots
    BY <1>2, <2>1, SMTT(30)
  <2> QED BY <2>2
<1> HIDE DEF known
<1>6. known => block = r.open[i + 1] /\ i + 1 \in 1..m /\ block \in Nat
  <2>1. known => i + 1 \in 1..m
    BY <1>2, <1>4
  <2>2. ASSUME known PROVE block = r.open[i + 1] /\ block \in Nat
    <3>1. block = r.open[at] /\ at = i + 1
      BY <1>4, <2>2
    <3> DEFINE l == i + 1
    <3> HIDE DEF at, block, m, l
    <3>2. l \in 1..Len(r.open)
      BY <1>2, <2>1, <2>2 DEF l
    <3>3. r.open[l] \in Nat
      <4>1. r.open \in Seq(Nat)
        BY <1>2
      <4> QED BY <3>2, <4>1, ElementOfSeq
    <3> QED BY <3>1, <3>3 DEF l
  <2> QED BY <2>1, <2>2
<1>7. ~known => block = r.next
  OBVIOUS
<1> HIDE DEF at, block
<1>8. block \in Nat /\ slots \in Seq(Nat) /\ open \in Seq(Nat) /\ n \in Nat
  BY <1>2, <1>6, <1>7
<1>9. a \in Seq(Event) /\ b \in Seq(Event) /\ d \in Seq(Event) /\ e \in Seq(Event)
  <2>1. Ev("tool_start", block, ps) \in Event /\ Ev("delta", block, ps) \in Event
    <3>1. block \in Int /\ "tool_start" \in Kinds /\ "delta" \in Kinds
      BY <1>8 DEF Kinds
    <3> QED BY <3>1, EvIsEvent
  <2>2. a \in Seq(Event) /\ b \in Seq(Event)
    BY <1>1, EventsOf
  <2> QED BY <2>1, <2>2, OneEvent, NoEvents
<1>10. Is(q, TRUE, r.text, r.spoke, r.next, r.slots, r.open)
  BY <1>1, StartingChanges
<1>11. Is(p, TRUE, NoBlock, r.spoke, r.next, r.slots, r.open)
  <2> DEFINE v == NoBlock
  <2>1. v \in Int
    BY DEF NoBlock
  <2> HIDE DEF v
  <2>2. Is([r EXCEPT !.started = TRUE, !.text = v], TRUE, v, r.spoke, r.next, r.slots, r.open)
    BY <1>1, <2>1, SilencingChanges
  <2> QED BY <2>2 DEF v
<1>12. Is(s, TRUE, NoBlock, r.spoke, n, slots, open)
  <2> DEFINE v == NoBlock
  <2>1. v \in Int
    BY DEF NoBlock
  <2> HIDE DEF n, slots, open, v
  <2>2. Is([r EXCEPT !.started = TRUE, !.text = v, !.slots = slots, !.open = open, !.next = n],
           TRUE, v, r.spoke, n, slots, open)
    BY <1>1, <1>8, <2>1, CallingChanges
  <2> QED BY <2>2 DEF v
<1> HIDE DEF q, p, s
<1>13. AnthropicFollows(h, q, text, calls)
  BY <1>10, AnthropicBegins
<1> HIDE DEF h
<1>14. AnthropicFollows(f, p, text, calls)
  <2>1. Is(p, q.started, NoBlock, q.spoke, q.next, q.slots, q.open)
    BY <1>10, <1>11 DEF Is
  <2>2. b = CloseTextBlock(q)
    BY <1>10 DEF CloseTextBlock, Is
  <2> QED BY <1>13, <2>1, <2>2, AnthropicCloses
<1>15. Reads("anthropic", g, a \o b \o e \o d) = Reads("anthropic", f, e \o d)
  <2> HIDE DEF a, b, d, e
  <2>1. a \o b \in Seq(Event) /\ e \o d \in Seq(Event) /\ a \o b \o e \o d = (a \o b) \o (e \o d)
    BY <1>9, SMTT(30)
  <2> DEFINE ab == a \o b
             ed == e \o d
  <2>2. Reads("anthropic", g, ab \o ed) = Reads("anthropic", Reads("anthropic", g, ab), ed)
    <3>1. ab \in Seq(Event) /\ ed \in Seq(Event)
      BY <2>1
    <3> HIDE DEF ab, ed
    <3> QED BY <3>1, ReadsOn
  <2>3. Reads("anthropic", g, a \o b) = f
    BY <1>9, ReadsOn DEF h
  <2> QED BY <2>1, <2>2, <2>3
<1> HIDE DEF f
<1>16. AnthropicFollows(Reads("anthropic", f, e \o d), s, text, Extended(calls, i, ps))
  <2>1. CASE known
    <3> DEFINE l == i + 1
    <3>1. e \o d = <<Ev("delta", block, ps)>>
      BY <2>1
    <3>2. p.open = r.open /\ p.text = NoBlock /\ l \in 1..Len(calls) /\ block = p.open[l]
      BY <1>6, <1>11, <2>1 DEF Is
    <3> HIDE DEF l
    <3>3. AnthropicFollows(ReadOne("anthropic", f, Ev("delta", p.open[l], ps)), p, text,
                           [calls EXCEPT ![l] = calls[l] \o ps])
      BY <1>14, <3>2, AnthropicCallsMore
    <3>4. Extended(calls, i, ps) = [calls EXCEPT ![l] = calls[l] \o ps]
      <4>1. i # Len(calls)
        BY <1>4, <2>1
      <4> QED BY <4>1 DEF Extended, l
    <3>5. Reads("anthropic", f, e \o d) = ReadOne("anthropic", f, Ev("delta", p.open[l], ps))
      BY <3>1, <3>2, ReadsThis
    <3>6. AnthropicFollows(Reads("anthropic", f, e \o d), p, text, Extended(calls, i, ps))
      BY <3>3, <3>4, <3>5
    <3>7. Is(s, TRUE, NoBlock, r.spoke, r.next, r.slots, r.open)
      BY <1>12, <2>1
    <3> HIDE DEF e, d
    <3> QED BY <1>11, <3>6, <3>7 DEF AnthropicFollows, Is
  <2>2. CASE ~known
    <3>1. e \o d = <<Ev("tool_start", block, ps), Ev("delta", block, ps)>>
      <4>1. e = <<Ev("tool_start", block, ps)>>
        BY <2>2
      <4> QED BY <4>1, TwoInARow
    <3>2. i = Len(calls) /\ block = p.next /\ p.started /\ p.text = NoBlock
      BY <1>5, <1>7, <1>11, <2>2 DEF Is
    <3>3. Is(s, p.started, NoBlock, p.spoke, p.next + 1, Append(p.slots, Len(calls)), Append(p.open, p.next))
      BY <1>11, <1>12, <2>2, <3>2 DEF Is
    <3>4. Extended(calls, i, ps) = Append(calls, ps)
      BY <3>2 DEF Extended
    <3> HIDE DEF e, d
    <3> QED BY <1>14, <3>1, <3>2, <3>3, <3>4, AnthropicCalls
  <2> QED BY <2>1, <2>2
<1> HIDE DEF a, b, d, e
<1>17. a \o b \o e \o d \in Seq(Event)
  BY <1>9
<1> QED BY <1>3, <1>15, <1>16, <1>17

-----------------------------------------------------------------------------
(* The end of Anthropic's stream *)

\* The blocks at the first n places have been stopped.
Shut(g, h, places, n) ==
  /\ h \in Accumulator /\ h.text = g.text /\ h.tools = g.tools
  /\ h.begun = g.begun /\ h.why = g.why /\ h.ended = g.ended /\ h.ok = g.ok
  /\ Len(h.blocks) = Len(g.blocks)
  /\ \A k \in 0..(Len(g.blocks) - 1) :
       /\ h.blocks[k + 1].ps = g.blocks[k + 1].ps
       /\ h.blocks[k + 1].input = g.blocks[k + 1].input
       /\ h.blocks[k + 1].open <=> (g.blocks[k + 1].open /\ \A j \in 1..n : k # places[j])

\* _finish_stream closes the calls' blocks one by one.
LEMMA OneMoreShut ==
  ASSUME NEW g \in Accumulator, NEW h, NEW places, NEW n \in Nat, Shut(g, h, places, n),
         NEW i \in 0..(Len(g.blocks) - 1), i = places[n + 1], g.blocks[i + 1].open, \A j \in 1..n : i # places[j]
  PROVE  Shut(g, Stop(h, i), places, n + 1)
<1> DEFINE d == [h.blocks[i + 1] EXCEPT !.open = FALSE]
           bs == [h.blocks EXCEPT ![i + 1] = d]
           m == Len(g.blocks)
           f == Stop(h, i)
<1>1. /\ h \in Accumulator /\ Len(h.blocks) = m /\ h.blocks[i + 1].open /\ h.blocks \in Seq(Block)
      /\ m \in Nat
  <2>1. h \in Accumulator /\ Len(h.blocks) = m
    BY DEF Shut
  <2>2. h.blocks \in Seq(Block) /\ m \in Nat
    BY <2>1 DEF Accumulator
  <2>3. h.blocks[i + 1].open <=> (g.blocks[i + 1].open /\ \A j \in 1..n : i # places[j])
    BY DEF Shut
  <2> QED BY <2>1, <2>2, <2>3
<1>2. h.blocks[i + 1] \in Block /\ i \in 0..(Len(h.blocks) - 1) /\ i \in Nat
  BY <1>1
<1>3. d \in Block /\ ~d.open /\ d.ps = h.blocks[i + 1].ps /\ d.input = h.blocks[i + 1].input
  BY <1>2, BlockShut
<1> HIDE DEF d
<1>4. /\ bs \in Seq(Block) /\ Len(bs) = Len(h.blocks) /\ bs[i + 1] = d
      /\ \A k \in 0..(Len(h.blocks) - 1) : k # i => bs[k + 1] = h.blocks[k + 1]
  <2> DEFINE ys == h.blocks
  <2>1. ys \in Seq(Block) /\ i \in 0..(Len(ys) - 1) /\ d \in Block
    BY <1>1, <1>2, <1>3
  <2> HIDE DEF ys
  <2>2. LET zs == [ys EXCEPT ![i + 1] = d]
        IN /\ zs \in Seq(Block) /\ Len(zs) = Len(ys) /\ zs[i + 1] = d
           /\ \A k \in 0..(Len(ys) - 1) : k # i => zs[k + 1] = ys[k + 1]
    BY <2>1, OneBlockChanges
  <2> QED BY <2>2 DEF ys
<1>5. Changed(h, f, bs, h.text, h.tools)
  <2>1. i < Len(h.blocks)
    BY <1>1
  <2> HIDE DEF f
  <2> QED BY <1>1, <1>2, <1>4, <2>1, StopChanges DEF f, d
<1> HIDE DEF f, bs
<1>6. ASSUME NEW k \in 0..(m - 1)
      PROVE  /\ bs[k + 1].ps = g.blocks[k + 1].ps
             /\ bs[k + 1].input = g.blocks[k + 1].input
             /\ bs[k + 1].open <=> (g.blocks[k + 1].open /\ \A j \in 1..(n + 1) : k # places[j])
  <2>1. /\ h.blocks[k + 1].ps = g.blocks[k + 1].ps
        /\ h.blocks[k + 1].input = g.blocks[k + 1].input
        /\ h.blocks[k + 1].open <=> (g.blocks[k + 1].open /\ \A j \in 1..n : k # places[j])
    BY DEF Shut
  <2>2. CASE k = i
    <3>1. n + 1 \in 1..(n + 1)
      OBVIOUS
    <3> QED BY <1>3, <1>4, <2>1, <2>2, <3>1
  <2>3. CASE k # i
    <3>1. bs[k + 1] = h.blocks[k + 1]
      BY <1>1, <1>4, <2>3
    <3>2. (\A j \in 1..(n + 1) : k # places[j]) <=> \A j \in 1..n : k # places[j]
      <4>1. \A j \in 1..(n + 1) : j \in 1..n \/ j = n + 1
        OBVIOUS
      <4>2. 1..n \subseteq 1..(n + 1)
        OBVIOUS
      <4> QED BY <2>3, <4>1, <4>2
    <3> QED BY <2>1, <3>1, <3>2
  <2> QED BY <2>2, <2>3
<1>7. f \in Accumulator /\ f.text = g.text /\ f.tools = g.tools
      /\ f.begun = g.begun /\ f.why = g.why /\ f.ended = g.ended /\ f.ok = g.ok /\ f.blocks = bs
  BY <1>5 DEF Shut, Changed
<1>8. Len(f.blocks) = m
  BY <1>1, <1>4, <1>7
<1>9. Shut(g, f, places, n + 1)
  BY <1>6, <1>7, <1>8 DEF Shut
<1> QED BY <1>9 DEF f

\* The events that close the blocks of all calls.
Stops(places) == [j \in DOMAIN places |-> Ev("block_stop", places[j], << >>)]

LEMMA StopsAreEvents ==
  ASSUME NEW places \in Seq(Nat)
  PROVE  /\ Stops(places) \in Seq(Event) /\ Len(Stops(places)) = Len(places)
         /\ \A j \in 1..Len(places) : Stops(places)[j] = Ev("block_stop", places[j], << >>)
<1> DEFINE es == [j \in 1..Len(places) |-> Ev("block_stop", places[j], << >>)]
<1>1. Stops(places) = es
  BY DEF Stops
<1>2. ASSUME NEW j \in 1..Len(places) PROVE Ev("block_stop", places[j], << >>) \in Event
  <2> DEFINE p == places[j]
             o == << >>
  <2>1. p \in Int /\ o \in Seq(Nat) /\ "block_stop" \in Kinds
    BY DEF Kinds
  <2> HIDE DEF p, o
  <2>2. Ev("block_stop", p, o) \in Event
    BY <2>1, EvIsEvent
  <2> QED BY <2>2 DEF p, o
<1>3. es \in Seq(Event)
  <2>1. Len(places) \in Nat
    OBVIOUS
  <2> QED BY <1>2, <2>1
<1>4. Len(es) = Len(places) /\ \A j \in 1..Len(places) : es[j] = Ev("block_stop", places[j], << >>)
  OBVIOUS
<1> QED BY <1>1, <1>3, <1>4

\* When all were stopped, no block is open.
LEMMA AllAreShut ==
  ASSUME NEW g, NEW r, NEW text \in Seq(Nat), NEW calls \in Seq(Seq(Nat)),
         AnthropicFollows(g, r, text, calls), r.text = NoBlock
  PROVE  Shut(g, Reads("anthropic", g, Stops(r.open)), r.open, Len(calls))
<1> DEFINE es == Stops(r.open)
           m == Len(calls)
           Upto(k) == SubSeq(es, 1, k)
           T == {k \in Nat : k <= m => Shut(g, Reads("anthropic", g, Upto(k)), r.open, k)}
<1>1. g \in Accumulator /\ r \in Renderer /\ Placed(g.blocks, NoBlock, r.open, calls)
  BY DEF AnthropicFollows
<1>2. r.open \in Seq(Nat) /\ Len(r.open) = m /\ m \in Nat
  BY <1>1 DEF Placed
<1>3. es \in Seq(Event) /\ Len(es) = m /\ \A j \in 1..m : es[j] = Ev("block_stop", r.open[j], << >>)
  BY <1>2, StopsAreEvents
<1> HIDE DEF es
<1>4. 0 \in T
  <2>1. Upto(0) = << >> /\ 1..0 = {}
    BY SubSeqEmpty
  <2>2. Reads("anthropic", g, Upto(0)) = g
    BY <2>1, ReadsNone
  <2> HIDE DEF Upto
  <2>3. Shut(g, g, r.open, 0)
    BY <1>1, <2>1 DEF Shut
  <2> QED BY <2>2, <2>3
<1>5. ASSUME NEW k \in Nat, k \in T PROVE k + 1 \in T
  <2> SUFFICES ASSUME k + 1 <= m PROVE Shut(g, Reads("anthropic", g, Upto(k + 1)), r.open, k + 1)
    OBVIOUS
  <2> DEFINE h == Reads("anthropic", g, Upto(k))
             i == r.open[k + 1]
  <2>1. Shut(g, h, r.open, k)
    BY <1>2, <1>5
  <2>2. k + 1 \in 1..m /\ \A j \in 1..k : j \in 1..m /\ j # k + 1
    BY <1>2
  <2>3. Upto(k) \in Seq(Event) /\ es[k + 1] \in Event /\ Upto(k + 1) = Append(Upto(k), es[k + 1])
    <3>1. es \in Seq(Event) /\ k + 1 <= Len(es)
      BY <1>3
    <3> QED BY <3>1
  <2>4. i \in 0..(Len(g.blocks) - 1) /\ \A j \in 1..k : i # r.open[j]
    <3>1. i \in 0..(Len(g.blocks) - 1)
      BY <1>1, <2>2 DEF Placed
    <3>2. ASSUME NEW j \in 1..k PROVE i # r.open[j]
      <4>1. j \in 1..m /\ j # k + 1
        BY <2>2
      <4> QED BY <1>1, <2>2, <4>1 DEF Placed
    <3> QED BY <3>1, <3>2
  <2>5. g.blocks[i + 1].open
    <3> HIDE DEF i
    <3>1. \E j \in 1..m : i = r.open[j]
      BY <2>2 DEF i
    <3> QED BY <1>1, <2>4, <3>1 DEF Placed
  <2>6. es[k + 1] = Ev("block_stop", i, << >>)
    BY <1>3, <2>2
  <2>7. Reads("anthropic", g, Append(Upto(k), es[k + 1])) = ReadOne("anthropic", h, es[k + 1])
    <3> DEFINE u == Upto(k)
               e == es[k + 1]
    <3>1. u \in Seq(Event) /\ e \in Event
      BY <2>3
    <3> HIDE DEF u, e
    <3>2. Reads("anthropic", g, Append(u, e)) = ReadOne("anthropic", Reads("anthropic", g, u), e)
      BY <3>1, ReadsMore
    <3> QED BY <3>2 DEF u, e
  <2>8. ReadOne("anthropic", h, Ev("block_stop", i, << >>)) = Stop(h, i)
    BY DEF ReadOne, AnthropicReads, Ev
  <2>9. i = r.open[k + 1]
    OBVIOUS
  <2> HIDE DEF T, Upto, h, i, m
  <2>10. Shut(g, Stop(h, i), r.open, k + 1)
    BY <1>1, <2>1, <2>4, <2>5, <2>9, OneMoreShut
  <2> QED BY <2>3, <2>6, <2>7, <2>8, <2>10
<1>6. m \in T
  <2> HIDE DEF T, m
  <2> QED BY <1>2, <1>4, <1>5, NatsBySteps
<1>7. Upto(m) = es /\ m <= m
  BY <1>2, <1>3
<1>8. Shut(g, Reads("anthropic", g, Upto(m)), r.open, m)
  BY <1>6, <1>7
<1> HIDE DEF Upto
<1> QED BY <1>7, <1>8 DEF es

\* What a client holds once its stream was closed in order.

LEMMA SameArguments ==
  ASSUME NEW b, NEW ps, Carries(b, ps) PROVE Arguments(b) = ps
BY DEF Arguments, Carries

LEMMA CallsAre ==
  ASSUME NEW g, NEW calls \in Seq(Seq(Nat)), NEW places \in Seq(Nat), g.tools = places, Len(places) = Len(calls),
         \A j \in 1..Len(calls) : Carries(g.blocks[places[j] + 1], calls[j])
  PROVE  Calls(g) = calls
<1>1. DOMAIN places = 1..Len(calls) /\ DOMAIN calls = 1..Len(calls)
  OBVIOUS
<1>2. \A j \in 1..Len(calls) : Arguments(g.blocks[places[j] + 1]) = calls[j]
  BY SameArguments
<1>3. Calls(g) = [j \in 1..Len(calls) |-> Arguments(g.blocks[places[j] + 1])]
  BY <1>1 DEF Calls
<1>4. [j \in 1..Len(calls) |-> Arguments(g.blocks[places[j] + 1])] = [j \in 1..Len(calls) |-> calls[j]]
  BY <1>2
<1>5. calls = [j \in 1..Len(calls) |-> calls[j]]
  OBVIOUS
<1> QED BY <1>3, <1>4, <1>5

\* The last two events of a stream.
LEMMA DeltaReads ==
  ASSUME NEW h \in Accumulator, NEW w \in Reasons, h.ok, h.begun, ~h.ended,
         \A j \in DOMAIN h.blocks : ~h.blocks[j].open,
         NEW f, f = ReadOne("anthropic", h, [k |-> "message_delta", why |-> w])
  PROVE  f \in Accumulator /\ f.ok /\ ~f.ended /\ f.text = h.text /\ f.tools = h.tools /\ f.blocks = h.blocks /\ f.why = w
<1>1. f = [h EXCEPT !.why = w, !.ok = @ /\ h.begun /\ \A j \in DOMAIN h.blocks : ~h.blocks[j].open]
  BY DEF ReadOne, AnthropicReads
<1>2. h.ok /\ h.begun /\ \A j \in DOMAIN h.blocks : ~h.blocks[j].open
  OBVIOUS
<1>3. f = [h EXCEPT !.why = w, !.ok = TRUE]
  BY <1>1, <1>2
<1> QED BY <1>3 DEF Accumulator

LEMMA StopReads ==
  ASSUME NEW h \in Accumulator, h.ok, ~h.ended,
         NEW f, f = ReadOne("anthropic", h, [k |-> "message_stop"])
  PROVE  f.ok /\ f.ended /\ f.text = h.text /\ f.tools = h.tools /\ f.blocks = h.blocks /\ f.why = h.why
<1>1. f = [h EXCEPT !.ended = TRUE, !.ok = @ /\ ~h.ended]
  BY DEF ReadOne, AnthropicReads
<1> QED BY <1>1 DEF Accumulator

Farewell(why, calls) ==
  <<[k |-> "message_delta", why |-> AnthropicStopReason(why, calls)], [k |-> "message_stop"]>>

Sent(r, why, calls) == MessageStart(r) \o CloseTextBlock(r) \o Stops(r.open) \o << >> \o Farewell(why, calls)

\* What _finish_stream sends when everything was streamed.
LEMMA AnthropicSends ==
  ASSUME NEW g, NEW r, NEW text \in Seq(Nat), NEW calls \in Seq(Seq(Nat)), AnthropicFollows(g, r, text, calls),
         NEW done, done.text = text, done.calls = calls
  PROVE  AnthropicFinish(r, done) = Sent(r, done.why, calls)
<1> DEFINE late == IF ~r.spoke /\ done.text # << >> THEN EmitText(r, done.text) ELSE Rendered(r, MessageStart(r))
           base == late.r.next
           more == [j \in DOMAIN done.calls |->
                      <<Ev("tool_start", base + j - 1, done.calls[j]), Ev("block_stop", base + j - 1, << >>)>>]
           rest == IF r.slots # << >> THEN << >> ELSE FlattenSeq(more)
<1>1. ~(~r.spoke /\ done.text # << >>)
  BY DEF AnthropicFollows
<1>2. late = Rendered(r, MessageStart(r))
  BY <1>1
<1> HIDE DEF late
<1>3. late.r = r /\ late.es = MessageStart(r)
  BY <1>2 DEF Rendered
<1>4. rest = << >>
  <2>1. CASE r.slots # << >>
    BY <2>1
  <2>2. CASE r.slots = << >>
    <3>1. Len(calls) = 0
      BY <2>2 DEF AnthropicFollows
    <3>2. DOMAIN done.calls = {}
      BY <3>1
    <3>3. more = << >>
      BY <3>2
    <3> HIDE DEF more
    <3>4. Len(more) = 0
      BY <3>3
    <3> QED BY <2>2, <3>3, <3>4 DEF FlattenSeq
  <2> QED BY <2>1, <2>2
<1>5. AnthropicFinish(r, done) = late.es \o CloseTextBlock(late.r) \o Stops(r.open) \o rest \o Farewell(done.why, done.calls)
  BY DEF AnthropicFinish, Stops, late, Farewell
<1> HIDE DEF rest
<1> QED BY <1>3, <1>4, <1>5 DEF Sent

\* The end of the stream finds every block closed and the client with the answer.
LEMMA AnthropicEnds ==
  ASSUME NEW g, NEW r, NEW text \in Seq(Nat), NEW calls \in Seq(Seq(Nat)), AnthropicFollows(g, r, text, calls),
         NEW done, done.text = text, done.calls = calls, NEW f, f = Reads("anthropic", g, AnthropicFinish(r, done))
  PROVE  Ends(f, text, calls) /\ f.ended /\ Told(f, calls)
<1> DEFINE q == [r EXCEPT !.started = TRUE]
           v == NoBlock
           p == [r EXCEPT !.started = TRUE, !.text = v]
           a == MessageStart(r)
           b == CloseTextBlock(r)
           s == Stops(r.open)
           w == AnthropicStopReason(done.why, calls)
           x == [k |-> "message_delta", why |-> w]
           y == [k |-> "message_stop"]
           E == Event \cup {x, y}
           m == Len(calls)
           g1 == Reads("anthropic", g, a)
           g2 == Reads("anthropic", g1, b)
           g3 == Reads("anthropic", g2, s)
           g4 == ReadOne("anthropic", g3, x)
<1>1. r \in Renderer /\ Placed(g.blocks, r.text, r.open, calls)
  BY DEF AnthropicFollows
<1>2. r.open \in Seq(Nat)
  BY <1>1 DEF Placed
<1>3. a \in Seq(Event) /\ b \in Seq(Event) /\ s \in Seq(Event)
  BY <1>1, <1>2, EventsOf, StopsAreEvents
<1>4. Is(q, TRUE, r.text, r.spoke, r.next, r.slots, r.open)
  BY <1>1, StartingChanges
<1>5. Is(p, TRUE, v, r.spoke, r.next, r.slots, r.open)
  <2>1. v \in Int
    BY DEF NoBlock
  <2> HIDE DEF v
  <2> QED BY <1>1, <2>1, SilencingChanges
<1> HIDE DEF q, p
<1>6. AnthropicFollows(g1, q, text, calls)
  BY <1>4, AnthropicBegins
<1> HIDE DEF g1
<1>7. AnthropicFollows(g2, p, text, calls)
  <2>1. Is(p, q.started, NoBlock, q.spoke, q.next, q.slots, q.open)
    BY <1>4, <1>5 DEF Is
  <2>2. b = CloseTextBlock(q)
    BY <1>4 DEF CloseTextBlock, Is
  <2> QED BY <1>6, <2>1, <2>2, AnthropicCloses
<1> HIDE DEF g2
<1>8. p.open = r.open /\ p.text = NoBlock /\ p.started
  BY <1>5 DEF Is
<1>9. Shut(g2, g3, r.open, m)
  BY <1>7, <1>8, AllAreShut
<1>10. f = ReadOne("anthropic", g4, y)
  <2> DEFINE abs == a \o b \o s
             xy == <<x, y>>
  <2> HIDE DEF a, b, s, x, y
  <2>1. abs \in Seq(Event)
    BY <1>3
  <2>2. Event \subseteq E /\ x \in E /\ y \in E
    OBVIOUS
  <2> HIDE DEF E
  <2>3. abs \in Seq(E) /\ xy \in Seq(E)
    <3> HIDE DEF abs
    <3> QED BY <2>1, <2>2
  <2>4. abs \o << >> = abs
    BY <2>1
  <2>5. Reads("anthropic", g, abs) = g3
    BY <1>3, ReadsThree DEF g1, g2
  <2>6. AnthropicFinish(r, done) = abs \o << >> \o xy
    <3>1. AnthropicFinish(r, done) = Sent(r, done.why, calls)
      BY AnthropicSends
    <3> QED BY <3>1 DEF a, b, s, x, y, Farewell, Sent
  <2> HIDE DEF abs, g3
  <2>7. Reads("anthropic", g3, xy) = ReadOne("anthropic", ReadOne("anthropic", g3, x), y)
    BY ReadsThese
  <2> HIDE DEF xy
  <2>8. Reads("anthropic", g, abs \o xy) = Reads("anthropic", Reads("anthropic", g, abs), xy)
    BY <2>3, ReadsOn
  <2> QED BY <2>4, <2>5, <2>6, <2>7, <2>8
<1>11. w \in Reasons /\ (w = "tool_use" <=> calls # << >>)
  BY DEF AnthropicStopReason, Reasons
<1> HIDE DEF g3, w
<1>12. /\ g2 \in Accumulator /\ g2.ok /\ ~g2.ended /\ g2.text = text /\ g2.tools = r.open /\ g2.begun
       /\ Placed(g2.blocks, NoBlock, r.open, calls)
  BY <1>7, <1>8 DEF AnthropicFollows
<1>13. /\ g3 \in Accumulator /\ g3.ok /\ ~g3.ended /\ g3.text = text /\ g3.tools = r.open /\ g3.begun
       /\ Len(g3.blocks) = Len(g2.blocks)
  BY <1>9, <1>12 DEF Shut
<1>14. \A j \in DOMAIN g3.blocks : ~g3.blocks[j].open
  <2> SUFFICES ASSUME NEW j \in DOMAIN g3.blocks PROVE ~g3.blocks[j].open
    OBVIOUS
  <2> DEFINE k == j - 1
  <2>1. g3.blocks \in Seq(Block) /\ g2.blocks \in Seq(Block)
    BY <1>12, <1>13 DEF Accumulator
  <2>2. k \in 0..(Len(g2.blocks) - 1) /\ j = k + 1
    BY <1>13, <2>1
  <2> HIDE DEF k
  <2>3. k # NoBlock
    BY <2>2 DEF NoBlock
  <2>4. g2.blocks[k + 1].open <=> \E l \in 1..m : k = r.open[l]
    BY <1>12, <2>2, <2>3 DEF Placed
  <2>5. g3.blocks[k + 1].open <=> (g2.blocks[k + 1].open /\ \A l \in 1..m : k # r.open[l])
    BY <1>9, <2>2 DEF Shut
  <2> QED BY <2>2, <2>4, <2>5
<1>15. \A j \in 1..m : Carries(g3.blocks[r.open[j] + 1], calls[j])
  <2> SUFFICES ASSUME NEW j \in 1..m PROVE Carries(g3.blocks[r.open[j] + 1], calls[j])
    OBVIOUS
  <2> DEFINE k == r.open[j]
  <2>1. k \in 0..(Len(g2.blocks) - 1) /\ Carries(g2.blocks[k + 1], calls[j])
    BY <1>12 DEF Placed
  <2> HIDE DEF k
  <2>2. g3.blocks[k + 1].ps = g2.blocks[k + 1].ps /\ g3.blocks[k + 1].input = g2.blocks[k + 1].input
    BY <1>9, <2>1 DEF Shut
  <2>3. Carries(g3.blocks[k + 1], calls[j])
    BY <2>1, <2>2 DEF Carries
  <2> QED BY <2>3 DEF k
<1>16. /\ g4 \in Accumulator /\ g4.ok /\ ~g4.ended /\ g4.text = g3.text /\ g4.tools = g3.tools
       /\ g4.blocks = g3.blocks /\ g4.why = w
  <2> HIDE DEF g4
  <2> QED BY <1>11, <1>13, <1>14, DeltaReads DEF g4
<1> HIDE DEF g4
<1>17. f.ok /\ f.ended /\ f.text = g4.text /\ f.tools = g4.tools /\ f.blocks = g4.blocks /\ f.why = g4.why
  BY <1>10, <1>16, StopReads
<1>18. Calls(f) = calls
  <2>1. f.tools = r.open /\ Len(r.open) = m /\ \A j \in 1..m : Carries(f.blocks[r.open[j] + 1], calls[j])
    BY <1>12, <1>13, <1>15, <1>16, <1>17 DEF Placed
  <2> QED BY <1>2, <2>1, CallsAre
<1> QED BY <1>11, <1>13, <1>16, <1>17, <1>18 DEF Ends, Told

-----------------------------------------------------------------------------
(* The clients of OpenAI and Gemini *)

\* OpenAI's client reads the chunks as they are.
LEMMA OpenAIText ==
  ASSUME NEW g, NEW text \in Seq(Nat), NEW calls \in Seq(Seq(Nat)), NEW p \in Nat,
         OpenAIFollows(g, text, calls), ~g.ended, NEW h, h = ReadOne("openai", g, TextChunk(p))
  PROVE  OpenAIFollows(h, Append(text, p), calls) /\ ~h.ended
<1> DEFINE ps == <<p>>
           zs == g.text \o ps
<1>1. h = [g EXCEPT !.text = zs]
  BY DEF ReadOne, OpenAIReads, TextChunk, Chunk
<1>2. g \in Accumulator /\ g.text = text
  BY DEF OpenAIFollows
<1>3. zs \in Seq(Nat) /\ zs = Append(text, p)
  BY <1>2
<1> HIDE DEF zs
<1>4. Changed(g, h, g.blocks, zs, g.tools)
  BY <1>1, <1>2, <1>3 DEF Changed, Accumulator
<1> QED BY <1>3, <1>4 DEF OpenAIFollows, Changed

LEMMA OpenAITool ==
  ASSUME NEW g, NEW text \in Seq(Nat), NEW calls \in Seq(Seq(Nat)), NEW ps \in Seq(Nat), NEW i \in 0..Len(calls),
         OpenAIFollows(g, text, calls), ~g.ended, NEW h, h = ReadOne("openai", g, ToolChunk(i, ps))
  PROVE  OpenAIFollows(h, text, Extended(calls, i, ps)) /\ ~h.ended
<1> DEFINE m == Len(calls)
<1>1. g \in Accumulator /\ g.text = text /\ g.ok /\ Len(g.blocks) = m /\ Len(g.tools) = m /\ m \in Nat
      /\ \A j \in 1..m : g.tools[j] = j - 1 /\ Carries(g.blocks[j], calls[j])
  BY DEF OpenAIFollows
<1>2. g.blocks \in Seq(Block) /\ g.tools \in Seq(Nat)
  BY <1>1 DEF Accumulator
<1>3. CASE i = m
  <2> DEFINE b == [open |-> FALSE, input |-> << >>, ps |-> ps]
             bs == Append(g.blocks, b)
             ts == Append(g.tools, m)
             cs == Append(calls, ps)
  <2>1. h = [g EXCEPT !.ok = @ /\ i = Len(g.blocks), !.blocks = bs, !.tools = Append(g.tools, Len(g.blocks))]
    <3> DEFINE x == ToolChunk(i, ps)
    <3>1. x.k = "tool" /\ x.i = i /\ x.ps = ps
      BY DEF ToolChunk, Chunk
    <3>2. ~(i < Len(g.blocks))
      BY <1>1, <1>3
    <3> HIDE DEF x
    <3>3. h = OpenAIReads(g, x)
      BY DEF ReadOne, x
    <3> QED BY <3>1, <3>2, <3>3 DEF OpenAIReads
  <2>2. b \in Block /\ Carries(b, ps)
    BY DEF Block, Carries
  <2> HIDE DEF b, m
  <2>3. bs \in Seq(Block) /\ Len(bs) = m + 1 /\ bs[m + 1] = b /\ \A j \in 1..m : bs[j] = g.blocks[j]
    <3>1. g.blocks \in Seq(Block) /\ Len(g.blocks) = m
      BY <1>1, <1>2
    <3> QED BY <2>2, <3>1
  <2>4. ts \in Seq(Nat) /\ Len(ts) = m + 1 /\ ts[m + 1] = m /\ \A j \in 1..m : ts[j] = g.tools[j]
    <3> DEFINE us == g.tools
    <3>1. us \in Seq(Nat) /\ Len(us) = m /\ m \in Nat /\ ts = Append(us, m)
      BY <1>1, <1>2
    <3> HIDE DEF us, ts
    <3>2. ts \in Seq(Nat) /\ Len(ts) = m + 1 /\ ts[m + 1] = m /\ \A j \in 1..m : ts[j] = us[j]
      BY <3>1
    <3> QED BY <3>2 DEF us
  <2>5. Len(cs) = m + 1 /\ cs[m + 1] = ps /\ \A j \in 1..m : cs[j] = calls[j]
    BY <1>1 DEF m
  <2> HIDE DEF bs, ts, cs
  <2>6. h = [g EXCEPT !.ok = TRUE, !.blocks = bs, !.tools = ts]
    BY <1>1, <1>3, <2>1 DEF ts
  <2>7. Changed(g, h, bs, g.text, ts)
    BY <1>1, <2>3, <2>4, <2>6 DEF Changed, Accumulator
  <2>8. ASSUME NEW j \in 1..(m + 1) PROVE ts[j] = j - 1 /\ Carries(bs[j], cs[j])
    <3>1. CASE j \in 1..m
      BY <1>1, <2>3, <2>4, <2>5, <3>1
    <3>2. CASE j = m + 1
      BY <1>1, <2>2, <2>3, <2>4, <2>5, <3>2
    <3> QED BY <1>1, <3>1, <3>2
  <2>9. OpenAIFollows(h, text, cs)
    BY <1>1, <2>3, <2>4, <2>5, <2>7, <2>8 DEF OpenAIFollows, Changed
  <2>10. Extended(calls, i, ps) = cs
    BY <1>3 DEF Extended, cs, m
  <2> QED BY <2>7, <2>9, <2>10 DEF Changed
<1>4. CASE i # m
  <2> DEFINE l == i + 1
             d == [g.blocks[l] EXCEPT !.ps = g.blocks[l].ps \o ps]
             bs == [g.blocks EXCEPT ![l] = d]
             cs == [calls EXCEPT ![l] = calls[l] \o ps]
  <2>1. i \in 0..(Len(g.blocks) - 1) /\ i < Len(g.blocks) /\ l \in 1..m
    BY <1>1, <1>4
  <2>2. h = [g EXCEPT !.blocks[l].ps = g.blocks[l].ps \o ps]
    BY <2>1 DEF ReadOne, OpenAIReads, ToolChunk, Chunk
  <2>3. g.blocks[l] \in Block /\ calls[l] \in Seq(Nat)
    BY <1>1, <1>2, <2>1
  <2>4. d \in Block /\ d.ps = g.blocks[l].ps \o ps /\ d.input = g.blocks[l].input
    <3> HIDE DEF l
    <3> QED BY <2>3, BlockFilled
  <2>5. /\ bs \in Seq(Block) /\ Len(bs) = Len(g.blocks) /\ bs[l] = d
        /\ \A j \in 1..Len(g.blocks) : j # l => bs[j] = g.blocks[j]
    <3> HIDE DEF d, l
    <3>1. l \in 1..Len(g.blocks)
      BY <1>1, <2>1
    <3> QED BY <1>2, <2>4, <3>1, ExceptSeq
  <2>6. Len(cs) = m /\ cs[l] = calls[l] \o ps /\ \A j \in 1..m : j # l => cs[j] = calls[j]
    <3> HIDE DEF l
    <3> QED BY <2>1, <2>3, SMTT(30)
  <2>7. Changed(g, h, bs, g.text, g.tools)
    <3> HIDE DEF l
    <3>1. h = [g EXCEPT !.blocks = bs]
      BY <1>1, <2>2 DEF Accumulator
    <3> HIDE DEF bs
    <3> QED BY <1>1, <2>5, <3>1 DEF Changed, Accumulator
  <2> HIDE DEF bs, cs, l, d
  <2>8. Carries(d, cs[l])
    <3>1. g.blocks[l].ps = calls[l] /\ (calls[l] = << >> => g.blocks[l].input = << >>)
      BY <1>1, <2>1 DEF Carries
    <3>2. calls[l] \o ps = << >> => calls[l] = << >>
      BY <2>3, ConcatEqualIffEmpty
    <3> QED BY <2>4, <2>6, <3>1, <3>2 DEF Carries
  <2>9. ASSUME NEW j \in 1..m PROVE g.tools[j] = j - 1 /\ Carries(bs[j], cs[j])
    <3>1. CASE j = l
      BY <1>1, <2>5, <2>8, <3>1
    <3>2. CASE j # l
      BY <1>1, <2>5, <2>6, <3>2
    <3> QED BY <3>1, <3>2
  <2>10. OpenAIFollows(h, text, cs)
    BY <1>1, <2>5, <2>6, <2>7, <2>9 DEF OpenAIFollows, Changed
  <2>11. Extended(calls, i, ps) = cs
    BY <1>4 DEF Extended, cs, l, m
  <2> QED BY <2>7, <2>10, <2>11 DEF Changed
<1> QED BY <1>3, <1>4

LEMMA OpenAIRole ==
  ASSUME NEW g, ~g.ended PROVE ReadOne("openai", g, Role) = g
BY DEF ReadOne, OpenAIReads, Role, Chunk

LEMMA OpenAIFinishes ==
  ASSUME NEW g, NEW text \in Seq(Nat), NEW calls \in Seq(Seq(Nat)), NEW why \in {"stop", "length"},
         OpenAIFollows(g, text, calls), ~g.ended, NEW h, h = ReadOne("openai", g, FinishChunk(why))
  PROVE  OpenAIFollows(h, text, calls) /\ ~h.ended
<1>1. h = [g EXCEPT !.why = why]
  BY DEF ReadOne, OpenAIReads, FinishChunk, Chunk
<1>2. why \in Reasons
  BY DEF Reasons
<1>3. g \in Accumulator
  BY DEF OpenAIFollows
<1>4. h \in Accumulator /\ h.blocks = g.blocks /\ h.text = g.text /\ h.tools = g.tools /\ h.ok = g.ok /\ h.ended = g.ended
  BY <1>1, <1>2, <1>3 DEF Accumulator
<1> QED BY <1>4 DEF OpenAIFollows

LEMMA OpenAIIsDone ==
  ASSUME NEW g, NEW text \in Seq(Nat), NEW calls \in Seq(Seq(Nat)),
         OpenAIFollows(g, text, calls), ~g.ended, NEW h, h = ReadOne("openai", g, Done)
  PROVE  OpenAIFollows(h, text, calls)
<1>1. h = [g EXCEPT !.ended = TRUE]
  BY DEF ReadOne, OpenAIReads, Done, Chunk
<1>3. g \in Accumulator
  BY DEF OpenAIFollows
<1>4. h \in Accumulator /\ h.blocks = g.blocks /\ h.text = g.text /\ h.tools = g.tools /\ h.ok = g.ok
  BY <1>1, <1>3 DEF Accumulator
<1> QED BY <1>4 DEF OpenAIFollows

\* Gemini's client has the text at once and the calls at the end.
LEMMA GeminiText ==
  ASSUME NEW g, NEW r, NEW q, NEW text \in Seq(Nat), NEW ps \in Seq(Nat), GeminiFollows(g, r, text),
         q \in Renderer, q.spoke,
         NEW h, h = ReadOne("gemini", g, Ev("parts", 0, ps))
  PROVE  GeminiFollows(h, q, text \o ps)
<1> DEFINE zs == g.text \o ps
<1>1. h = [g EXCEPT !.text = zs, !.ok = @ /\ ~g.ended]
  BY DEF ReadOne, GeminiReads, Ev
<1>2. g \in Accumulator /\ g.text = text /\ g.ok /\ ~g.ended
  BY DEF GeminiFollows
<1>3. zs \in Seq(Nat)
  BY <1>2
<1>4. zs = text \o ps
  BY <1>2
<1> HIDE DEF zs
<1>5. h \in Accumulator /\ h.text = zs /\ h.ok /\ ~h.ended
  BY <1>1, <1>2, <1>3 DEF Accumulator
<1> QED BY <1>4, <1>5 DEF GeminiFollows

LEMMA GeminiEnds ==
  ASSUME NEW g, NEW r, NEW text \in Seq(Nat), NEW calls \in Seq(Seq(Nat)), GeminiFollows(g, r, text),
         NEW done, done.text = text, done.calls = calls, NEW f, f = Reads("gemini", g, GeminiFinish(r, done))
  PROVE  Ends(f, text, calls) /\ f.ended
<1> DEFINE x == [k |-> "final", calls |-> done.calls, why |-> done.why]
           bs == [j \in DOMAIN calls |-> [open |-> FALSE, input |-> calls[j], ps |-> << >>]]
           ts == [j \in DOMAIN calls |-> j - 1]
<1>1. ~(~r.spoke /\ done.text # << >>)
  BY DEF GeminiFollows
<1>2. GeminiFinish(r, done) = << >> \o <<x>>
  BY <1>1 DEF GeminiFinish
<1>3. << >> \o <<x>> = <<x>>
  <2> HIDE DEF x
  <2> QED OBVIOUS
<1>4. f = ReadOne("gemini", g, x)
  <2> HIDE DEF x
  <2> QED BY <1>2, <1>3, ReadsThis
<1>5. f = [g EXCEPT !.why = done.why, !.ended = TRUE, !.ok = @ /\ ~g.ended, !.blocks = bs, !.tools = ts]
  BY <1>4 DEF ReadOne, GeminiReads
<1>6. g \in Accumulator /\ g.text = text /\ g.ok /\ ~g.ended
  BY DEF GeminiFollows
<1>7. Len(calls) \in Nat /\ DOMAIN calls = 1..Len(calls)
  OBVIOUS
<1>8. /\ ts \in Seq(Nat) /\ Len(ts) = Len(calls)
      /\ \A j \in 1..Len(calls) : ts[j] + 1 = j /\ bs[j] = [open |-> FALSE, input |-> calls[j], ps |-> << >>]
  BY <1>7
<1> HIDE DEF bs, ts
<1>9. f.ok /\ f.text = text /\ f.ended /\ f.blocks = bs /\ f.tools = ts
  BY <1>5, <1>6 DEF Accumulator
<1>10. Calls(f) = calls
  <2>1. DOMAIN ts = 1..Len(calls)
    BY <1>8
  <2>2. ASSUME NEW j \in 1..Len(calls) PROVE Arguments(f.blocks[f.tools[j] + 1]) = calls[j]
    <3>1. f.blocks[f.tools[j] + 1] = [open |-> FALSE, input |-> calls[j], ps |-> << >>]
      BY <1>8, <1>9
    <3> QED BY <3>1 DEF Arguments
  <2>3. Calls(f) = [j \in 1..Len(calls) |-> Arguments(f.blocks[f.tools[j] + 1])]
    BY <1>9, <2>1 DEF Calls
  <2>4. [j \in 1..Len(calls) |-> Arguments(f.blocks[f.tools[j] + 1])] = [j \in 1..Len(calls) |-> calls[j]]
    BY <2>2
  <2>5. calls = [j \in 1..Len(calls) |-> calls[j]]
    OBVIOUS
  <2> QED BY <2>3, <2>4, <2>5
<1> QED BY <1>9, <1>10 DEF Ends

-----------------------------------------------------------------------------
(* Every client, whatever the translator passes on *)

\* The client that has read what was rendered of the chunks, and the renderer.
Hearing(c, g, r, cs) == Reads(c, g, RenderAll(c, r, cs).es)
Hears(c, g, r, cs, text, calls) == Follows(c, Hearing(c, g, r, cs), RenderAll(c, r, cs).r, text, calls)

\* Only OpenAI's SDK is told of the end before finish(), and then by the provider's.
EndsInTime(c, g, phase) == g.ended => c = "openai" /\ phase = "over"

\* A single chunk.
LEMMA RenderOne ==
  ASSUME NEW c, NEW r, NEW x, NEW E, Render(c, r, x).es \in Seq(E)
  PROVE  RenderAll(c, r, <<x>>).r = Render(c, r, x).r /\ RenderAll(c, r, <<x>>).es = Render(c, r, x).es
<1> DEFINE s == Render(c, r, x)
           z == Rendered(r, << >>)
<1>1. RenderAll(c, r, <<x>>) = RenderNext(c, z, x)
  BY RenderThis
<1>2. z.r = r /\ z.es = << >>
  BY DEF Rendered
<1> HIDE DEF z
<1>3. RenderNext(c, z, x) = Rendered(s.r, z.es \o s.es)
  BY <1>2 DEF RenderNext
<1>4. << >> \o s.es = s.es
  OBVIOUS
<1> HIDE DEF s
<1> QED BY <1>1, <1>2, <1>3, <1>4 DEF Rendered, s

\* What one rendered chunk makes of client and renderer.
LEMMA HearingOne ==
  ASSUME NEW c, NEW g, NEW r, NEW x, NEW q, NEW es, NEW E, Render(c, r, x) = Rendered(q, es), es \in Seq(E)
  PROVE  Hearing(c, g, r, <<x>>) = Reads(c, g, es) /\ RenderAll(c, r, <<x>>).r = q
<1>1. Render(c, r, x).r = q /\ Render(c, r, x).es = es
  BY DEF Rendered
<1>2. RenderAll(c, r, <<x>>).r = q /\ RenderAll(c, r, <<x>>).es = es
  BY <1>1, RenderOne
<1> QED BY <1>2 DEF Hearing

\* The same for the events of Anthropic's renderer.
LEMMA HearingEvents ==
  ASSUME NEW c, NEW g, NEW r, NEW x, NEW q, NEW es \in Seq(Event), Render(c, r, x) = Rendered(q, es)
  PROVE  Hearing(c, g, r, <<x>>) = Reads(c, g, es) /\ RenderAll(c, r, <<x>>).r = q
BY HearingOne

\* An event that gives no chunk.
LEMMA HearsNothing ==
  ASSUME NEW c, NEW g, NEW r, NEW text, NEW calls, Follows(c, g, r, text, calls)
  PROVE  Hears(c, g, r, << >>, text, calls) /\ Hearing(c, g, r, << >>) = g
<1>1. RenderAll(c, r, << >>).r = r /\ RenderAll(c, r, << >>).es = << >>
  BY RenderNone DEF Rendered
<1>2. Hearing(c, g, r, << >>) = g
  BY <1>1, ReadsNone DEF Hearing
<1> QED BY <1>1, <1>2 DEF Hears

LEMMA OpenAIHears ==
  ASSUME NEW g, NEW r, NEW x
  PROVE  Hearing("openai", g, r, <<x>>) = ReadOne("openai", g, x) /\ RenderAll("openai", r, <<x>>).r = r
<1> DEFINE es == <<x>>
           E == {x}
<1>1. Render("openai", r, x) = Rendered(r, es)
  BY DEF Render
<1>2. es \in Seq(E)
  OBVIOUS
<1>3. Reads("openai", g, es) = ReadOne("openai", g, x)
  BY ReadsThis
<1> HIDE DEF es, E
<1>4. Hearing("openai", g, r, <<x>>) = Reads("openai", g, es) /\ RenderAll("openai", r, <<x>>).r = r
  BY <1>1, <1>2, HearingOne
<1> QED BY <1>3, <1>4

\* A chunk that renders to nothing.
LEMMA HearsSilence ==
  ASSUME NEW c, NEW g, NEW r, NEW x, NEW text, NEW calls, Render(c, r, x) = Rendered(r, << >>),
         Follows(c, g, r, text, calls)
  PROVE  Hears(c, g, r, <<x>>, text, calls) /\ Hearing(c, g, r, <<x>>) = g
<1> DEFINE es == << >>
           E == {}
<1>1. es \in Seq(E) /\ Render(c, r, x) = Rendered(r, es)
  OBVIOUS
<1>2. Reads(c, g, es) = g
  BY ReadsNone
<1> HIDE DEF es, E
<1>3. Hearing(c, g, r, <<x>>) = Reads(c, g, es) /\ RenderAll(c, r, <<x>>).r = r
  BY <1>1, HearingOne
<1> QED BY <1>2, <1>3 DEF Hears

\* What following means, by dialect.
LEMMA FollowsOf ==
  ASSUME NEW g, NEW r, NEW text, NEW calls
  PROVE  /\ Follows("openai", g, r, text, calls) = OpenAIFollows(g, text, calls)
         /\ Follows("anthropic", g, r, text, calls) = AnthropicFollows(g, r, text, calls)
         /\ Follows("gemini", g, r, text, calls) = GeminiFollows(g, r, text)
BY DEF Follows

\* Each kind of chunk, for every client: the first,
LEMMA HearsRole ==
  ASSUME NEW c \in Parties, NEW g, NEW r, NEW text \in Seq(Nat), NEW calls \in Seq(Seq(Nat)),
         Follows(c, g, r, text, calls), ~g.ended, NEW x, x = Role
  PROVE  Hears(c, g, r, <<x>>, text, calls) /\ ~Hearing(c, g, r, <<x>>).ended
<1>1. CASE c = "openai"
  <2>1. Hearing(c, g, r, <<x>>) = g /\ RenderAll(c, r, <<x>>).r = r
    <3>1. ReadOne("openai", g, x) = g
      BY OpenAIRole
    <3> QED BY <1>1, <3>1, OpenAIHears
  <2> QED BY <2>1 DEF Hears
<1>2. CASE c = "anthropic"
  <2> DEFINE q == [r EXCEPT !.started = TRUE]
             es == MessageStart(r)
  <2>1. AnthropicFollows(g, r, text, calls)
    BY <1>2, FollowsOf
  <2>2. r \in Renderer
    BY <2>1 DEF AnthropicFollows
  <2>3. Render(c, r, x) = Rendered(q, es)
    BY <1>2 DEF Render, AnthropicRender, Role, Chunk
  <2>4. es \in Seq(Event)
    BY <2>2, EventsOf
  <2>5. Is(q, TRUE, r.text, r.spoke, r.next, r.slots, r.open)
    BY <2>2, StartingChanges
  <2>6. AnthropicFollows(Reads("anthropic", g, es), q, text, calls)
    <3> HIDE DEF q
    <3> QED BY <2>1, <2>5, AnthropicBegins
  <2> HIDE DEF q, es
  <2>7. Hearing(c, g, r, <<x>>) = Reads(c, g, es) /\ RenderAll(c, r, <<x>>).r = q
    BY <2>3, <2>4, HearingEvents
  <2>8. Hears(c, g, r, <<x>>, text, calls)
    BY <1>2, <2>6, <2>7, FollowsOf DEF Hears
  <2>9. ~Hearing(c, g, r, <<x>>).ended
    BY <1>2, <2>6, <2>7 DEF AnthropicFollows
  <2> QED BY <2>8, <2>9
<1>3. CASE c = "gemini"
  <2>1. Render(c, r, x) = Rendered(r, << >>)
    BY <1>3 DEF Render, GeminiRender, Role, Chunk
  <2>2. Hears(c, g, r, <<x>>, text, calls) /\ Hearing(c, g, r, <<x>>) = g
    BY <2>1, HearsSilence
  <2> QED BY <2>2
<1> QED BY <1>1, <1>2, <1>3 DEF Parties

\* a piece of text,
LEMMA HearsText ==
  ASSUME NEW c \in Parties, NEW g, NEW r, NEW text \in Seq(Nat), NEW calls \in Seq(Seq(Nat)), NEW p \in Nat,
         Follows(c, g, r, text, calls), ~g.ended, NEW x, x = TextChunk(p)
  PROVE  Hears(c, g, r, <<x>>, Append(text, p), calls) /\ ~Hearing(c, g, r, <<x>>).ended
<1> DEFINE ps == <<p>>
           zs == Append(text, p)
<1>1. ps \in Seq(Nat) /\ text \o ps = zs
  OBVIOUS
<1>2. x.k = "text" /\ x.ps = ps
  BY DEF TextChunk, Chunk
<1> HIDE DEF ps, zs
<1>3. CASE c = "openai"
  <2> DEFINE h == ReadOne("openai", g, x)
  <2>1. OpenAIFollows(g, text, calls)
    BY <1>3, FollowsOf
  <2>2. OpenAIFollows(h, zs, calls) /\ ~h.ended
    BY <2>1, OpenAIText DEF zs
  <2> HIDE DEF h
  <2>3. Hearing(c, g, r, <<x>>) = h
    BY <1>3, OpenAIHears DEF h
  <2>4. Follows("openai", h, RenderAll(c, r, <<x>>).r, zs, calls)
    BY <2>2, FollowsOf
  <2>5. Hears(c, g, r, <<x>>, zs, calls)
    BY <1>3, <2>3, <2>4 DEF Hears
  <2>6. ~Hearing(c, g, r, <<x>>).ended
    BY <2>2, <2>3
  <2> QED BY <2>5, <2>6 DEF zs
<1>4. CASE c = "anthropic"
  <2> DEFINE q == EmitText(r, ps).r
             es == EmitText(r, ps).es
  <2>1. AnthropicFollows(g, r, text, calls)
    BY <1>4, FollowsOf
  <2>2. es \in Seq(Event) /\ AnthropicFollows(Reads("anthropic", g, es), q, zs, calls)
    BY <1>1, <2>1, AnthropicText
  <2>3. Render(c, r, x) = EmitText(r, ps)
    BY <1>2, <1>4 DEF Render, AnthropicRender
  <2> HIDE DEF q, es
  <2>5. Hearing(c, g, r, <<x>>) = Reads(c, g, es) /\ RenderAll(c, r, <<x>>).r = q
    <3>1. Render(c, r, x).es = es /\ Render(c, r, x).r = q
      BY <2>3 DEF q, es
    <3>2. Render(c, r, x).es \in Seq(Event)
      BY <2>2, <3>1
    <3>3. RenderAll(c, r, <<x>>).r = Render(c, r, x).r /\ RenderAll(c, r, <<x>>).es = Render(c, r, x).es
      BY <3>2, RenderOne
    <3> QED BY <3>1, <3>3 DEF Hearing
  <2>6. Hears(c, g, r, <<x>>, zs, calls)
    BY <1>4, <2>2, <2>5, FollowsOf DEF Hears
  <2>7. ~Hearing(c, g, r, <<x>>).ended
    BY <1>4, <2>2, <2>5 DEF AnthropicFollows
  <2> QED BY <2>6, <2>7 DEF zs
<1>5. CASE c = "gemini"
  <2> DEFINE q == [r EXCEPT !.spoke = TRUE]
             e == Ev("parts", 0, ps)
             es == <<e>>
             E == {e}
  <2>1. GeminiFollows(g, r, text)
    BY <1>5, FollowsOf
  <2>2. r \in Renderer
    BY <2>1 DEF GeminiFollows
  <2>3. q \in Renderer /\ q.spoke
    BY <2>2 DEF Renderer
  <2>4. Render(c, r, x) = Rendered(q, es)
    BY <1>2, <1>5 DEF Render, GeminiRender
  <2> HIDE DEF e
  <2>5. es \in Seq(E) /\ Reads("gemini", g, es) = ReadOne("gemini", g, e)
    BY ReadsThis
  <2> HIDE DEF q
  <2>6. GeminiFollows(ReadOne("gemini", g, e), q, zs)
    BY <1>1, <2>1, <2>3, GeminiText DEF e
  <2> HIDE DEF es, E
  <2>7. Hearing(c, g, r, <<x>>) = Reads(c, g, es) /\ RenderAll(c, r, <<x>>).r = q
    <3>1. Render(c, r, x).es = es /\ Render(c, r, x).r = q
      BY <2>4 DEF Rendered
    <3>2. Render(c, r, x).es \in Seq(E)
      BY <2>5, <3>1
    <3>3. RenderAll(c, r, <<x>>).r = Render(c, r, x).r /\ RenderAll(c, r, <<x>>).es = Render(c, r, x).es
      BY <3>2, RenderOne
    <3> QED BY <3>1, <3>3 DEF Hearing
  <2>8. Hears(c, g, r, <<x>>, zs, calls)
    BY <1>5, <2>5, <2>6, <2>7, FollowsOf DEF Hears
  <2>9. ~Hearing(c, g, r, <<x>>).ended
    BY <1>5, <2>5, <2>6, <2>7 DEF GeminiFollows
  <2> QED BY <2>8, <2>9 DEF zs
<1> QED BY <1>3, <1>4, <1>5 DEF Parties

\* and a tool call.
LEMMA HearsTool ==
  ASSUME NEW c \in Parties, NEW g, NEW r, NEW text \in Seq(Nat), NEW calls \in Seq(Seq(Nat)),
         NEW ps \in Seq(Nat), NEW i \in 0..Len(calls),
         Follows(c, g, r, text, calls), ~g.ended, NEW x, x = ToolChunk(i, ps)
  PROVE  Hears(c, g, r, <<x>>, text, Extended(calls, i, ps)) /\ ~Hearing(c, g, r, <<x>>).ended
<1> DEFINE cs == Extended(calls, i, ps)
<1>1. x.k = "tool" /\ x.ps = ps /\ x.i = i
  BY DEF ToolChunk, Chunk
<1> HIDE DEF cs
<1>2. CASE c = "openai"
  <2> DEFINE h == ReadOne("openai", g, x)
  <2>1. OpenAIFollows(g, text, calls)
    BY <1>2, FollowsOf
  <2> HIDE DEF h
  <2>2. OpenAIFollows(h, text, cs) /\ ~h.ended
    BY <2>1, OpenAITool DEF cs, h
  <2>3. Hearing(c, g, r, <<x>>) = h
    BY <1>2, OpenAIHears DEF h
  <2> QED BY <1>2, <2>2, <2>3, FollowsOf DEF Hears, cs
<1>3. CASE c = "anthropic"
  <2> DEFINE q == EmitToolCallFragment(r, i, ps).r
             es == EmitToolCallFragment(r, i, ps).es
  <2>1. AnthropicFollows(g, r, text, calls)
    BY <1>3, FollowsOf
  <2>2. es \in Seq(Event) /\ AnthropicFollows(Reads("anthropic", g, es), q, text, cs)
    BY <2>1, AnthropicTool DEF cs
  <2>3. Render(c, r, x) = EmitToolCallFragment(r, i, ps)
    BY <1>1, <1>3 DEF Render, AnthropicRender
  <2> HIDE DEF q, es
  <2>5. Hearing(c, g, r, <<x>>) = Reads(c, g, es) /\ RenderAll(c, r, <<x>>).r = q
    <3>1. Render(c, r, x).es = es /\ Render(c, r, x).r = q
      BY <2>3 DEF q, es
    <3>2. Render(c, r, x).es \in Seq(Event)
      BY <2>2, <3>1
    <3>3. RenderAll(c, r, <<x>>).r = Render(c, r, x).r /\ RenderAll(c, r, <<x>>).es = Render(c, r, x).es
      BY <3>2, RenderOne
    <3> QED BY <3>1, <3>3 DEF Hearing
  <2>6. Hears(c, g, r, <<x>>, text, cs)
    BY <1>3, <2>2, <2>5, FollowsOf DEF Hears
  <2>7. ~Hearing(c, g, r, <<x>>).ended
    BY <1>3, <2>2, <2>5 DEF AnthropicFollows
  <2> QED BY <2>6, <2>7 DEF cs
<1>4. CASE c = "gemini"
  <2>1. Render(c, r, x) = Rendered(r, << >>)
    BY <1>1, <1>4 DEF Render, GeminiRender
  <2>2. Follows(c, g, r, text, cs)
    BY <1>4, FollowsOf
  <2> QED BY <2>1, <2>2, HearsSilence DEF cs
<1> QED BY <1>2, <1>3, <1>4 DEF Parties

\* OpenAI's chunks after the content.
LEMMA HearsFinish ==
  ASSUME NEW c \in Parties, NEW g, NEW r, NEW text \in Seq(Nat), NEW calls \in Seq(Seq(Nat)),
         NEW why \in {"stop", "length"}, Follows(c, g, r, text, calls), ~g.ended, NEW x, x = FinishChunk(why)
  PROVE  Hears(c, g, r, <<x>>, text, calls) /\ ~Hearing(c, g, r, <<x>>).ended
<1>1. x.k = "finish"
  BY DEF FinishChunk, Chunk
<1>2. CASE c = "openai"
  <2> DEFINE h == ReadOne("openai", g, x)
  <2>1. OpenAIFollows(g, text, calls)
    BY <1>2, FollowsOf
  <2>2. OpenAIFollows(h, text, calls) /\ ~h.ended
    BY <2>1, OpenAIFinishes
  <2> HIDE DEF h
  <2>3. Hearing(c, g, r, <<x>>) = h
    BY <1>2, OpenAIHears DEF h
  <2> QED BY <1>2, <2>2, <2>3, FollowsOf DEF Hears
<1>3. CASE c # "openai"
  <2>1. Render(c, r, x) = Rendered(r, << >>)
    BY <1>1, <1>3 DEF Render, AnthropicRender, GeminiRender, Parties
  <2>2. Hears(c, g, r, <<x>>, text, calls) /\ Hearing(c, g, r, <<x>>) = g
    BY <2>1, HearsSilence
  <2> QED BY <2>2
<1> QED BY <1>2, <1>3

LEMMA HearsDone ==
  ASSUME NEW c \in Parties, NEW g, NEW r, NEW text \in Seq(Nat), NEW calls \in Seq(Seq(Nat)),
         Follows(c, g, r, text, calls), ~g.ended, NEW x, x = Done
  PROVE  Hears(c, g, r, <<x>>, text, calls) /\ (Hearing(c, g, r, <<x>>).ended => c = "openai")
<1>1. x.k = "done"
  BY DEF Done, Chunk
<1>2. CASE c = "openai"
  <2> DEFINE h == ReadOne("openai", g, x)
  <2>1. OpenAIFollows(g, text, calls)
    BY <1>2, FollowsOf
  <2>2. OpenAIFollows(h, text, calls)
    BY <2>1, OpenAIIsDone
  <2> HIDE DEF h
  <2>3. Hearing(c, g, r, <<x>>) = h
    BY <1>2, OpenAIHears DEF h
  <2> QED BY <1>2, <2>2, <2>3, FollowsOf DEF Hears
<1>3. CASE c # "openai"
  <2>1. Render(c, r, x) = Rendered(r, << >>)
    BY <1>1, <1>3 DEF Render, AnthropicRender, GeminiRender, Parties
  <2>2. Hears(c, g, r, <<x>>, text, calls) /\ Hearing(c, g, r, <<x>>) = g
    BY <2>1, HearsSilence
  <2> QED BY <2>2
<1> QED BY <1>2, <1>3

\* The last two chunks in one go.
Joined(es, ms) == es \o ms

\* Two chunks of one event are rendered one after the other.
LEMMA RenderTwo ==
  ASSUME NEW c, NEW r, NEW x, NEW y, NEW E, NEW es \in Seq(E), NEW ms \in Seq(E),
         Render(c, r, x) = Rendered(r, es), Render(c, r, y) = Rendered(r, ms)
  PROVE  RenderAll(c, r, <<x, y>>).r = r /\ RenderAll(c, r, <<x, y>>).es = Joined(es, ms)
<1> DEFINE z == Rendered(r, << >>)
           u == RenderNext(c, z, x)
           v == RenderNext(c, u, y)
<1>1. RenderAll(c, r, <<x, y>>) = v
  BY RenderThese
<1>2. z.r = r /\ z.es = << >> /\ << >> \o es = es
  BY DEF Rendered
<1> HIDE DEF z
<1>3. u.r = r /\ u.es = es
  BY <1>2 DEF RenderNext, Rendered
<1> HIDE DEF u
<1>4. v.r = r /\ v.es = es \o ms
  BY <1>3 DEF RenderNext, Rendered
<1> HIDE DEF v
<1> QED BY <1>1, <1>4 DEF Joined

LEMMA HearsBoth ==
  ASSUME NEW c \in Parties, NEW g, NEW r, NEW text \in Seq(Nat), NEW calls \in Seq(Seq(Nat)),
         NEW why \in {"stop", "length"}, Follows(c, g, r, text, calls), ~g.ended,
         NEW x, x = FinishChunk(why), NEW y, y = Done
  PROVE  Hears(c, g, r, <<x, y>>, text, calls) /\ (Hearing(c, g, r, <<x, y>>).ended => c = "openai")
<1>1. x.k = "finish" /\ y.k = "done"
  BY DEF FinishChunk, Done, Chunk
<1> DEFINE a == RenderAll(c, r, <<x, y>>)
<1>2. CASE c = "openai"
  <2> DEFINE h == ReadOne("openai", g, x)
             f == ReadOne("openai", h, y)
             es == <<x>>
             ms == <<y>>
             E == {x, y}
  <2>1. OpenAIFollows(g, text, calls)
    BY <1>2, FollowsOf
  <2>2. OpenAIFollows(h, text, calls) /\ ~h.ended
    BY <2>1, OpenAIFinishes
  <2> HIDE DEF h
  <2>3. OpenAIFollows(f, text, calls)
    BY <2>2, OpenAIIsDone
  <2> HIDE DEF f
  <2>4. Render(c, r, x) = Rendered(r, es) /\ Render(c, r, y) = Rendered(r, ms)
    BY <1>2 DEF Render
  <2>5. es \in Seq(E) /\ ms \in Seq(E)
    OBVIOUS
  <2>6. es \o ms = <<x, y>>
    BY TwoInARow
  <2> HIDE DEF es, ms, E
  <2>7. a.r = r /\ a.es = Joined(es, ms)
    BY <2>4, <2>5, RenderTwo
  <2> HIDE DEF a
  <2>8. Reads("openai", g, <<x, y>>) = f
    BY ReadsThese DEF f, h
  <2>9. Reads(c, g, a.es) = f
    BY <1>2, <2>6, <2>7, <2>8 DEF Joined
  <2>10. Follows(c, f, r, text, calls)
    BY <1>2, <2>3, FollowsOf
  <2> QED BY <1>2, <2>7, <2>9, <2>10 DEF Hears, Hearing, a
<1>3. CASE c # "openai"
  <2> DEFINE es == << >>
             E == {}
  <2>1. Render(c, r, x) = Rendered(r, es) /\ Render(c, r, y) = Rendered(r, es)
    BY <1>1, <1>3 DEF Render, AnthropicRender, GeminiRender, Parties
  <2>2. es \in Seq(E) /\ es \o es = es /\ Reads(c, g, es) = g
    BY ReadsNone
  <2> HIDE DEF es, E
  <2>3. a.r = r /\ a.es = Joined(es, es)
    BY <2>1, <2>2, RenderTwo
  <2> HIDE DEF a
  <2> QED BY <2>2, <2>3 DEF Hears, Hearing, a, Joined
<1> QED BY <1>2, <1>3

\* Whatever the translator passes on, the client follows the translator.
LEMMA ClientFollows ==
  ASSUME NEW c \in Parties, NEW g, NEW r, NEW t, t.text \in Seq(Nat), t.calls \in Seq(Seq(Nat)),
         NEW s, NEW phase, Passes(t, s, phase),
         Follows(c, g, r, t.text, t.calls), ~g.ended
  PROVE  Hears(c, g, r, s.cs, s.t.text, s.t.calls) /\ EndsInTime(c, Hearing(c, g, r, s.cs), phase)
<1>1. CASE s.cs = << >> /\ Same(s.t, t)
  <2>1. Hears(c, g, r, << >>, t.text, t.calls) /\ Hearing(c, g, r, << >>) = g
    BY HearsNothing
  <2> QED BY <1>1, <2>1 DEF Same, EndsInTime
<1>2. CASE s.cs = <<Role>> /\ Same(s.t, t)
  <2>1. Hears(c, g, r, <<Role>>, t.text, t.calls) /\ ~Hearing(c, g, r, <<Role>>).ended
    BY HearsRole
  <2> QED BY <1>2, <2>1 DEF Same, EndsInTime
<1>3. ASSUME NEW p \in Nat, s.cs = <<TextChunk(p)>>, s.t.text = Append(t.text, p), s.t.calls = t.calls
      PROVE  Hears(c, g, r, s.cs, s.t.text, s.t.calls) /\ EndsInTime(c, Hearing(c, g, r, s.cs), phase)
  <2> DEFINE x == TextChunk(p)
  <2>1. Hears(c, g, r, <<x>>, Append(t.text, p), t.calls) /\ ~Hearing(c, g, r, <<x>>).ended
    BY HearsText
  <2> QED BY <1>3, <2>1 DEF EndsInTime
<1>4. ASSUME NEW i \in 0..Len(t.calls), NEW ps \in Seq(Nat), s.cs = <<ToolChunk(i, ps)>>, s.t.text = t.text,
             s.t.calls = Extended(t.calls, i, ps)
      PROVE  Hears(c, g, r, s.cs, s.t.text, s.t.calls) /\ EndsInTime(c, Hearing(c, g, r, s.cs), phase)
  <2> DEFINE x == ToolChunk(i, ps)
  <2>1. Hears(c, g, r, <<x>>, t.text, Extended(t.calls, i, ps)) /\ ~Hearing(c, g, r, <<x>>).ended
    BY HearsTool
  <2> QED BY <1>4, <2>1 DEF EndsInTime
<1>5. ASSUME NEW why \in {"stop", "length"}, s.cs = <<FinishChunk(why)>>, Same(s.t, t)
      PROVE  Hears(c, g, r, s.cs, s.t.text, s.t.calls) /\ EndsInTime(c, Hearing(c, g, r, s.cs), phase)
  <2> DEFINE x == FinishChunk(why)
  <2>1. Hears(c, g, r, <<x>>, t.text, t.calls) /\ ~Hearing(c, g, r, <<x>>).ended
    BY HearsFinish
  <2> QED BY <1>5, <2>1 DEF Same, EndsInTime
<1>6. ASSUME NEW why \in {"stop", "length"}, s.cs = <<FinishChunk(why), Done>>, Same(s.t, t), phase = "over"
      PROVE  Hears(c, g, r, s.cs, s.t.text, s.t.calls) /\ EndsInTime(c, Hearing(c, g, r, s.cs), phase)
  <2> DEFINE x == FinishChunk(why)
  <2>1. Hears(c, g, r, <<x, Done>>, t.text, t.calls) /\ (Hearing(c, g, r, <<x, Done>>).ended => c = "openai")
    BY HearsBoth
  <2> QED BY <1>6, <2>1 DEF Same, EndsInTime
<1>7. CASE s.cs = <<Done>> /\ Same(s.t, t) /\ phase = "over"
  <2>1. Hears(c, g, r, <<Done>>, t.text, t.calls) /\ (Hearing(c, g, r, <<Done>>).ended => c = "openai")
    BY HearsDone
  <2> QED BY <1>7, <2>1 DEF Same, EndsInTime
<1> QED BY <1>1, <1>2, <1>3, <1>4, <1>5, <1>6, <1>7 DEF Passes

-----------------------------------------------------------------------------
(* The end of every client's stream *)

\* The calls OpenAI's client has are those it followed.
LEMMA OpenAICalls ==
  ASSUME NEW g, NEW text, NEW calls \in Seq(Seq(Nat)), OpenAIFollows(g, text, calls)
  PROVE  Calls(g) = calls
<1>1. /\ g \in Accumulator /\ Len(g.tools) = Len(calls)
      /\ \A j \in 1..Len(calls) : g.tools[j] = j - 1 /\ Carries(g.blocks[j], calls[j])
  BY DEF OpenAIFollows
<1>2. g.tools \in Seq(Nat)
  BY <1>1 DEF Accumulator
<1>3. \A j \in 1..Len(calls) : Carries(g.blocks[g.tools[j] + 1], calls[j])
  <2> SUFFICES ASSUME NEW j \in 1..Len(calls) PROVE Carries(g.blocks[g.tools[j] + 1], calls[j])
    OBVIOUS
  <2>1. g.tools[j] = j - 1 /\ Carries(g.blocks[j], calls[j])
    BY <1>1
  <2>2. g.tools[j] + 1 = j
    BY <2>1
  <2> QED BY <2>1, <2>2
<1> QED BY <1>1, <1>2, <1>3, CallsAre

\* A stream that is closed in order leaves the client with the translator's
\* answer, a native one with an end, Anthropic's with the right stop reason.
LEMMA ClientEnds ==
  ASSUME NEW c \in Parties, NEW g, NEW r, NEW text \in Seq(Nat), NEW calls \in Seq(Seq(Nat)),
         Follows(c, g, r, text, calls), NEW done, done.text = text, done.calls = calls,
         NEW f, f = Reads(c, g, RenderFinish(c, r, done))
  PROVE  /\ Ends(f, text, calls)
         /\ c # "openai" => f.ended
         /\ c = "anthropic" => Told(f, calls)
<1>1. CASE c = "openai"
  <2>1. f = g
    BY <1>1, ReadsNone DEF RenderFinish
  <2>2. OpenAIFollows(g, text, calls)
    BY <1>1, FollowsOf
  <2>3. Calls(g) = calls
    BY <2>2, OpenAICalls
  <2> QED BY <1>1, <2>1, <2>2, <2>3 DEF OpenAIFollows, Ends
<1>2. CASE c = "anthropic"
  <2>1. f = Reads("anthropic", g, AnthropicFinish(r, done))
    BY <1>2 DEF RenderFinish
  <2>2. AnthropicFollows(g, r, text, calls)
    BY <1>2, FollowsOf
  <2>3. Ends(f, text, calls) /\ f.ended /\ Told(f, calls)
    BY <2>1, <2>2, AnthropicEnds
  <2> QED BY <1>2, <2>3
<1>3. CASE c = "gemini"
  <2>1. f = Reads("gemini", g, GeminiFinish(r, done))
    BY <1>3 DEF RenderFinish
  <2>2. GeminiFollows(g, r, text)
    BY <1>3, FollowsOf
  <2>3. Ends(f, text, calls) /\ f.ended
    BY <2>1, <2>2, GeminiEnds
  <2> QED BY <1>3, <2>3
<1> QED BY <1>1, <1>2, <1>3 DEF Parties

\* A stream that breaks off ends with an error event the client can place.
LEMMA ClientIsTold ==
  ASSUME NEW c \in Parties, NEW g, NEW r, NEW text \in Seq(Nat), NEW calls \in Seq(Seq(Nat)),
         Follows(c, g, r, text, calls), NEW f, f = Reads(c, g, <<[k |-> "error"]>>)
  PROVE  f.ok /\ f.text = text /\ (c # "openai" => f.ended)
<1> DEFINE e == [k |-> "error"]
<1>1. f = ReadOne(c, g, e)
  <2> HIDE DEF e
  <2>1. f = Reads(c, g, <<e>>)
    BY DEF e
  <2> QED BY <2>1, ReadsThis
<1>2. CASE c = "openai"
  <2>1. g \in Accumulator /\ g.ok /\ g.text = text
    BY <1>2, FollowsOf DEF OpenAIFollows
  <2>2. CASE g.ended
    <3>1. f = OpenAIReads(g, e) /\ e.k = "error"
      BY <1>1, <1>2 DEF ReadOne
    <3> HIDE DEF e
    <3>2. f = [g EXCEPT !.ok = @ /\ e.k = "error"]
      BY <2>2, <3>1 DEF OpenAIReads
    <3> QED BY <1>2, <2>1, <3>1, <3>2 DEF Accumulator
  <2>3. CASE ~g.ended
    <3>1. f = [g EXCEPT !.ended = TRUE]
      BY <1>1, <1>2, <2>3 DEF ReadOne, OpenAIReads
    <3> QED BY <1>2, <2>1, <3>1 DEF Accumulator
  <2> QED BY <2>2, <2>3
<1>3. CASE c = "anthropic"
  <2>1. g \in Accumulator /\ g.ok /\ ~g.ended /\ g.text = text
    BY <1>3, FollowsOf DEF AnthropicFollows
  <2>2. f = [g EXCEPT !.ended = TRUE, !.ok = @ /\ ~g.ended]
    BY <1>1, <1>3 DEF ReadOne, AnthropicReads
  <2> QED BY <2>1, <2>2 DEF Accumulator
<1>4. CASE c = "gemini"
  <2>1. g \in Accumulator /\ g.ok /\ ~g.ended /\ g.text = text
    BY <1>4, FollowsOf DEF GeminiFollows
  <2>2. f = [g EXCEPT !.ended = TRUE, !.ok = @ /\ ~g.ended]
    BY <1>1, <1>4 DEF ReadOne, GeminiReads
  <2> QED BY <2>1, <2>2 DEF Accumulator
<1> QED BY <1>2, <1>3, <1>4 DEF Parties

\* What the client has is a prefix of what was said.
LEMMA PrefixOfItself == ASSUME NEW s \in Seq(Nat) PROVE IsPrefix(s, s)
BY DEF IsPrefix

LEMMA PrefixOfLonger == ASSUME NEW s \in Seq(Nat), NEW p \in Nat PROVE IsPrefix(s, Append(s, p))
<1> DEFINE t == Append(s, p)
<1>1. t \in Seq(Nat) /\ Len(t) = Len(s) + 1 /\ \A i \in 1..Len(s) : t[i] = s[i]
  OBVIOUS
<1> HIDE DEF t
<1>2. SubSeq(s, 1, Len(s)) = SubSeq(t, 1, Len(s)) /\ Len(s) <= Len(t)
  BY <1>1
<1>3. IsPrefix(s, t)
  BY <1>2 DEF IsPrefix
<1> QED BY <1>3 DEF t

LEMMA PassesPrefix ==
  ASSUME NEW t, NEW s, NEW phase, t.text \in Seq(Nat), Passes(t, s, phase) PROVE IsPrefix(t.text, s.t.text)
<1>1. s.t.text = t.text \/ \E p \in Nat : s.t.text = Append(t.text, p)
  BY DEF Passes, Same
<1> QED BY <1>1, PrefixOfItself, PrefixOfLonger

-----------------------------------------------------------------------------
(* The provider's side: one event read ahead *)

\* Usage reports, with and without all fields.
LEMMA MergeIsUsage ==
  ASSUME NEW prev \in Usage, NEW rep, \A f \in {"inp", "out"} : f \in DOMAIN rep => rep[f] \in Nat
  PROVE  Merge(prev, rep) \in Usage
BY DEF Merge, Usage

LEMMA MergeNothing == ASSUME NEW prev \in Usage PROVE Merge(prev, << >>) = prev
<1>1. DOMAIN << >> = {}
  OBVIOUS
<1>2. Merge(prev, << >>) = [f \in {"inp", "out"} |-> prev[f]]
  BY <1>1 DEF Merge
<1> QED BY <1>2 DEF Usage

\* The reports providers send.
Reports == {<< >>} \cup [inp : Nat, out : Nat] \cup [out : Nat]

LEMMA MergeReport == ASSUME NEW prev \in Usage, NEW rep \in Reports PROVE Merge(prev, rep) \in Usage
<1>1. CASE rep = << >>
  BY <1>1, MergeNothing
<1>2. CASE rep \in [inp : Nat, out : Nat]
  <2>1. rep.inp \in Nat /\ rep.out \in Nat /\ DOMAIN rep = {"inp", "out"}
    BY <1>2
  <2> QED BY <2>1, MergeIsUsage
<1>3. CASE rep \in [out : Nat]
  <2>1. rep.out \in Nat /\ DOMAIN rep = {"out"}
    BY <1>3
  <2> QED BY <2>1, MergeIsUsage
<1> QED BY <1>1, <1>2, <1>3 DEF Reports

LEMMA MergeFull == ASSUME NEW prev \in Usage, NEW rep \in [inp : Nat, out : Nat] PROVE Merge(prev, rep) = rep
<1>1. rep.inp \in Nat /\ rep.out \in Nat /\ DOMAIN rep = {"inp", "out"}
  OBVIOUS
<1>2. Merge(prev, rep) = [f \in {"inp", "out"} |-> rep[f]]
  BY <1>1 DEF Merge
<1>3. rep = [f \in {"inp", "out"} |-> rep[f]]
  OBVIOUS
<1> QED BY <1>2, <1>3

\* A translator with these fields.
Turned(v, text, blocks, calls, why, usage) ==
  /\ v \in Translator
  /\ v.text = text /\ v.blocks = blocks /\ v.calls = calls /\ v.why = why /\ v.usage = usage

\* The calls whose block is still open, as a block opens, grows and stops.
LEMMA PendingHas ==
  ASSUME NEW bs, (DOMAIN bs) \subseteq Nat, bs = [i \in DOMAIN bs |-> bs[i]], \A i \in DOMAIN bs : bs[i] \in Seq(Nat)
  PROVE  bs \in Pending
<1> DEFINE D == DOMAIN bs
<1>1. bs \in [D -> Seq(Nat)] /\ D \in SUBSET Nat
  OBVIOUS
<1> HIDE DEF D
<1> QED BY <1>1 DEF Pending

LEMMA OfPending ==
  ASSUME NEW bs \in Pending
  PROVE  (DOMAIN bs) \subseteq Nat /\ \A i \in DOMAIN bs : bs[i] \in Seq(Nat)
<1>1. PICK D \in SUBSET Nat : bs \in [D -> Seq(Nat)]
  BY DEF Pending
<1> QED BY <1>1

LEMMA PendingOpened ==
  ASSUME NEW bs \in Pending, NEW i \in Nat,
         NEW ds, ds = [j \in DOMAIN bs \cup {i} |-> IF j = i THEN << >> ELSE bs[j]]
  PROVE  ds \in Pending /\ i \in DOMAIN ds /\ ds[i] = << >>
<1>1. (DOMAIN bs) \subseteq Nat /\ \A j \in DOMAIN bs : bs[j] \in Seq(Nat)
  BY OfPending
<1>2. DOMAIN ds = DOMAIN bs \cup {i} /\ ds[i] = << >> /\ \A j \in DOMAIN bs : j # i => ds[j] = bs[j]
  OBVIOUS
<1>3. ds = [j \in DOMAIN ds |-> ds[j]]
  OBVIOUS
<1>4. << >> \in Seq(Nat)
  OBVIOUS
<1>5. \A j \in DOMAIN ds : ds[j] \in Seq(Nat)
  BY <1>1, <1>2, <1>4
<1>6. (DOMAIN ds) \subseteq Nat
  BY <1>1, <1>2
<1> QED BY <1>2, <1>3, <1>5, <1>6, PendingHas

LEMMA PendingFilled ==
  ASSUME NEW bs \in Pending, NEW i \in DOMAIN bs, NEW ps \in Seq(Nat), NEW ds, ds = [bs EXCEPT ![i] = ps]
  PROVE  ds \in Pending /\ i \in DOMAIN ds /\ ds[i] = ps
<1>1. PICK D \in SUBSET Nat : bs \in [D -> Seq(Nat)]
  BY DEF Pending
<1>2. ds \in [D -> Seq(Nat)] /\ i \in DOMAIN ds /\ ds[i] = ps
  BY <1>1
<1> QED BY <1>2 DEF Pending

LEMMA PendingClosed ==
  ASSUME NEW bs \in Pending, NEW i, NEW ds, ds = [j \in DOMAIN bs \ {i} |-> bs[j]]
  PROVE  ds \in Pending
<1>1. (DOMAIN bs) \subseteq Nat /\ \A j \in DOMAIN bs : bs[j] \in Seq(Nat)
  BY OfPending
<1>2. DOMAIN ds = DOMAIN bs \ {i} /\ \A j \in DOMAIN ds : ds[j] = bs[j]
  OBVIOUS
<1>3. ds = [j \in DOMAIN ds |-> ds[j]]
  OBVIOUS
<1>5. \A j \in DOMAIN ds : ds[j] \in Seq(Nat)
  BY <1>1, <1>2
<1>6. (DOMAIN ds) \subseteq Nat
  BY <1>1, <1>2
<1> QED BY <1>3, <1>5, <1>6, PendingHas

\* What one event makes of a translator.
Pushed(s, text, blocks, calls, why, usage, cs) == Turned(s.t, text, blocks, calls, why, usage) /\ s.cs = cs

LEMMA TranslatedIs == ASSUME NEW t, NEW cs PROVE Translated(t, cs).t = t /\ Translated(t, cs).cs = cs
BY DEF Translated

\* The fields of a translator.
LEMMA FieldsOfTranslator ==
  ASSUME NEW t \in Translator
  PROVE  /\ t.text \in Seq(Nat) /\ t.blocks \in Pending /\ t.calls \in Seq(Seq(Nat))
         /\ t.why \in {"stop", "length"} /\ t.usage \in Usage
BY DEF Translator

\* What each provider's translator makes of each event.
LEMMA PushStart ==
  ASSUME NEW u \in {"openai", "anthropic"}, NEW t \in Translator, NEW e, e.k = "start", e.usage \in Reports,
         u = "openai" => e.usage = << >>
  PROVE  Pushed(Push(u, t, e), t.text, t.blocks, t.calls, t.why, Merge(t.usage, e.usage), <<Role>>)
<1> DEFINE usage == Merge(t.usage, e.usage)
<1>1. t.usage \in Usage /\ usage \in Usage
  BY FieldsOfTranslator, MergeReport
<1> HIDE DEF usage
<1>2. CASE u = "openai"
  <2>1. Push(u, t, e) = Translated(t, <<Role>>)
    BY <1>2 DEF Push, OpenAIPush
  <2>2. usage = t.usage
    BY <1>1, <1>2, MergeNothing DEF usage
  <2>3. Turned(t, t.text, t.blocks, t.calls, t.why, t.usage)
    BY DEF Turned
  <2> QED BY <2>1, <2>2, <2>3, TranslatedIs DEF Pushed, usage
<1>3. CASE u = "anthropic"
  <2> DEFINE v == [t EXCEPT !.usage = usage]
  <2>1. Push(u, t, e) = Translated(v, <<Role>>)
    BY <1>3 DEF Push, AnthropicHandleEvent, UsageFromAnthropic, usage
  <2>2. Turned(v, t.text, t.blocks, t.calls, t.why, usage)
    BY <1>1 DEF Turned, Translator
  <2> HIDE DEF v
  <2> QED BY <2>1, <2>2, TranslatedIs DEF Pushed, usage
<1> QED BY <1>2, <1>3

LEMMA PushText ==
  ASSUME NEW u \in Parties, NEW t \in Translator, NEW e, e.k = "text", e.p \in Nat, e.usage \in Reports,
         u # "gemini" => e.usage = << >>
  PROVE  Pushed(Push(u, t, e), Append(t.text, e.p), t.blocks, t.calls, t.why, Merge(t.usage, e.usage), <<TextChunk(e.p)>>)
<1> DEFINE usage == Merge(t.usage, e.usage)
           text == Append(t.text, e.p)
           cs == <<TextChunk(e.p)>>
<1>1. t.usage \in Usage /\ usage \in Usage /\ text \in Seq(Nat)
  BY FieldsOfTranslator, MergeReport
<1>2. CASE u # "gemini"
  <2> DEFINE v == [t EXCEPT !.text = text]
  <2>1. Push(u, t, e) = Translated(v, cs)
    BY <1>2 DEF Push, OpenAIPush, AnthropicHandleEvent, Parties
  <2>2. usage = t.usage
    BY <1>1, <1>2, MergeNothing
  <2> HIDE DEF usage, text, cs
  <2>3. Turned(v, text, t.blocks, t.calls, t.why, t.usage)
    BY <1>1 DEF Turned, Translator
  <2> HIDE DEF v
  <2>4. Pushed(Push(u, t, e), text, t.blocks, t.calls, t.why, usage, cs)
    BY <2>1, <2>2, <2>3, TranslatedIs DEF Pushed
  <2> QED BY <2>4 DEF usage, text, cs
<1>3. CASE u = "gemini"
  <2> DEFINE w == [t EXCEPT !.usage = usage]
             v == [w EXCEPT !.text = Append(w.text, e.p)]
  <2>1. Push(u, t, e) = Translated(v, cs)
    BY <1>3 DEF Push, GeminiHandlePayload, UsageFromMetadata
  <2> HIDE DEF usage
  <2>2. Turned(w, t.text, t.blocks, t.calls, t.why, usage)
    BY <1>1 DEF Turned, Translator
  <2> HIDE DEF w
  <2>3. v = [w EXCEPT !.text = text]
    BY <2>2 DEF Turned
  <2> HIDE DEF text, cs, v
  <2>4. Turned(v, text, t.blocks, t.calls, t.why, usage)
    BY <1>1, <2>2, <2>3 DEF Turned, Translator
  <2>5. Pushed(Push(u, t, e), text, t.blocks, t.calls, t.why, usage, cs)
    BY <2>1, <2>4, TranslatedIs DEF Pushed
  <2> QED BY <2>5 DEF usage, text, cs
<1> QED BY <1>2, <1>3

LEMMA PushToolOpen ==
  ASSUME NEW t \in Translator, NEW e, e.k = "tool_open", e.i \in Nat
  PROVE  \E bs \in Pending :
           /\ e.i \in DOMAIN bs /\ bs[e.i] = << >>
           /\ Pushed(Push("anthropic", t, e), t.text, bs, t.calls, t.why, t.usage, << >>)
<1> DEFINE i == e.i
           bs == [j \in DOMAIN t.blocks \cup {i} |-> IF j = i THEN << >> ELSE t.blocks[j]]
           v == [t EXCEPT !.blocks = bs]
<1>1. Push("anthropic", t, e) = Translated(v, << >>)
  BY DEF Push, AnthropicHandleEvent
<1>2. t.blocks \in Pending /\ i \in Nat
  BY FieldsOfTranslator
<1> HIDE DEF i
<1>3. bs \in Pending /\ i \in DOMAIN bs /\ bs[i] = << >>
  BY <1>2, PendingOpened
<1> HIDE DEF bs
<1>4. Turned(v, t.text, bs, t.calls, t.why, t.usage)
  BY <1>3 DEF Turned, Translator
<1> HIDE DEF v
<1>5. Pushed(Push("anthropic", t, e), t.text, bs, t.calls, t.why, t.usage, << >>)
  BY <1>1, <1>4, TranslatedIs DEF Pushed
<1> QED BY <1>3, <1>5 DEF i

LEMMA PushToolPiece ==
  ASSUME NEW t \in Translator, NEW e, e.k = "tool_piece", e.i \in DOMAIN t.blocks, e.p \in Nat
  PROVE  \E bs \in Pending :
           /\ e.i \in DOMAIN bs /\ bs[e.i] = Append(t.blocks[e.i], e.p)
           /\ Pushed(Push("anthropic", t, e), t.text, bs, t.calls, t.why, t.usage, << >>)
<1> DEFINE i == e.i
           ps == Append(t.blocks[i], e.p)
           bs == [t.blocks EXCEPT ![i] = ps]
           v == [t EXCEPT !.blocks = bs]
<1>1. t.blocks \in Pending
  BY FieldsOfTranslator
<1>2. t.blocks[i] \in Seq(Nat)
  BY <1>1, OfPending
<1>3. ps \in Seq(Nat)
  BY <1>2
<1>4. Push("anthropic", t, e) = Translated(v, << >>)
  <2>1. Push("anthropic", t, e) = Translated([t EXCEPT !.blocks = TakePiece(@, e.i, e.p)], << >>)
    BY DEF Push, AnthropicHandleEvent
  <2>2. TakePiece(t.blocks, e.i, e.p) = bs
    BY DEF TakePiece
  <2> HIDE DEF bs
  <2> QED BY <2>1, <2>2
<1> HIDE DEF ps, i
<1>5. bs \in Pending /\ i \in DOMAIN bs /\ bs[i] = ps
  BY <1>1, <1>3, PendingFilled DEF i
<1> HIDE DEF bs
<1>6. Turned(v, t.text, bs, t.calls, t.why, t.usage)
  BY <1>5 DEF Turned, Translator
<1> HIDE DEF v
<1>7. Pushed(Push("anthropic", t, e), t.text, bs, t.calls, t.why, t.usage, << >>)
  BY <1>4, <1>6, TranslatedIs DEF Pushed
<1> QED BY <1>5, <1>7 DEF i, ps

LEMMA PushToolClose ==
  ASSUME NEW t \in Translator, NEW e, e.k = "tool_close", e.i \in DOMAIN t.blocks
  PROVE  \E bs \in Pending :
           Pushed(Push("anthropic", t, e), t.text, bs, Append(t.calls, t.blocks[e.i]), t.why, t.usage,
                  <<ToolChunk(Len(t.calls), t.blocks[e.i])>>)
<1> DEFINE i == e.i
           ps == t.blocks[i]
           cs == <<ToolChunk(Len(t.calls), ps)>>
           calls == Append(t.calls, ps)
           bs == [j \in DOMAIN t.blocks \ {i} |-> t.blocks[j]]
           v == [t EXCEPT !.calls = calls, !.blocks = bs]
<1>1. t.blocks \in Pending /\ t.calls \in Seq(Seq(Nat))
  BY FieldsOfTranslator
<1>2. ps \in Seq(Nat)
  BY <1>1, OfPending
<1>3. calls \in Seq(Seq(Nat))
  BY <1>1, <1>2
<1>4. bs \in Pending
  <2> HIDE DEF i
  <2> QED BY <1>1, PendingClosed
<1>5. Push("anthropic", t, e) = Translated(v, cs)
  BY DEF Push, AnthropicHandleEvent
<1> HIDE DEF cs, calls, bs
<1>6. Turned(v, t.text, bs, calls, t.why, t.usage)
  BY <1>3, <1>4 DEF Turned, Translator
<1> HIDE DEF v
<1>7. Pushed(Push("anthropic", t, e), t.text, bs, calls, t.why, t.usage, cs)
  BY <1>5, <1>6, TranslatedIs DEF Pushed
<1> QED BY <1>4, <1>7 DEF calls, cs

LEMMA PushToolWhole ==
  ASSUME NEW t \in Translator, NEW e, e.k = "tool_whole", e.p \in Nat, e.usage \in Reports
  PROVE  Pushed(Push("gemini", t, e), t.text, t.blocks, Append(t.calls, <<e.p>>), t.why, Merge(t.usage, e.usage),
                <<ToolChunk(Len(t.calls), <<e.p>>)>>)
<1> DEFINE usage == Merge(t.usage, e.usage)
           ps == <<e.p>>
           calls == Append(t.calls, ps)
           cs == <<ToolChunk(Len(t.calls), ps)>>
           w == [t EXCEPT !.usage = usage]
           v == [w EXCEPT !.calls = Append(w.calls, ps)]
<1>1. t.usage \in Usage /\ usage \in Usage /\ t.calls \in Seq(Seq(Nat))
  BY FieldsOfTranslator, MergeReport
<1>2. ps \in Seq(Nat)
  OBVIOUS
<1>3. Push("gemini", t, e) = Translated(v, cs)
  BY DEF Push, GeminiHandlePayload, UsageFromMetadata
<1> HIDE DEF usage, ps
<1>4. calls \in Seq(Seq(Nat))
  BY <1>1, <1>2
<1>5. Turned(w, t.text, t.blocks, t.calls, t.why, usage)
  BY <1>1 DEF Turned, Translator
<1> HIDE DEF w
<1>6. v = [w EXCEPT !.calls = calls]
  BY <1>5 DEF Turned
<1> HIDE DEF calls, cs, v
<1>7. Turned(v, t.text, t.blocks, calls, t.why, usage)
  BY <1>4, <1>5, <1>6 DEF Turned, Translator
<1>8. Pushed(Push("gemini", t, e), t.text, t.blocks, calls, t.why, usage, cs)
  BY <1>3, <1>7, TranslatedIs DEF Pushed
<1> QED BY <1>8 DEF usage, ps, calls, cs

\* _accumulate_tool_calls extends the call of an index or adds the next one.
LEMMA AccumulateIs ==
  ASSUME NEW calls \in Seq(Seq(Nat)), NEW i \in 1..(Len(calls) + 1), NEW p \in Nat
  PROVE  /\ AccumulateToolCalls(calls, i, p) \in Seq(Seq(Nat))
         /\ AccumulateToolCalls(calls, i, p) = Extended(calls, i - 1, <<p>>)
<1> DEFINE ps == <<p>>
<1>1. ps \in Seq(Nat)
  OBVIOUS
<1>2. CASE i > Len(calls)
  <2>1. i - 1 = Len(calls)
    BY <1>2
  <2>2. AccumulateToolCalls(calls, i, p) = Append(calls, ps)
    BY <1>2 DEF AccumulateToolCalls
  <2>3. Extended(calls, i - 1, ps) = Append(calls, ps)
    BY <2>1 DEF Extended
  <2> HIDE DEF ps
  <2>4. Append(calls, ps) \in Seq(Seq(Nat))
    BY <1>1
  <2> QED BY <2>2, <2>3, <2>4 DEF ps
<1>3. CASE ~(i > Len(calls))
  <2> DEFINE c == calls[i]
             d == Append(c, p)
  <2>1. i \in 1..Len(calls) /\ i - 1 # Len(calls) /\ (i - 1) + 1 = i
    BY <1>3
  <2>2. c \in Seq(Nat)
    BY <2>1
  <2>3. d \in Seq(Nat) /\ d = c \o ps
    <3> HIDE DEF c
    <3> QED BY <2>2
  <2>4. AccumulateToolCalls(calls, i, p) = [calls EXCEPT ![i] = d]
    BY <1>3 DEF AccumulateToolCalls
  <2>5. Extended(calls, i - 1, ps) = [calls EXCEPT ![i] = c \o ps]
    BY <2>1 DEF Extended
  <2> HIDE DEF c, d, ps
  <2>6. [calls EXCEPT ![i] = d] \in Seq(Seq(Nat))
    BY <2>1, <2>3, ExceptSeq
  <2> QED BY <2>3, <2>4, <2>5, <2>6 DEF ps
<1> QED BY <1>2, <1>3

LEMMA PushOpenAITool ==
  ASSUME NEW t \in Translator, NEW e, e.k = "tool_piece", e.i \in 1..(Len(t.calls) + 1), e.p \in Nat
  PROVE  Pushed(Push("openai", t, e), t.text, t.blocks, AccumulateToolCalls(t.calls, e.i, e.p), t.why, t.usage,
                <<ToolChunk(e.i - 1, <<e.p>>)>>)
<1> DEFINE calls == AccumulateToolCalls(t.calls, e.i, e.p)
           cs == <<ToolChunk(e.i - 1, <<e.p>>)>>
           v == [t EXCEPT !.calls = calls]
<1>1. calls \in Seq(Seq(Nat))
  BY FieldsOfTranslator, AccumulateIs
<1>2. Push("openai", t, e) = Translated(v, cs)
  BY DEF Push, OpenAIPush
<1> HIDE DEF cs, calls
<1>3. Turned(v, t.text, t.blocks, calls, t.why, t.usage)
  BY <1>1 DEF Turned, Translator
<1> HIDE DEF v
<1>4. Pushed(Push("openai", t, e), t.text, t.blocks, calls, t.why, t.usage, cs)
  BY <1>2, <1>3, TranslatedIs DEF Pushed
<1> QED BY <1>4 DEF calls, cs

\* The chunks of an event that ends the content: OpenAI and Gemini give the
\* reason at once, Anthropic with its last event.
LEMMA PushLast ==
  ASSUME NEW u \in Parties, NEW t \in Translator, NEW e, e.k = "last", e.why \in {"stop", "length"}, e.usage \in Reports,
         u = "openai" => e.usage = << >>
  PROVE  Pushed(Push(u, t, e), t.text, t.blocks, t.calls, e.why, Merge(t.usage, e.usage),
                IF u = "openai" THEN <<FinishChunk(e.why)>>
                ELSE IF u = "gemini" THEN <<FinishChunk(e.why), Done>> ELSE << >>)
<1> DEFINE usage == Merge(t.usage, e.usage)
           why == e.why
<1>1. t.usage \in Usage /\ usage \in Usage /\ why \in {"stop", "length"}
  BY FieldsOfTranslator, MergeReport
<1>2. CASE u = "openai"
  <2> DEFINE v == [t EXCEPT !.why = why]
             cs == <<FinishChunk(why)>>
  <2>1. Push(u, t, e) = Translated(v, cs)
    BY <1>2 DEF Push, OpenAIPush
  <2>2. usage = t.usage
    BY <1>1, <1>2, MergeNothing
  <2> HIDE DEF usage, why, cs
  <2>3. Turned(v, t.text, t.blocks, t.calls, why, t.usage)
    BY <1>1 DEF Turned, Translator
  <2> HIDE DEF v
  <2>4. Pushed(Push(u, t, e), t.text, t.blocks, t.calls, why, usage, cs)
    BY <2>1, <2>2, <2>3, TranslatedIs DEF Pushed
  <2> QED BY <1>2, <2>4 DEF usage, why, cs
<1>3. CASE u = "gemini"
  <2> DEFINE w == [t EXCEPT !.usage = usage]
             v == [w EXCEPT !.why = why]
             cs == <<FinishChunk(why), Done>>
  <2>1. Push(u, t, e) = Translated(v, cs)
    BY <1>3 DEF Push, GeminiHandlePayload, UsageFromMetadata
  <2> HIDE DEF usage, why, cs
  <2>2. Turned(w, t.text, t.blocks, t.calls, t.why, usage)
    BY <1>1 DEF Turned, Translator
  <2> HIDE DEF w
  <2>3. Turned(v, t.text, t.blocks, t.calls, why, usage)
    BY <1>1, <2>2 DEF Turned, Translator
  <2> HIDE DEF v
  <2>4. Pushed(Push(u, t, e), t.text, t.blocks, t.calls, why, usage, cs)
    BY <2>1, <2>3, TranslatedIs DEF Pushed
  <2> QED BY <1>3, <2>4 DEF usage, why, cs
<1>4. CASE u = "anthropic"
  <2> DEFINE v == [t EXCEPT !.usage = usage, !.why = why]
             cs == << >>
  <2>1. Push(u, t, e) = Translated(v, cs)
    BY <1>4 DEF Push, AnthropicHandleEvent, UsageFromAnthropic
  <2> HIDE DEF usage, why, cs
  <2>2. Turned(v, t.text, t.blocks, t.calls, why, usage)
    BY <1>1 DEF Turned, Translator
  <2> HIDE DEF v
  <2>3. Pushed(Push(u, t, e), t.text, t.blocks, t.calls, why, usage, cs)
    BY <2>1, <2>2, TranslatedIs DEF Pushed
  <2> QED BY <1>4, <2>3 DEF usage, why, cs
<1> QED BY <1>2, <1>3, <1>4 DEF Parties

LEMMA PushOpenAIStop ==
  ASSUME NEW t \in Translator, NEW e, e.k = "stop", e.usage \in Usage
  PROVE  Pushed(Push("openai", t, e), t.text, t.blocks, t.calls, t.why, e.usage, <<Done>>)
<1> DEFINE v == [t EXCEPT !.usage = e.usage]
           cs == <<Done>>
<1>1. Push("openai", t, e) = Translated(v, cs)
  BY DEF Push, OpenAIPush
<1> HIDE DEF cs
<1>2. Turned(v, t.text, t.blocks, t.calls, t.why, e.usage)
  BY DEF Turned, Translator
<1> HIDE DEF v
<1>3. Pushed(Push("openai", t, e), t.text, t.blocks, t.calls, t.why, e.usage, cs)
  BY <1>1, <1>2, TranslatedIs DEF Pushed
<1> QED BY <1>3 DEF cs

LEMMA PushAnthropicStop ==
  ASSUME NEW t \in Translator, NEW e, e.k = "stop"
  PROVE  Pushed(Push("anthropic", t, e), t.text, t.blocks, t.calls, t.why, t.usage, <<FinishChunk(t.why), Done>>)
<1> DEFINE cs == <<FinishChunk(t.why), Done>>
<1>1. Push("anthropic", t, e) = Translated(t, cs)
  BY DEF Push, AnthropicHandleEvent
<1> HIDE DEF cs
<1>2. Pushed(Push("anthropic", t, e), t.text, t.blocks, t.calls, t.why, t.usage, cs)
  BY <1>1, TranslatedIs DEF Pushed, Turned
<1> QED BY <1>2 DEF cs

-----------------------------------------------------------------------------
(* The provider says one more thing *)

\* The translator, given this event, knows this much of the answer, and the
\* chunks tell the client what it learnt.
Grown(t, u, e, answer, at) ==
  /\ e # NoEvent
  /\ answer \in Answer /\ at \in Steps
  /\ u = "gemini" => at.phase # "last"
  /\ Push(u, t, e).t \in Translator
  /\ Knows(Push(u, t, e).t, u, answer, at)
  /\ Passes(t, Push(u, t, e), at.phase)

\* An event is never the absence of one.
LEMMA EventIsSome == ASSUME NEW e, e.k # "none" PROVE e # NoEvent
BY DEF NoEvent

\* What is known when no call is open, and when one is.
LEMMA KnowsClosed ==
  ASSUME NEW v, NEW u, NEW answer, NEW at, at.open = 0, NEW text, NEW bs, NEW calls, NEW why, NEW usage,
         Turned(v, text, bs, calls, why, usage),
         answer.text = text, answer.usage = usage, answer.calls = calls
  PROVE  Knows(v, u, answer, at)
BY DEF Knows, Turned

LEMMA KnowsOpen ==
  ASSUME NEW v, NEW answer, NEW at, NEW text, NEW bs, NEW calls, NEW why, NEW usage,
         Turned(v, text, bs, calls, why, usage), calls \in Seq(Seq(Nat)),
         at.phase = "body", at.open = Len(calls) + 1, at.open \in DOMAIN bs,
         answer.text = text, answer.usage = usage, answer.calls = Append(calls, bs[at.open])
  PROVE  Knows(v, "anthropic", answer, at)
BY DEF Knows, Turned

\* A step with no call open, whatever its chunks.
LEMMA Grows ==
  ASSUME NEW t, NEW u, NEW e, NEW answer \in Answer, NEW at \in Steps,
         NEW text, NEW bs, NEW calls, NEW why, NEW usage, NEW cs,
         e.k # "none", u = "gemini" => at.phase # "last", at.open = 0,
         Pushed(Push(u, t, e), text, bs, calls, why, usage, cs),
         answer.text = text, answer.usage = usage, answer.calls = calls,
         Passes(t, Push(u, t, e), at.phase)
  PROVE  Grown(t, u, e, answer, at)
<1> DEFINE s == Push(u, t, e)
<1>1. Turned(s.t, text, bs, calls, why, usage)
  BY DEF Pushed
<1>2. s.t \in Translator
  BY <1>1 DEF Turned
<1> HIDE DEF s
<1>3. Knows(s.t, u, answer, at)
  BY <1>1, KnowsClosed
<1>4. e # NoEvent
  BY EventIsSome
<1> QED BY <1>2, <1>3, <1>4 DEF Grown, s

\* The same for an Anthropic event that leaves a call open.
LEMMA GrowsWithin ==
  ASSUME NEW t, NEW e, NEW answer \in Answer, NEW at \in Steps,
         NEW text, NEW bs, NEW calls \in Seq(Seq(Nat)), NEW why, NEW usage, NEW cs,
         e.k # "none", at.phase = "body", at.open = Len(calls) + 1, at.open \in DOMAIN bs,
         Pushed(Push("anthropic", t, e), text, bs, calls, why, usage, cs),
         answer.text = text, answer.usage = usage, answer.calls = Append(calls, bs[at.open]),
         Passes(t, Push("anthropic", t, e), at.phase)
  PROVE  Grown(t, "anthropic", e, answer, at)
<1> DEFINE s == Push("anthropic", t, e)
<1>1. Turned(s.t, text, bs, calls, why, usage)
  BY DEF Pushed
<1>2. s.t \in Translator
  BY <1>1 DEF Turned
<1> HIDE DEF s
<1>3. Knows(s.t, "anthropic", answer, at)
  BY <1>1, KnowsOpen
<1>4. e # NoEvent
  BY EventIsSome
<1> QED BY <1>2, <1>3, <1>4 DEF Grown, s

\* Chunks that only mark the course of the stream.
LEMMA MarksPass ==
  ASSUME NEW t, NEW s, NEW phase, NEW bs, NEW why, NEW usage, NEW cs, NEW reason \in {"stop", "length"},
         Pushed(s, t.text, bs, t.calls, why, usage, cs),
         \/ cs \in {<< >>, <<Role>>, <<FinishChunk(reason)>>}
         \/ cs \in {<<FinishChunk(reason), Done>>, <<Done>>} /\ phase = "over"
  PROVE  Passes(t, s, phase)
<1>1. Same(s.t, t) /\ s.cs = cs
  BY DEF Pushed, Turned, Same
<1>2. CASE cs = << >>
  BY <1>1, <1>2 DEF Passes
<1>3. CASE cs = <<Role>>
  BY <1>1, <1>3 DEF Passes
<1>4. CASE cs = <<FinishChunk(reason)>>
  BY <1>1, <1>4 DEF Passes
<1>5. CASE cs = <<FinishChunk(reason), Done>> /\ phase = "over"
  BY <1>1, <1>5 DEF Passes
<1>6. CASE cs = <<Done>> /\ phase = "over"
  BY <1>1, <1>6 DEF Passes
<1> QED BY <1>2, <1>3, <1>4, <1>5, <1>6

\* A piece of text, or of a call, passes as one chunk.
LEMMA TextPasses ==
  ASSUME NEW t, NEW s, NEW phase, NEW bs, NEW why, NEW usage, NEW p \in Nat,
         Pushed(s, Append(t.text, p), bs, t.calls, why, usage, <<TextChunk(p)>>)
  PROVE  Passes(t, s, phase)
BY DEF Pushed, Turned, Passes

LEMMA ToolPasses ==
  ASSUME NEW t, NEW s, NEW phase, NEW bs, NEW why, NEW usage, NEW i \in 0..Len(t.calls), NEW ps \in Seq(Nat),
         NEW calls, calls = Extended(t.calls, i, ps),
         Pushed(s, t.text, bs, calls, why, usage, <<ToolChunk(i, ps)>>)
  PROVE  Passes(t, s, phase)
BY DEF Pushed, Turned, Passes

\* Between two events.
LEMMA Between ==
  ASSUME Speaking, held = NoEvent
  PROVE  /\ said \in Answer /\ up \in Steps /\ tr \in Translator
         /\ said.text = tr.text /\ said.usage = tr.usage
         /\ pair[2] = "gemini" => up.phase # "last"
         /\ up.open = 0 => said.calls = tr.calls
         /\ up.open # 0 =>
              /\ pair[2] = "anthropic" /\ up.phase = "body" /\ up.open = Len(tr.calls) + 1
              /\ up.open \in DOMAIN tr.blocks /\ said.calls = Append(tr.calls, tr.blocks[up.open])
<1>1. Ahead = tr
  BY DEF Ahead
<1>2. Knows(tr, pair[2], said, up)
  BY <1>1 DEF Speaking
<1> QED BY <1>2 DEF Knows, Speaking, Steps

LEMMA FieldsOfAnswer ==
  ASSUME NEW a \in Answer
  PROVE  a.n \in Nat /\ a.text \in Seq(Nat) /\ a.calls \in Seq(Seq(Nat)) /\ a.usage \in Usage
BY DEF Answer

\* Every event a provider can say next is one the translator will have
\* understood: the first,
LEMMA StartGrows ==
  ASSUME Speaking, held = NoEvent, pair[2] \in Parties, SayStart
  PROVE  Grown(tr, pair[2], held', said', up')
<1> DEFINE usage == IF pair[2] = "anthropic" THEN [inp |-> 1, out |-> 1] ELSE << >>
           u == pair[2]
           all == Merge(said.usage, usage)
<1>1. /\ said \in Answer /\ up \in Steps /\ tr \in Translator
      /\ said.text = tr.text /\ said.usage = tr.usage
  BY Between
<1>2. up.phase = "start" /\ u # "gemini"
  BY DEF SayStart
<1>3. up.open = 0 /\ said.calls = tr.calls
  BY <1>2, Between
<1>4. usage \in Reports /\ (u = "openai" => usage = << >>)
  BY DEF Reports
<1>5. u \in {"openai", "anthropic"}
  BY <1>2 DEF Parties
<1>6. up' = [up EXCEPT !.phase = "body"] /\ said' = [said EXCEPT !.usage = all] /\ held' = [k |-> "start", usage |-> usage]
  BY DEF SayStart
<1> HIDE DEF usage
<1>7. held'.k = "start" /\ held'.usage = usage
  BY <1>6
<1>8. all \in Usage
  BY <1>1, <1>4, FieldsOfAnswer, MergeReport
<1> HIDE DEF all, u
<1>9. said' \in Answer /\ said'.text = tr.text /\ said'.calls = tr.calls /\ said'.usage = all
  BY <1>1, <1>3, <1>6, <1>8 DEF Answer
<1>10. up' \in Steps /\ up'.phase = "body" /\ up'.open = 0
  BY <1>1, <1>3, <1>6 DEF Steps
<1>11. Pushed(Push(u, tr, held'), tr.text, tr.blocks, tr.calls, tr.why, all, <<Role>>)
  BY <1>1, <1>4, <1>5, <1>7, PushStart DEF all
<1>12. Passes(tr, Push(u, tr, held'), up'.phase)
  BY <1>11, MarksPass
<1> QED BY <1>2, <1>7, <1>9, <1>10, <1>11, <1>12, Grows DEF u

\* text,
LEMMA TextGrows ==
  ASSUME Speaking, held = NoEvent, pair[2] \in Parties, SayText
  PROVE  Grown(tr, pair[2], held', said', up')
<1> DEFINE p == said.n + 1
           usage == IF pair[2] = "gemini" THEN [inp |-> 1, out |-> p] ELSE << >>
           u == pair[2]
           all == Merge(said.usage, usage)
           text == Append(said.text, p)
<1>1. /\ said \in Answer /\ up \in Steps /\ tr \in Translator
      /\ said.text = tr.text /\ said.usage = tr.usage
  BY Between
<1>2. up.open = 0 /\ said.calls = tr.calls
  BY Between DEF SayText
<1>3. p \in Nat /\ text \in Seq(Nat)
  BY <1>1, FieldsOfAnswer
<1>4. /\ up' = [up EXCEPT !.phase = "body"] /\ said' = [said EXCEPT !.n = p, !.text = text, !.usage = all]
      /\ held' = [k |-> "text", p |-> p, usage |-> usage]
  BY DEF SayText
<1> HIDE DEF p
<1>5. usage \in Reports /\ (u # "gemini" => usage = << >>)
  BY <1>3 DEF Reports
<1> HIDE DEF usage
<1>6. held'.k = "text" /\ held'.usage = usage /\ held'.p = p
  BY <1>4
<1>7. all \in Usage
  BY <1>1, <1>5, FieldsOfAnswer, MergeReport
<1>8. text = Append(tr.text, p)
  BY <1>1
<1> HIDE DEF all, u, text
<1>9. said' \in Answer /\ said'.text = text /\ said'.calls = tr.calls /\ said'.usage = all
  BY <1>1, <1>2, <1>3, <1>4, <1>7 DEF Answer
<1>10. up' \in Steps /\ up'.phase = "body" /\ up'.open = 0
  BY <1>1, <1>2, <1>4 DEF Steps
<1>11. Pushed(Push(u, tr, held'), Append(tr.text, p), tr.blocks, tr.calls, tr.why, all, <<TextChunk(p)>>)
  BY <1>1, <1>3, <1>5, <1>6, PushText DEF all, u
<1>12. Passes(tr, Push(u, tr, held'), up'.phase)
  BY <1>3, <1>11, TextPasses
<1> QED BY <1>6, <1>8, <1>9, <1>10, <1>11, <1>12, Grows DEF u

\* a call that opens,
LEMMA ToolOpenGrows ==
  ASSUME Speaking, held = NoEvent, SayToolOpen
  PROVE  Grown(tr, pair[2], held', said', up')
<1> DEFINE n == Len(said.calls) + 1
           none == << >>
           more == Append(said.calls, none)
<1>1. /\ said \in Answer /\ up \in Steps /\ tr \in Translator
      /\ said.text = tr.text /\ said.usage = tr.usage
  BY Between
<1>2. pair[2] = "anthropic" /\ up.phase = "body" /\ up.open = 0 /\ said.calls = tr.calls
  BY Between DEF SayToolOpen
<1>3. /\ said' = [said EXCEPT !.calls = more] /\ up' = [up EXCEPT !.open = n]
      /\ held' = [k |-> "tool_open", i |-> n]
  BY DEF SayToolOpen
<1>4. tr.calls \in Seq(Seq(Nat)) /\ none \in Seq(Nat)
  BY <1>1, FieldsOfTranslator
<1> HIDE DEF none
<1>5. n \in Nat /\ n = Len(tr.calls) + 1 /\ more \in Seq(Seq(Nat)) /\ more = Append(tr.calls, none)
  BY <1>2, <1>4
<1> HIDE DEF n, more
<1>6. held'.k = "tool_open" /\ held'.i = n
  BY <1>3
<1>7. said' \in Answer /\ said'.text = tr.text /\ said'.calls = more /\ said'.usage = tr.usage
  BY <1>1, <1>3, <1>5 DEF Answer
<1>8. up' \in Steps /\ up'.phase = "body" /\ up'.open = n
  BY <1>1, <1>2, <1>3, <1>5 DEF Steps
<1>9. PICK bs \in Pending :
        /\ n \in DOMAIN bs /\ bs[n] = none
        /\ Pushed(Push("anthropic", tr, held'), tr.text, bs, tr.calls, tr.why, tr.usage, << >>)
  BY <1>1, <1>5, <1>6, PushToolOpen DEF none
<1>10. Passes(tr, Push("anthropic", tr, held'), up'.phase)
  BY <1>9, MarksPass
<1>11. Grown(tr, "anthropic", held', said', up')
  BY <1>4, <1>5, <1>6, <1>7, <1>8, <1>9, <1>10, GrowsWithin
<1> QED BY <1>2, <1>11

\* a piece of any of OpenAI's calls,
LEMMA OpenAIPieceGrows ==
  ASSUME Speaking, held = NoEvent, pair[2] = "openai", NEW i \in Nat, SayToolPiece(i)
  PROVE  Grown(tr, pair[2], held', said', up')
<1> DEFINE p == said.n + 1
           more == AccumulateToolCalls(said.calls, i, p)
           ps == <<p>>
<1>1. /\ said \in Answer /\ up \in Steps /\ tr \in Translator
      /\ said.text = tr.text /\ said.usage = tr.usage
  BY Between
<1>2. up.open = 0 /\ said.calls = tr.calls
  BY Between
<1>3. /\ said' = [said EXCEPT !.n = p, !.calls = more] /\ up' = up /\ up.phase = "body"
      /\ held' = [k |-> "tool_piece", i |-> i, p |-> p]
  BY DEF SayToolPiece
<1>4. i \in 1..(Len(tr.calls) + 1) /\ i - 1 \in 0..Len(tr.calls)
  <2>1. tr.calls \in Seq(Seq(Nat))
    BY <1>1, FieldsOfTranslator
  <2>2. i \in 1..(Len(tr.calls) + 1)
    BY <1>2 DEF SayToolPiece
  <2> QED BY <2>1, <2>2
<1>5. p \in Nat /\ ps \in Seq(Nat) /\ tr.calls \in Seq(Seq(Nat))
  BY <1>1, FieldsOfAnswer, FieldsOfTranslator
<1> HIDE DEF p
<1>6. more \in Seq(Seq(Nat)) /\ more = Extended(tr.calls, i - 1, ps) /\ more = AccumulateToolCalls(tr.calls, i, p)
  BY <1>2, <1>4, <1>5, AccumulateIs
<1> HIDE DEF more
<1>7. held'.k = "tool_piece" /\ held'.i = i /\ held'.p = p
  BY <1>3
<1>8. said' \in Answer /\ said'.text = tr.text /\ said'.calls = more /\ said'.usage = tr.usage
  BY <1>1, <1>3, <1>5, <1>6 DEF Answer
<1>9. Pushed(Push("openai", tr, held'), tr.text, tr.blocks, more, tr.why, tr.usage, <<ToolChunk(i - 1, ps)>>)
  BY <1>1, <1>4, <1>5, <1>6, <1>7, PushOpenAITool
<1> HIDE DEF ps
<1>10. Passes(tr, Push("openai", tr, held'), up'.phase)
  BY <1>4, <1>5, <1>6, <1>9, ToolPasses
<1>11. Grown(tr, "openai", held', said', up')
  <2>1. up' \in Steps /\ up'.open = 0
    BY <1>1, <1>2, <1>3
  <2> QED BY <1>7, <1>8, <1>9, <1>10, <2>1, Grows
<1> QED BY <1>11

\* A piece for the last call.
LEMMA AccumulateLast ==
  ASSUME NEW calls \in Seq(Seq(Nat)), NEW b \in Seq(Nat), NEW p \in Nat
  PROVE  AccumulateToolCalls(Append(calls, b), Len(calls) + 1, p) = Append(calls, Append(b, p))
<1> DEFINE all == Append(calls, b)
           n == Len(calls) + 1
           d == Append(b, p)
           more == Append(calls, d)
<1>1. n \in Nat /\ n \in 1..Len(all) /\ Len(all) = n /\ all \in Seq(Seq(Nat)) /\ all[n] = b
  OBVIOUS
<1>2. d \in Seq(Nat)
  OBVIOUS
<1> HIDE DEF d
<1>3. more \in Seq(Seq(Nat)) /\ Len(more) = n /\ more[n] = d /\ \A j \in 1..n : j # n => more[j] = all[j]
  BY <1>2
<1>4. AccumulateToolCalls(all, n, p) = [all EXCEPT ![n] = d]
  <2>1. ~(n > Len(all))
    BY <1>1
  <2> HIDE DEF all, n
  <2> QED BY <1>1, <2>1 DEF AccumulateToolCalls, d
<1>5. [all EXCEPT ![n] = d] = more
  <2> HIDE DEF all, more
  <2> QED BY <1>1, <1>2, <1>3
<1> QED BY <1>4, <1>5 DEF d

\* a piece of the call that is open,
LEMMA AnthropicPieceGrows ==
  ASSUME Speaking, held = NoEvent, pair[2] = "anthropic", NEW i \in Nat, SayToolPiece(i)
  PROVE  Grown(tr, pair[2], held', said', up')
<1> DEFINE p == said.n + 1
           b == tr.blocks[i]
           d == Append(b, p)
           more == Append(tr.calls, d)
<1>1. /\ said \in Answer /\ up \in Steps /\ tr \in Translator
      /\ said.text = tr.text /\ said.usage = tr.usage
  BY Between
<1>2. /\ i = up.open /\ i # 0 /\ up.phase = "body" /\ up' = up
      /\ said' = [said EXCEPT !.n = p, !.calls = AccumulateToolCalls(said.calls, i, p)]
      /\ held' = [k |-> "tool_piece", i |-> i, p |-> p]
  BY DEF SayToolPiece
<1>3. i = Len(tr.calls) + 1 /\ i \in DOMAIN tr.blocks /\ said.calls = Append(tr.calls, b)
  BY <1>2, Between
<1>4. p \in Nat /\ tr.calls \in Seq(Seq(Nat)) /\ tr.blocks \in Pending
  BY <1>1, FieldsOfAnswer, FieldsOfTranslator
<1>5. b \in Seq(Nat)
  BY <1>3, <1>4, OfPending
<1> HIDE DEF b, p
<1>6. AccumulateToolCalls(said.calls, i, p) = more
  BY <1>3, <1>4, <1>5, AccumulateLast
<1>7. d \in Seq(Nat)
  BY <1>4, <1>5
<1> HIDE DEF d
<1>8. more \in Seq(Seq(Nat))
  BY <1>4, <1>7
<1> HIDE DEF more
<1>9. held'.k = "tool_piece" /\ held'.i = i /\ held'.p = p
  BY <1>2
<1>10. said' \in Answer /\ said'.text = tr.text /\ said'.calls = more /\ said'.usage = tr.usage
  BY <1>1, <1>2, <1>4, <1>6, <1>8 DEF Answer
<1>11. PICK bs \in Pending :
         /\ i \in DOMAIN bs /\ bs[i] = d
         /\ Pushed(Push("anthropic", tr, held'), tr.text, bs, tr.calls, tr.why, tr.usage, << >>)
  BY <1>1, <1>3, <1>4, <1>9, PushToolPiece DEF d, b
<1>12. Passes(tr, Push("anthropic", tr, held'), up'.phase)
  BY <1>11, MarksPass
<1>13. more = Append(tr.calls, bs[i])
  BY <1>11 DEF more
<1>14. up' \in Steps /\ up'.phase = "body" /\ up'.open = i
  BY <1>1, <1>2
<1>15. Grown(tr, "anthropic", held', said', up')
  BY <1>3, <1>4, <1>9, <1>10, <1>11, <1>12, <1>13, <1>14, GrowsWithin
<1> QED BY <1>15

\* a call that is complete,
LEMMA ToolCloseGrows ==
  ASSUME Speaking, held = NoEvent, SayToolClose
  PROVE  Grown(tr, pair[2], held', said', up')
<1> DEFINE i == up.open
           b == tr.blocks[i]
           more == Append(tr.calls, b)
           n == Len(tr.calls)
<1>1. /\ said \in Answer /\ up \in Steps /\ tr \in Translator
      /\ said.text = tr.text /\ said.usage = tr.usage
  BY Between
<1>2. /\ i # 0 /\ said' = said /\ up' = [up EXCEPT !.open = 0]
      /\ held' = [k |-> "tool_close", i |-> i]
  BY DEF SayToolClose
<1>3. pair[2] = "anthropic" /\ up.phase = "body" /\ i \in DOMAIN tr.blocks /\ said.calls = more
  BY <1>2, Between
<1>4. tr.calls \in Seq(Seq(Nat)) /\ tr.blocks \in Pending
  BY <1>1, FieldsOfTranslator
<1>5. b \in Seq(Nat)
  BY <1>3, <1>4, OfPending
<1> HIDE DEF b, i
<1>6. n \in 0..Len(tr.calls) /\ more = Extended(tr.calls, n, b)
  BY <1>4 DEF Extended
<1>7. held'.k = "tool_close" /\ held'.i = i
  BY <1>2
<1>8. PICK bs \in Pending :
         Pushed(Push("anthropic", tr, held'), tr.text, bs, more, tr.why, tr.usage, <<ToolChunk(n, b)>>)
  BY <1>1, <1>3, <1>7, PushToolClose DEF b
<1> HIDE DEF n, more
<1>9. Passes(tr, Push("anthropic", tr, held'), up'.phase)
  BY <1>5, <1>6, <1>8, ToolPasses
<1>10. up' \in Steps /\ up'.phase = "body" /\ up'.open = 0
  BY <1>1, <1>2, <1>3 DEF Steps
<1>11. Grown(tr, "anthropic", held', said', up')
  BY <1>1, <1>2, <1>3, <1>7, <1>8, <1>9, <1>10, Grows
<1> QED BY <1>3, <1>11

\* Gemini's whole call,
LEMMA ToolWholeGrows ==
  ASSUME Speaking, held = NoEvent, SayToolWhole
  PROVE  Grown(tr, pair[2], held', said', up')
<1> DEFINE p == said.n + 1
           usage == [inp |-> 1, out |-> p]
           ps == <<p>>
           more == Append(said.calls, ps)
           n == Len(tr.calls)
<1>1. /\ said \in Answer /\ up \in Steps /\ tr \in Translator
      /\ said.text = tr.text /\ said.usage = tr.usage
  BY Between
<1>2. pair[2] = "gemini" /\ up.open = 0 /\ said.calls = tr.calls
  BY Between DEF SayToolWhole
<1>3. /\ said' = [said EXCEPT !.n = p, !.calls = more, !.usage = usage] /\ up' = [up EXCEPT !.phase = "body"]
      /\ held' = [k |-> "tool_whole", p |-> p, usage |-> usage]
  BY DEF SayToolWhole
<1>4. p \in Nat /\ ps \in Seq(Nat) /\ tr.calls \in Seq(Seq(Nat)) /\ tr.usage \in Usage
  BY <1>1, FieldsOfAnswer, FieldsOfTranslator
<1> HIDE DEF p
<1>5. usage \in [inp : Nat, out : Nat] /\ usage \in Reports /\ usage \in Usage
  BY <1>4 DEF Reports, Usage
<1> HIDE DEF usage
<1>6. more = Append(tr.calls, ps) /\ more \in Seq(Seq(Nat)) /\ n \in 0..Len(tr.calls)
      /\ more = Extended(tr.calls, n, ps)
  <2>1. more = Append(tr.calls, ps)
    BY <1>2
  <2> HIDE DEF more, ps
  <2> QED BY <1>4, <2>1 DEF Extended
<1> HIDE DEF more
<1>7. held'.k = "tool_whole" /\ held'.p = p /\ held'.usage = usage
  BY <1>3
<1>8. Pushed(Push("gemini", tr, held'), tr.text, tr.blocks, more, tr.why, usage, <<ToolChunk(n, ps)>>)
  <2>1. Merge(tr.usage, usage) = usage
    BY <1>4, <1>5, MergeFull
  <2>2. Pushed(Push("gemini", tr, held'), tr.text, tr.blocks, Append(tr.calls, <<held'.p>>), tr.why,
               Merge(tr.usage, held'.usage), <<ToolChunk(Len(tr.calls), <<held'.p>>)>>)
    BY <1>1, <1>4, <1>5, <1>7, PushToolWhole
  <2> QED BY <1>6, <1>7, <2>1, <2>2
<1>9. said' \in Answer /\ said'.text = tr.text /\ said'.calls = more /\ said'.usage = usage
  BY <1>1, <1>3, <1>4, <1>5, <1>6 DEF Answer
<1> HIDE DEF ps, n
<1>10. Passes(tr, Push("gemini", tr, held'), up'.phase)
  BY <1>4, <1>6, <1>8, ToolPasses
<1>11. up' \in Steps /\ up'.phase = "body" /\ up'.open = 0
  BY <1>1, <1>2, <1>3 DEF Steps
<1>12. Grown(tr, "gemini", held', said', up')
  BY <1>7, <1>8, <1>9, <1>10, <1>11, Grows
<1> QED BY <1>2, <1>12

\* the reason with the last usage,
LEMMA LastGrows ==
  ASSUME Speaking, held = NoEvent, pair[2] \in Parties, NEW why \in {"stop", "length"}, SayLast(why)
  PROVE  Grown(tr, pair[2], held', said', up')
<1> DEFINE u == pair[2]
           phase == IF u = "gemini" THEN "over" ELSE "last"
<1>1. /\ said \in Answer /\ up \in Steps /\ tr \in Translator
      /\ said.text = tr.text /\ said.usage = tr.usage
  BY Between
<1>2. up.open = 0 /\ said.calls = tr.calls
  BY Between DEF SayLast
<1>3. PICK rep \in {IF u = "openai" THEN << >> ELSE [out |-> 9], << >>} :
        /\ said' = [said EXCEPT !.usage = Merge(said.usage, rep)]
        /\ held' = [k |-> "last", why |-> why, usage |-> rep]
  BY DEF SayLast
<1>4. up' = [up EXCEPT !.phase = phase]
  BY DEF SayLast
<1>5. rep \in Reports /\ (u = "openai" => rep = << >>)
  BY <1>3 DEF Reports
<1> DEFINE all == Merge(said.usage, rep)
<1>6. all \in Usage
  BY <1>1, <1>5, FieldsOfAnswer, MergeReport
<1>7. held'.k = "last" /\ held'.why = why /\ held'.usage = rep
  BY <1>3
<1>8. Pushed(Push(u, tr, held'), tr.text, tr.blocks, tr.calls, why, all,
             IF u = "openai" THEN <<FinishChunk(why)>>
             ELSE IF u = "gemini" THEN <<FinishChunk(why), Done>> ELSE << >>)
  BY <1>1, <1>5, <1>7, PushLast
<1> HIDE DEF all
<1>9. said' \in Answer /\ said'.text = tr.text /\ said'.calls = tr.calls /\ said'.usage = all
  BY <1>1, <1>2, <1>3, <1>6 DEF Answer, all
<1>10. up' \in Steps /\ up'.phase = phase /\ up'.open = 0
  BY <1>1, <1>2, <1>4 DEF Steps
<1>11. Passes(tr, Push(u, tr, held'), up'.phase)
  <2>1. CASE u = "openai"
    BY <1>8, <2>1, MarksPass
  <2>2. CASE u = "gemini"
    <3>1. up'.phase = "over"
      BY <1>10, <2>2
    <3> QED BY <1>8, <2>2, <3>1, MarksPass
  <2>3. CASE u # "openai" /\ u # "gemini"
    BY <1>8, <2>3, MarksPass
  <2> QED BY <2>1, <2>2, <2>3
<1>12. u = "gemini" => up'.phase # "last"
  BY <1>10
<1> HIDE DEF u, phase
<1> QED BY <1>7, <1>8, <1>9, <1>10, <1>11, <1>12, Grows DEF u

\* and the end.
LEMMA StopGrows ==
  ASSUME Speaking, held = NoEvent, pair[2] \in Parties, SayStop
  PROVE  Grown(tr, pair[2], held', said', up')
<1>1. /\ said \in Answer /\ up \in Steps /\ tr \in Translator
      /\ said.text = tr.text /\ said.usage = tr.usage
  BY Between
<1>2. up.phase = "last" /\ up' = [up EXCEPT !.phase = "over"]
  BY DEF SayStop
<1>3. up.open = 0 /\ said.calls = tr.calls /\ pair[2] # "gemini"
  BY <1>2, Between
<1>4. up' \in Steps /\ up'.phase = "over" /\ up'.open = 0
  BY <1>1, <1>2, <1>3 DEF Steps
<1>5. CASE pair[2] = "openai"
  <2> DEFINE usage == [inp |-> 1, out |-> 9]
  <2>1. usage \in Usage
    BY DEF Usage
  <2>2. said' = [said EXCEPT !.usage = usage] /\ held' = [k |-> "stop", usage |-> usage]
    BY <1>5 DEF SayStop
  <2> HIDE DEF usage
  <2>3. held'.k = "stop" /\ held'.usage = usage
    BY <2>2
  <2>4. said' \in Answer /\ said'.text = tr.text /\ said'.calls = tr.calls /\ said'.usage = usage
    BY <1>1, <1>3, <2>1, <2>2 DEF Answer
  <2>5. Pushed(Push("openai", tr, held'), tr.text, tr.blocks, tr.calls, tr.why, usage, <<Done>>)
    BY <1>1, <2>1, <2>3, PushOpenAIStop
  <2>6. Passes(tr, Push("openai", tr, held'), up'.phase)
    BY <1>4, <2>5, MarksPass
  <2>7. Grown(tr, "openai", held', said', up')
    BY <1>4, <2>3, <2>4, <2>5, <2>6, Grows
  <2> QED BY <1>5, <2>7
<1>6. CASE pair[2] = "anthropic"
  <2>1. said' = said /\ held' = [k |-> "stop"]
    BY <1>6 DEF SayStop
  <2>2. held'.k = "stop" /\ tr.why \in {"stop", "length"}
    BY <1>1, <2>1, FieldsOfTranslator
  <2>3. Pushed(Push("anthropic", tr, held'), tr.text, tr.blocks, tr.calls, tr.why, tr.usage,
               <<FinishChunk(tr.why), Done>>)
    BY <1>1, <2>2, PushAnthropicStop
  <2>4. Passes(tr, Push("anthropic", tr, held'), up'.phase)
    BY <1>4, <2>2, <2>3, MarksPass
  <2>5. Grown(tr, "anthropic", held', said', up')
    BY <1>1, <1>3, <1>4, <2>1, <2>2, <2>3, <2>4, Grows
  <2> QED BY <1>6, <2>5
<1> QED BY <1>3, <1>5, <1>6 DEF Parties

\* Whatever the provider says next, the translator will know it.
LEMMA ArriveGrows ==
  ASSUME Speaking, pair[2] \in Parties, Arrive
  PROVE  held = NoEvent /\ Grown(tr, pair[2], held', said', up')
<1>1. held = NoEvent
  BY DEF Arrive, Open
<1>2. CASE SayStart
  BY <1>1, <1>2, StartGrows
<1>3. CASE SayText
  BY <1>1, <1>3, TextGrows
<1>4. CASE SayToolWhole
  BY <1>1, <1>4, ToolWholeGrows
<1>5. ASSUME NEW i \in 1..MaxCalls, SayToolPiece(i)
      PROVE  Grown(tr, pair[2], held', said', up')
  <2>1. i \in Nat
    BY DialectsAssumption
  <2>2. pair[2] \in {"openai", "anthropic"}
    BY <1>5 DEF SayToolPiece
  <2> QED BY <1>1, <1>5, <2>1, <2>2, OpenAIPieceGrows, AnthropicPieceGrows
<1>6. CASE SayToolOpen
  BY <1>1, <1>6, ToolOpenGrows
<1>7. CASE SayToolClose
  BY <1>1, <1>7, ToolCloseGrows
<1>8. ASSUME NEW why \in {"stop", "length"}, SayLast(why)
      PROVE  Grown(tr, pair[2], held', said', up')
  BY <1>1, <1>8, LastGrows
<1>9. CASE SayStop
  BY <1>1, <1>9, StopGrows
<1> QED BY <1>1, <1>2, <1>3, <1>4, <1>5, <1>6, <1>7, <1>8, <1>9 DEF Arrive

-----------------------------------------------------------------------------
(* The steps of a stream *)

\* A provider that has finished says nothing more.
LEMMA NothingAfterOver == ASSUME Speaking, Arrive PROVE up.phase # "over"
<1>1. held = NoEvent
  BY DEF Arrive, Open
<1>2. up.open # 0 => up.phase = "body"
  BY <1>1, Between
<1> QED BY <1>2 DEF Arrive, SayStart, SayText, SayToolWhole, SayToolPiece, SayToolOpen, SayToolClose, SayLast, SayStop

\* The provider speaks: translator, renderer and client are untouched.
LEMMA ArriveSpeaks ==
  ASSUME Speaking, pair[2] \in Parties, Arrive
  PROVE  Speaking'
<1>1. held = NoEvent /\ Grown(tr, pair[2], held', said', up')
  BY ArriveGrows
<1>3. pair' = pair /\ tr' = tr
  BY DEF Arrive
<1> DEFINE s == Push(pair[2], tr, held')
<1>4. /\ held' # NoEvent /\ said' \in Answer /\ up' \in Steps
      /\ pair[2] = "gemini" => up'.phase # "last"
      /\ s.t \in Translator /\ Knows(s.t, pair[2], said', up') /\ Passes(tr, s, up'.phase)
  BY <1>1 DEF Grown
<1>5. Ahead' = s.t
  BY <1>3, <1>4 DEF Ahead
<1>8. (held # NoEvent => Passes(tr, Push(pair[2], tr, held), up.phase))'
  BY <1>3, <1>4
<1>9. tr \in Translator
  BY DEF Speaking
<1> HIDE DEF s
<1> QED BY <1>3, <1>4, <1>5, <1>8, <1>9 DEF Speaking

LEMMA ArriveStreams ==
  ASSUME Streaming, pair[2] \in Parties, Arrive
  PROVE  Streaming'
<1>1. Speaking /\ Speaking'
  BY ArriveSpeaks DEF Streaming
<1>2. up.phase # "over"
  BY <1>1, NothingAfterOver
<1>3. pair' = pair /\ tr' = tr /\ ren' = ren /\ client' = client
  BY DEF Arrive
<1>4. ~client.ended /\ Follows(pair[1], client, ren, tr.text, tr.calls)
  BY <1>2 DEF Streaming
<1> QED BY <1>1, <1>3, <1>4 DEF Streaming

\* The translator has the event that waited.
LEMMA TakenSpeaks ==
  ASSUME Speaking, held # NoEvent, held' = NoEvent, tr' = Push(pair[2], tr, held).t,
         pair' = pair, said' = said, up' = up
  PROVE  Speaking'
<1> DEFINE s == Push(pair[2], tr, held)
<1>1. Ahead = s.t /\ Ahead' = s.t
  BY DEF Ahead
<1>2. /\ s.t \in Translator /\ Knows(s.t, pair[2], said, up)
      /\ said \in Answer /\ up \in Steps /\ (pair[2] = "gemini" => up.phase # "last")
  BY <1>1 DEF Speaking
<1> HIDE DEF s
<1>3. tr' = s.t
  BY DEF s
<1> QED BY <1>1, <1>2, <1>3 DEF Speaking

\* _native_cross_provider_stream: one event through translator and renderer.
LEMMA HandleStreams ==
  ASSUME Streaming, pair[1] \in Parties, HandleChunk
  PROVE  Streaming'
<1> DEFINE s == Push(pair[2], tr, held)
<1>1. held # NoEvent /\ held' = NoEvent /\ tr' = s.t /\ pair' = pair /\ said' = said /\ up' = up
  BY DEF HandleChunk, Buffered
<1>2. ren' = RenderAll(pair[1], ren, s.cs).r /\ client' = Hearing(pair[1], client, ren, s.cs)
  BY DEF HandleChunk, Hearing
<1>3. Ahead = s.t
  BY <1>1 DEF Ahead
<1>4. Speaking'
  BY <1>1, TakenSpeaks DEF Streaming
<1>5. /\ tr \in Translator /\ s.t \in Translator /\ Passes(tr, s, up.phase)
      /\ ~client.ended /\ Follows(pair[1], client, ren, tr.text, tr.calls)
  BY <1>1, <1>3 DEF Streaming, Speaking
<1> HIDE DEF s
<1>6. tr.text \in Seq(Nat) /\ tr.calls \in Seq(Seq(Nat))
  BY <1>5, FieldsOfTranslator
<1>7. /\ Hears(pair[1], client, ren, s.cs, s.t.text, s.t.calls)
      /\ EndsInTime(pair[1], Hearing(pair[1], client, ren, s.cs), up.phase)
  BY <1>6, <1>5, ClientFollows
<1>8. Follows(pair[1], client', ren', s.t.text, s.t.calls)
  BY <1>2, <1>7 DEF Hears
<1> QED BY <1>1, <1>2, <1>4, <1>7, <1>8 DEF Streaming, EndsInTime

\* What the translator has read is never ahead of the provider.
LEMMA NeverAhead == ASSUME Speaking PROVE IsPrefix(tr.text, said.text)
<1>1. tr \in Translator /\ Ahead.text = said.text
  BY DEF Speaking, Knows
<1>2. tr.text \in Seq(Nat)
  BY <1>1, FieldsOfTranslator
<1>3. CASE held = NoEvent
  BY <1>1, <1>2, <1>3, PrefixOfItself DEF Ahead
<1>4. CASE held # NoEvent
  <2> DEFINE s == Push(pair[2], tr, held)
  <2>1. Passes(tr, s, up.phase) /\ Ahead = s.t
    BY <1>4 DEF Speaking, Ahead
  <2> HIDE DEF s
  <2> QED BY <1>1, <1>2, <2>1, PassesPrefix
<1> QED BY <1>3, <1>4

\* What is known when the stream is over.
LEMMA OverIsWhole ==
  ASSUME Speaking, up.phase = "over", held = NoEvent
  PROVE  said.text = tr.text /\ said.calls = tr.calls /\ said.usage = tr.usage
BY Between

LEMMA FinishKeeps ==
  ASSUME Speaking, Finish
  PROVE  Kept'
<1>1. result' = Completion(tr) /\ said' = said /\ up' = up /\ (held # NoEvent => up.phase # "over")
  BY DEF Finish, Close, Buffered
<1> QED BY <1>1, OverIsWhole DEF Kept, Completion

\* The provider closes its stream, in time or early.
LEMMA FinishCloses ==
  ASSUME Streaming, pair[1] \in Parties, Finish
  PROVE  Closed'
<1> DEFINE done == Completion(tr)
<1>1. /\ client' = Reads(pair[1], client, RenderFinish(pair[1], ren, done)) /\ result' = done
      /\ pair' = pair /\ said' = said /\ up' = up /\ tr' = tr /\ (held # NoEvent => up.phase # "over")
  BY DEF Finish, Close, Buffered
<1>2. Speaking /\ tr \in Translator /\ Follows(pair[1], client, ren, tr.text, tr.calls)
  BY DEF Streaming, Speaking
<1>3. done.text = tr.text /\ done.calls = tr.calls /\ done = Completion(tr)
  BY DEF Completion
<1> HIDE DEF done
<1>4. tr.text \in Seq(Nat) /\ tr.calls \in Seq(Seq(Nat))
  BY <1>2, FieldsOfTranslator
<1>5. /\ Ends(client', tr.text, tr.calls)
      /\ pair[1] # "openai" => client'.ended
      /\ pair[1] = "anthropic" => Told(client', tr.calls)
  BY <1>1, <1>2, <1>3, <1>4, ClientEnds
<1>6. IsPrefix(tr.text, said.text)
  BY <1>2, NeverAhead
<1>7. up.phase = "over" => said.text = tr.text /\ said.calls = tr.calls /\ said.usage = tr.usage
  BY <1>1, <1>2, OverIsWhole
<1> QED BY <1>1, <1>3, <1>5, <1>6, <1>7 DEF Closed

\* The stream breaks off or runs out of time.
LEMMA FailFails ==
  ASSUME Streaming, pair[1] \in Parties, Fail
  PROVE  Failed'
<1>1. /\ client' = Reads(pair[1], client, <<[k |-> "error"]>>)
      /\ pair' = pair /\ said' = said /\ tr' = tr
  BY DEF Fail
<1>2. Speaking /\ tr \in Translator /\ Follows(pair[1], client, ren, tr.text, tr.calls)
  BY DEF Streaming, Speaking
<1>3. tr.text \in Seq(Nat) /\ tr.calls \in Seq(Seq(Nat))
  BY <1>2, FieldsOfTranslator
<1>4. client'.ok /\ client'.text = tr.text /\ (pair[1] # "openai" => client'.ended)
  BY <1>1, <1>2, <1>3, ClientIsTold
<1>5. IsPrefix(tr.text, said.text)
  BY <1>2, NeverAhead
<1> QED BY <1>1, <1>4, <1>5 DEF Failed

\* A cut spoils the stream for good; of OpenAI's, the translator has the event
\* all the same.
LEMMA TornSpeaks ==
  ASSUME CutInCharacter \/ CutInNewline \/ SkipGlued
  PROVE  /\ cut' # "none" /\ pc = "stream" /\ pc' = "stream" /\ pair' = pair
         /\ Speaking /\ pair[2] = "openai" => Speaking'
<1>1. PICK seen : HandleTorn(seen)
  BY DEF CutInCharacter, CutInNewline, SkipGlued
<1>2. cut' # "none"
  BY DEF CutInCharacter, CutInNewline, SkipGlued
<1>3. pc = "stream" /\ pc' = "stream" /\ pair' = pair
  BY <1>1 DEF HandleTorn
<1>4. ASSUME Speaking, pair[2] = "openai" PROVE Speaking'
  <2>1. /\ held # NoEvent /\ held' = NoEvent /\ said' = said /\ up' = up
        /\ tr' = Push(pair[2], tr, held).t
    BY <1>1, <1>4 DEF HandleTorn, Buffered, Decoded
  <2> QED BY <1>3, <1>4, <2>1, TakenSpeaks
<1> QED BY <1>2, <1>3, <1>4

\* Before the first event.
LEMMA NewClientIs ==
  /\ NewClient \in Accumulator /\ NewClient.ok /\ NewClient.begun = FALSE /\ ~NewClient.ended
  /\ NewClient.text = << >> /\ NewClient.blocks = << >> /\ NewClient.tools = << >>
BY DEF NewClient, Accumulator, Reasons

LEMMA NewRendererIs ==
  /\ NewRenderer \in Renderer /\ NewRenderer.started = FALSE /\ ~NewRenderer.spoke /\ NewRenderer.text = NoBlock
  /\ NewRenderer.next = 0 /\ NewRenderer.slots = << >> /\ NewRenderer.open = << >>
BY DEF NewRenderer, Renderer, NoBlock

LEMMA NothingIsPlaced ==
  ASSUME NEW none, none = << >> PROVE Placed(none, NoBlock, none, none)
<1>1. none \in Seq(Block) /\ none \in Seq(Nat) /\ Len(none) = 0
  OBVIOUS
<1>2. 1..Len(none) = {} /\ 0..(Len(none) - 1) = {}
  BY <1>1
<1> QED BY <1>1, <1>2 DEF Placed

LEMMA NewClientFollows == ASSUME NEW c \in Parties, NEW none, none = << >> PROVE Follows(c, NewClient, NewRenderer, none, none)
<1>1. Len(none) = 0 /\ 1..Len(none) = {}
  OBVIOUS
<1>2. OpenAIFollows(NewClient, none, none)
  BY <1>1, NewClientIs DEF OpenAIFollows
<1>3. AnthropicFollows(NewClient, NewRenderer, none, none)
  <2> DEFINE g == NewClient
             r == NewRenderer
  <2>1. /\ g \in Accumulator /\ g.ok /\ ~g.ended /\ g.begun = FALSE
        /\ g.text = none /\ g.blocks = none /\ g.tools = none
    BY NewClientIs
  <2>2. /\ r \in Renderer /\ r.started = FALSE /\ r.text = NoBlock /\ r.next = 0
        /\ r.slots = none /\ r.open = none
    BY NewRendererIs
  <2>3. Placed(none, NoBlock, none, none)
    BY NothingIsPlaced
  <2>4. Len(r.slots) = Len(none) /\ r.next = Len(g.blocks) /\ \A j \in 1..Len(none) : r.slots[j] = j - 1
    BY <1>1, <2>1, <2>2
  <2> HIDE DEF g, r
  <2>5. AnthropicFollows(g, r, none, none)
    BY <2>1, <2>2, <2>3, <2>4 DEF AnthropicFollows
  <2> QED BY <2>5 DEF g, r
<1>4. GeminiFollows(NewClient, NewRenderer, none)
  BY NewClientIs, NewRendererIs DEF GeminiFollows
<1> QED BY <1>2, <1>3, <1>4, FollowsOf DEF Parties

\* A translator before its first event.
LEMMA NewTranslatorIs ==
  /\ NewTranslator \in Translator
  /\ NewTranslator.text = << >> /\ NewTranslator.calls = << >> /\ NewTranslator.usage = NoUsage
<1> DEFINE none == << >>
<1>1. none \in Pending
  <2>1. none \in [{} -> Seq(Nat)]
    OBVIOUS
  <2> QED BY <2>1 DEF Pending
<1>2. NoUsage \in Usage
  BY DEF NoUsage, Usage
<1>3. NewTranslator = [text |-> none, blocks |-> none, calls |-> none, why |-> "stop", usage |-> NoUsage]
  BY DEF NewTranslator
<1>4. none \in Seq(Nat) /\ none \in Seq(Seq(Nat))
  OBVIOUS
<1> HIDE DEF none
<1>5. /\ NewTranslator \in Translator
      /\ NewTranslator.text = none /\ NewTranslator.calls = none /\ NewTranslator.usage = NoUsage
  BY <1>1, <1>2, <1>3, <1>4 DEF Translator
<1> QED BY <1>5 DEF none

LEMMA InitStreamInv == Init => StreamInv
<1> SUFFICES ASSUME Init PROVE StreamInv
  OBVIOUS
<1> DEFINE none == << >>
<1>1. /\ pair \in Pairs /\ pc = "ask" /\ held = NoEvent /\ tr = NewTranslator /\ ren = NewRenderer /\ client = NewClient
      /\ said = [n |-> 0, text |-> none, calls |-> none, usage |-> NoUsage] /\ up = [phase |-> "start", open |-> 0]
  BY DEF Init
<1>2. none \in Seq(Nat) /\ none \in Seq(Seq(Nat)) /\ none = << >> /\ NoUsage \in Usage
  BY DEF NoUsage, Usage
<1> HIDE DEF none
<1>3. said \in Answer /\ said.text = none /\ said.calls = none /\ said.usage = NoUsage
  BY <1>1, <1>2 DEF Answer
<1>4. up \in Steps /\ up.phase = "start" /\ up.open = 0
  BY <1>1 DEF Steps
<1>5. tr \in Translator /\ tr.text = none /\ tr.calls = none /\ tr.usage = NoUsage /\ Ahead = tr
  BY <1>1, <1>2, NewTranslatorIs DEF Ahead
<1>6. Knows(Ahead, pair[2], said, up)
  BY <1>3, <1>4, <1>5 DEF Knows
<1>7. Follows(pair[1], client, ren, tr.text, tr.calls) /\ ~client.ended
  <2>1. pair[1] \in Parties
    BY <1>1, DialectsAssumption
  <2>2. Follows(pair[1], NewClient, NewRenderer, none, none)
    BY <1>2, <2>1, NewClientFollows
  <2> QED BY <1>1, <1>5, <2>2, NewClientIs
<1>8. Speaking
  BY <1>1, <1>3, <1>4, <1>5, <1>6 DEF Speaking
<1>9. Streaming
  BY <1>7, <1>8 DEF Streaming
<1> QED BY <1>1, <1>8, <1>9 DEF StreamInv

\* Steps that leave the stream alone.
LEMMA StreamStays ==
  ASSUME UNCHANGED <<pair, streamVars>>
  PROVE  /\ cut' = cut
         /\ Speaking => Speaking'
         /\ Streaming => Streaming'
         /\ Closed => Closed'
         /\ Failed => Failed'
         /\ Kept => Kept'
<1>1. /\ pair' = pair /\ said' = said /\ up' = up /\ held' = held /\ tr' = tr
      /\ ren' = ren /\ client' = client /\ result' = result /\ cut' = cut
  BY DEF streamVars
<1>2. Ahead' = Ahead
  BY <1>1 DEF Ahead
<1>3. Speaking => Speaking'
  BY <1>1, <1>2 DEF Speaking
<1>4. Streaming => Streaming'
  BY <1>1, <1>3 DEF Streaming
<1>5. Closed => Closed'
  BY <1>1 DEF Closed
<1>6. Failed => Failed'
  BY <1>1 DEF Failed
<1>7. Kept => Kept'
  BY <1>1 DEF Kept
<1> QED BY <1>1, <1>3, <1>4, <1>5, <1>6, <1>7

\* No step of the handler, the provider or the clock breaks the invariant.
LEMMA NextStreamInv == StreamInv /\ [Next]_vars => StreamInv'
<1> SUFFICES ASSUME StreamInv, [Next]_vars PROVE StreamInv'
  OBVIOUS
<1>1. pair[1] \in Parties /\ pair[2] \in Parties
  BY DialectsAssumption DEF StreamInv
<1>2. CASE StayHome \/ Send \/ Opened \/ Relayed
  <2>1. UNCHANGED <<pair, streamVars>> /\ pc' \in {"home", "sent", "stream", "relayed"} /\ pc \in {"ask", "sent"}
    BY <1>2 DEF StayHome, Send, Opened, Relayed
  <2> QED BY <2>1, StreamStays DEF StreamInv, streamVars
<1>3. CASE Arrive
  <2>1. pc = "stream" /\ pc' = "stream" /\ pair' = pair /\ cut' = cut
    BY <1>3 DEF Arrive, Open
  <2>2. (Streaming => Streaming') /\ (Speaking => Speaking')
    BY <1>1, <1>3, ArriveStreams, ArriveSpeaks
  <2> QED BY <2>1, <2>2 DEF StreamInv
<1>4. CASE HandleChunk
  <2>1. pc = "stream" /\ pc' = "stream" /\ pair' = pair /\ cut' = cut
    BY <1>4 DEF HandleChunk
  <2>2. Streaming => Streaming'
    BY <1>1, <1>4, HandleStreams
  <2>3. Speaking => Speaking'
    <3>1. /\ held # NoEvent /\ held' = NoEvent /\ tr' = Push(pair[2], tr, held).t
          /\ said' = said /\ up' = up
      BY <1>4 DEF HandleChunk, Buffered
    <3> QED BY <2>1, <3>1, TakenSpeaks
  <2> QED BY <2>1, <2>2, <2>3 DEF StreamInv
<1>5. CASE Finish
  <2>1. pc = "stream" /\ pc' = "closed" /\ pair' = pair /\ cut' = cut
    BY <1>5 DEF Finish, Close
  <2>2. (Streaming => Closed') /\ (Speaking => Kept')
    BY <1>1, <1>5, FinishCloses, FinishKeeps
  <2> QED BY <2>1, <2>2 DEF StreamInv
<1>6. CASE FinishShort
  <2>1. pc' = "closed" /\ pair' = pair /\ cut' # "none" /\ up' = up /\ up.phase # "over"
    BY <1>6 DEF FinishShort, Close
  <2>2. Kept'
    BY <2>1 DEF Kept
  <2> QED BY <2>1, <2>2 DEF StreamInv
<1>7. CASE Fail
  <2>1. pc = "stream" /\ pc' = "failed" /\ pair' = pair /\ cut' = cut
    BY <1>7 DEF Fail
  <2>2. Streaming => Failed'
    BY <1>1, <1>7, FailFails
  <2> QED BY <2>1, <2>2 DEF StreamInv
<1>8. CASE CutInCharacter \/ CutInNewline \/ SkipGlued
  <2>1. /\ cut' # "none" /\ pc = "stream" /\ pc' = "stream" /\ pair' = pair
        /\ Speaking /\ pair[2] = "openai" => Speaking'
    BY <1>8, TornSpeaks
  <2> QED BY <2>1 DEF StreamInv
<1>9. CASE UNCHANGED vars
  <2>1. UNCHANGED <<pair, streamVars>> /\ pc' = pc /\ pair' = pair
    BY <1>9 DEF vars, streamVars
  <2> QED BY <2>1, StreamStays DEF StreamInv
<1> QED BY <1>2, <1>3, <1>4, <1>5, <1>6, <1>7, <1>8, <1>9 DEF Next

\* What the invariant says of the client.
LEMMA StreamInvClient == StreamInv /\ cut = "none" => ClientIsNotMisled
<1> SUFFICES ASSUME StreamInv, cut = "none" PROVE ClientIsNotMisled
  OBVIOUS
<1>1. CASE pc = "closed"
  <2>1. Closed
    BY <1>1 DEF StreamInv
  <2>2. client.ok /\ client.text = tr.text /\ Calls(client) = tr.calls /\ IsPrefix(tr.text, said.text)
    BY <2>1 DEF Closed, Ends
  <2>3. pair[1] # "openai" => client.ended
    BY <2>1 DEF Closed
  <2>4. pair[1] = "anthropic" => (client.why = "tool_use" <=> Calls(client) # << >>)
    <3>1. pair[1] = "anthropic" => Told(client, Calls(client))
      BY <2>1, <2>2 DEF Closed
    <3> QED BY <3>1 DEF Told
  <2> QED BY <2>2, <2>3, <2>4 DEF ClientIsNotMisled
<1>2. CASE pc = "failed"
  BY <1>2 DEF StreamInv, Failed, ClientIsNotMisled
<1>3. CASE pc \notin {"closed", "failed"}
  <2>1. Streaming
    BY <1>3 DEF StreamInv
  <2>2. Follows(pair[1], client, ren, tr.text, tr.calls) /\ IsPrefix(tr.text, said.text)
    BY <2>1, NeverAhead DEF Streaming
  <2>3. pair[1] \in Parties
    BY DialectsAssumption DEF StreamInv
  <2>4. client.ok /\ client.text = tr.text
    BY <2>2, <2>3, FollowsOf DEF Parties, OpenAIFollows, AnthropicFollows, GeminiFollows
  <2> QED BY <1>3, <2>2, <2>4 DEF ClientIsNotMisled
<1> QED BY <1>1, <1>2, <1>3

\* Of the client and of the ledger, when the provider has finished.
LEMMA StreamInvWhole == StreamInv => WholeAnswer
<1> SUFFICES ASSUME StreamInv, pc = "closed", up.phase = "over"
             PROVE  /\ cut = "none" => client.text = said.text /\ Calls(client) = said.calls
                    /\ cut = "none" \/ pair[2] = "openai" =>
                         result.text = said.text /\ result.calls = said.calls /\ result.usage = said.usage
  BY DEF WholeAnswer
<1>1. CASE cut = "none"
  <2>1. Closed
    BY <1>1 DEF StreamInv
  <2>2. said.text = tr.text /\ said.calls = tr.calls /\ said.usage = tr.usage /\ result = Completion(tr)
    BY <2>1 DEF Closed
  <2>3. client.text = tr.text /\ Calls(client) = tr.calls
    BY <2>1 DEF Closed, Ends
  <2> QED BY <2>2, <2>3 DEF Completion
<1>2. CASE cut # "none"
  BY <1>2 DEF StreamInv, Kept
<1> QED BY <1>1, <1>2

\* However the provider's events interleave with the handler's reads, and
\* however the stream ends, as long as no chunk was cut where the decoders mind,
\* the client's SDK has been handed only events it can place and a prefix of
\* what the provider said; a native client is told of the end, and Anthropic's
\* is told to run tools exactly when it was given some
\* (AnthropicStreamTranslator, _AnthropicClientStreamRenderer and the handler
\* that joins them, _native_cross_provider_stream).
THEOREM ClientIsNeverMisled == Spec => [](cut = "none" => ClientIsNotMisled)
<1>1. StreamInv /\ [Next]_vars => StreamInv'
  BY NextStreamInv
<1>2. StreamInv => (cut = "none" => ClientIsNotMisled)
  BY StreamInvClient
<1> QED BY <1>1, <1>2, InitStreamInv, PTL DEF Spec

\* A stream its provider finished, and which no cut has spoilt, gives client and
\* ledger the whole answer, whatever its length, the order of its pieces and the
\* number of its calls, and the last usage known although the final report may
\* leave it out.  The ledger has OpenAI's answers whole wherever they were cut.
THEOREM AnswerIsAlwaysWhole == Spec => []WholeAnswer
<1>1. StreamInv /\ [Next]_vars => StreamInv'
  BY NextStreamInv
<1> QED BY <1>1, InitStreamInv, StreamInvWhole, PTL DEF Spec
=============================================================================
