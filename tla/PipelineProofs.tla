--------------------------- MODULE PipelineProofs ---------------------------
(***************************************************************************)
(* Pipeline for chains of any length with the nine kinds of layers in any   *)
(* order, any statuses and any number of attempts.                          *)
(*                                                                          *)
(* A call on a writer reaches the layers in Reached and perhaps the server; *)
(* what it does to each of them is stated once, as lemmas about Called, and *)
(* http.Error, two calls after a header, follows.  The twenty actions are   *)
(* steps of ten kinds (StepKinds): what can change the response, or what a  *)
(* writer remembers, is a call from some layer, the upstream's header, the  *)
(* headers three layers set themselves, or Retry starting over.             *)
(*                                                                          *)
(* Base says where the request may be and is proved first.  Each property   *)
(* has an invariant of its own on top of it.                                *)
(***************************************************************************)
EXTENDS Pipeline, TLAPS

(***************************************************************************)
(* Where the request is.                                                    *)
(***************************************************************************)
Control ==
  /\ going = "in" => at \in 1..Handler /\ left = {}
  /\ going = "in" /\ at < Handler => did = "none"
  /\ going \in {"out", "panic"} => at \in 0..Len(chain)
  /\ going = "panic" => left = {} /\ panicked # "no"
  /\ going = "answered" => at = 0 /\ resp.status # 0
  /\ \A i \in left : at < i
  /\ \A i \in 1..Len(chain) : layer[i].code # 0

\* Retry counts from one, whatever it was given before it is entered.
FreshRetry ==
  "retry" \in Layers /\ going = "in" /\ at <= Index("retry") => layer[Index("retry")].tries = 1

\* The gzip writer has passed a first write on, which nothing outside it keeps.
GzipHeadSent ==
  "compress" \in Layers /\ layer[Index("compress")].wrote => resp.status # 0

\* An answer that has not come through a layer was made outside it, and Retry has
\* kept the status with which a layer refuses.
RefusedOutside(name) ==
  Around("retry", name) /\ going = "out" /\ at \in Index("retry")..Index(name) - 1
    /\ Index(name) \notin left
  => layer[Index("retry")].code \in Refusals

\* Retry around the layer takes a refusal for an answer.
RefusalsStand(name) == Around("retry", name) => RetryOn \cap Refusals = {}

Base == TypeOK /\ Control /\ FreshRetry /\ GzipHeadSent

\* Control is inside the layer, or comes back from there.
Within(name) == at > Index(name) \/ (at = Index(name) /\ going # "in")
-----------------------------------------------------------------------------
(***************************************************************************)
(* The recorder.                                                            *)
(***************************************************************************)
RecorderInv ==
  chain[1] = "record" /\ "retry" \notin Layers /\ panicked = "no" =>
    /\ going = "in" /\ did = "none" => resp.status = 0
    /\ at > 1 \/ going # "in" => layer[1].code = IF resp.status = 0 THEN 200 ELSE resp.status

(***************************************************************************)
(* A panic.                                                                 *)
(***************************************************************************)
Apart ==
  /\ "recover" \in Layers
  /\ "compress" \in Layers => Index("compress") < Index("recover")
  /\ "retry" \in Layers => Index("recover") < Index("retry")

PanicInv ==
  Apart /\ panicked = "before" =>
    \/ going = "panic" /\ at >= Index("recover") /\ resp.status = 0
    \/ going \in {"out", "answered"} /\ at < Index("recover") /\ resp.status = 500

(***************************************************************************)
(* SecurityHeaders.                                                         *)
(***************************************************************************)
Deny == <<"X-Frame-Options", "DENY">>
Sx == Index("security")

SecurityInv ==
  "security" \in Layers /\ RefusalsStand("security") =>
     /\ RefusedOutside("security")
     /\ layer[Sx].wrote => Deny \in resp.header
     /\ Sx \in left => Deny \in resp.header
     /\ going = "in" \/ at >= Sx \/ Sx \in left => (resp.status # 0 => Deny \in resp.sent)

(***************************************************************************)
(* ResponseHeaders.                                                         *)
(***************************************************************************)
Upstream == <<"Server", "upstream">>
Rx == Index("rewrite")

RewriteInv ==
  "rewrite" \in Layers =>
    IF Around("rewrite", "retry")
    THEN /\ going = "in" \/ at >= Rx => Upstream \notin resp.sent
         /\ layer[Rx].wrote => resp.status # 0 /\ Upstream \notin resp.sent
    ELSE /\ Upstream \notin resp.header /\ Upstream \notin resp.sent
         /\ going = "in" /\ did = "none" /\ at > Rx => ~layer[Rx].wrote

(***************************************************************************)
(* Cache.                                                                   *)
(***************************************************************************)
NoStore == <<"Cache-Control", "no-store">>
Public  == <<"Cache-Control", "public">>
Cx == Index("cache")
Kx == Index("retry")

PrivateInv ==
  private /\ RefusalsStand("cache") =>
     /\ "cache" \in Layers /\ RefusedOutside("cache")
     /\ Within("cache") \/ Cx \in left => NoStore \in resp.header
     /\ going = "in" \/ at >= Cx \/ Cx \in left => (resp.status # 0 => NoStore \in resp.sent)

CacheableKept == Around("retry", "cache") => RetryOn \cap Cacheable = {} /\ 200 \in Cacheable

PublicInv ==
  CacheableKept =>
     /\ Public \in resp.header => "cache" \in Layers /\ ~private /\ Cx \in left
     /\ Public \in resp.sent => resp.status \in Cacheable /\ ~private
     /\ "cache" \in Layers /\ ~private =>
          IF Around("retry", "cache")
          THEN /\ going = "in" /\ at \in Kx + 1..Cx =>
                    layer[Kx].code = 200 /\ ~layer[Kx].wrote
               /\ Within("cache") =>
                    /\ layer[Cx].code = layer[Kx].code
                    /\ ~layer[Kx].wrote => layer[Kx].code = 200
               /\ going = "out" /\ at >= Kx /\ Public \in resp.header => layer[Kx].code \in Cacheable
          ELSE /\ Within("cache") /\ resp.status = 0 => layer[Cx].code = 200
               /\ Public \in resp.header /\ resp.status = 0 => 200 \in Cacheable
-----------------------------------------------------------------------------
(***************************************************************************)
(* Chains, layers and their types.                                          *)
(***************************************************************************)
LEMMA ChainType ==
  ASSUME TypeOK
  PROVE  /\ chain \in Seq(Kinds) /\ Len(chain) \in Nat \ {0} /\ DOMAIN chain = 1..Len(chain)
         /\ Handler = Len(chain) + 1
         /\ \A i \in 1..Len(chain) : chain[i] \in Kinds
         /\ \A i, j \in 1..Len(chain) : chain[i] = chain[j] => i = j
<1>1. chain \in Seq(Kinds) /\ chain # <<>> /\ IsInjective(chain)
  BY PipelineAssumption DEF TypeOK
<1>2. Len(chain) \in Nat \ {0} /\ DOMAIN chain = 1..Len(chain)
  BY <1>1
<1> QED BY <1>1, <1>2 DEF IsInjective, Handler

\* Where a layer is.
LEMMA IndexType ==
  ASSUME TypeOK, NEW name
  PROVE  /\ name \in Layers => Index(name) \in 1..Len(chain) /\ chain[Index(name)] = name
         /\ \A i \in 1..Len(chain) : chain[i] = name => name \in Layers /\ Index(name) = i
BY ChainType DEF Layers, Index

\* The chain stays, and with it every layer's place.
LEMMA SameChain ==
  ASSUME UNCHANGED chain, NEW name, NEW other
  PROVE  /\ (name \in Layers)' <=> name \in Layers
         /\ Index(name)' = Index(name)
         /\ Around(name, other)' <=> Around(name, other)
BY DEF Layers, Index, Around

-----------------------------------------------------------------------------
(***************************************************************************)
(* What a call on a writer does.                                            *)
(***************************************************************************)
LayerState == [code : Nat, wrote : BOOLEAN, tries : 1..MaxAttempts]
Responses == [status : Nat, header : SUBSET Field, sent : SUBSET Field, body : Seq(Chunk)]
State == [layer : [1..Len(chain) -> LayerState], resp : Responses]

\* The types of the response and the writers, as one value.
LEMMA ResponseType == TypeOK => Response \in State
BY DEF TypeOK, Response, State, LayerState, Responses

\* The header map loses and gains no field but those of the two layers.
LEMMA HeaderFacts ==
  ASSUME NEW h, NEW l, NEW reached
  PROVE  LET after == HeaderAfter(h, l, reached)
         IN  /\ h \subseteq Field => after \subseteq Field
             /\ \A f \in Field : f[1] \notin {"Server", "X-Frame-Options"} => (f \in after <=> f \in h)
             /\ Deny \in h \/ (\E i \in reached : chain[i] = "security" /\ ~l[i].wrote) => Deny \in after
             /\ Upstream \notin h \/ (\E i \in reached : chain[i] = "rewrite" /\ ~l[i].wrote) => Upstream \notin after
<1> DEFINE first(name) == \E i \in reached : chain[i] = name /\ ~l[i].wrote
           injected == IF first("security") THEN Injected(h) ELSE h
           after == IF first("rewrite") THEN Mutated(injected) ELSE injected
<1>1. HeaderAfter(h, l, reached) = after
  BY DEF HeaderAfter
<1>2. /\ h \subseteq Field => injected \subseteq Field
      /\ \A f \in Field : f[1] # "X-Frame-Options" => (f \in injected <=> f \in h)
      /\ Deny \in h \/ first("security") => Deny \in injected
      /\ Upstream \notin h => Upstream \notin injected
  BY DEF Injected, Deny, Upstream, Field
<1> HIDE DEF injected
<1>3. /\ injected \subseteq Field => after \subseteq Field
      /\ \A f \in Field : f[1] # "Server" => (f \in after <=> f \in injected)
      /\ Deny \in injected => Deny \in after
      /\ Upstream \notin injected \/ first("rewrite") => Upstream \notin after
  BY DEF Mutated, Deny, Upstream, Field
<1> HIDE DEF after
<1> QED BY <1>1, <1>2, <1>3
Kept(l, d, op) == \E i \in 1..d : Keeps(l, i, op)

\* A status or a chunk, as the middlewares and the handler write them.
Arg(op, arg) == IF op = "header" THEN arg \in Nat \ {0} ELSE arg \in Chunk

\* What becomes of the server's response w.
Answer(v, w, l, d, op, arg) ==
  /\ v \in Responses /\ v.header = w.header
  /\ w.status # 0 \/ Kept(l, d, op) => v.status = w.status /\ v.sent = w.sent
  /\ w.status = 0 /\ ~Kept(l, d, op) =>
       v.status = (IF op = "header" THEN arg ELSE 200) /\ v.sent = w.header

LEMMA ResponseFacts ==
  ASSUME NEW w \in Responses, NEW l, NEW d, NEW op \in {"header", "body"}, NEW arg, Arg(op, arg)
  PROVE  Answer(Told(w, l, d, op, arg), w, l, d, op, arg)
<1>1. ASSUME NEW code \in Nat \ {0}
      PROVE  LET v == WriteHeader(w, code)
             IN  /\ v \in Responses /\ v.header = w.header
                 /\ IF w.status # 0 THEN v.status = w.status /\ v.sent = w.sent
                                    ELSE v.status = code /\ v.sent = w.header
  BY <1>1 DEF WriteHeader, Responses
<1>2. ASSUME NEW chunk \in Chunk
      PROVE  LET v == Write(w, chunk)
             IN  /\ v \in Responses /\ v.header = w.header
                 /\ IF w.status # 0 THEN v.status = w.status /\ v.sent = w.sent
                                    ELSE v.status = 200 /\ v.sent = w.header
  <2>1. 200 \in Nat \ {0}
    OBVIOUS
  <2>2. PICK u \in Responses : /\ u = WriteHeader(w, 200) /\ u.header = w.header
                               /\ IF w.status # 0 THEN u.status = w.status /\ u.sent = w.sent
                                                  ELSE u.status = 200 /\ u.sent = w.header
    BY <1>1, <2>1
  <2>3. u.body \in Seq(Chunk)
    BY <2>2 DEF Responses
  <2>4. Append(u.body, chunk) \in Seq(Chunk)
    BY <2>3
  <2> DEFINE b == Append(u.body, chunk)
             v == Write(w, chunk)
  <2>5. v = [u EXCEPT !.body = b]
    BY <2>2 DEF Write
  <2> HIDE DEF v
  <2> b \in Seq(Chunk)
    BY <2>4
  <2> HIDE DEF b
  <2>6. v \in Responses /\ v.header = u.header /\ v.status = u.status /\ v.sent = u.sent
    BY <2>2, <2>5 DEF Responses
  <2> QED BY <2>2, <2>6 DEF v
<1>3. CASE Kept(l, d, op)
  <2>1. Told(w, l, d, op, arg) = w
    BY <1>3 DEF Told, Kept
  <2> QED BY <1>3, <2>1 DEF Answer
<1>4. CASE ~Kept(l, d, op) /\ op = "header"
  <2>1. Told(w, l, d, op, arg) = WriteHeader(w, arg)
    BY <1>4 DEF Told, Kept
  <2> QED BY <1>1, <1>4, <2>1 DEF Arg, Answer
<1>5. CASE ~Kept(l, d, op) /\ op = "body"
  <2>1. PICK chunk \in Chunk : Told(w, l, d, op, arg) = Write(w, chunk)
    BY <1>5 DEF Told, Kept, Arg, Chunk
  <2> QED BY <1>2, <1>5, <2>1 DEF Answer
<1> QED BY <1>3, <1>4, <1>5

\* What becomes of the writers and the response, s, when a call is made.
Change(s, t, d, op, arg) ==
  LET reached == Reached(s.layer, d, op)
  IN  /\ t \in State
      /\ t.resp.header = HeaderAfter(s.resp.header, s.layer, reached)
      /\ s.resp.status # 0 \/ Kept(s.layer, d, op) =>
           t.resp.status = s.resp.status /\ t.resp.sent = s.resp.sent
      /\ s.resp.status = 0 /\ ~Kept(s.layer, d, op) =>
           t.resp.status = (IF op = "header" THEN arg ELSE 200) /\ t.resp.sent = t.resp.header
      /\ \A i \in 1..Len(chain) :
           /\ t.layer[i].tries = s.layer[i].tries
           /\ i \notin reached => t.layer[i] = s.layer[i]
           /\ t.layer[i].wrote <=> s.layer[i].wrote \/ (i \in reached /\ chain[i] \in Marks(op))
           /\ t.layer[i].code = IF i \in reached /\ op = "header" /\ Remembers(i)
                                THEN arg ELSE s.layer[i].code

\* A call changes exactly what Change says.
LEMMA CalledFacts ==
  ASSUME TypeOK, NEW s \in State, NEW d \in 0..Len(chain),
         NEW op \in {"header", "body"}, NEW arg, Arg(op, arg)
  PROVE  Change(s, Called(s, d, op, arg), d, op, arg)
<1> DEFINE reached == Reached(s.layer, d, op)
           w == [s.resp EXCEPT !.header = HeaderAfter(s.resp.header, s.layer, reached)]
           after == [i \in DOMAIN s.layer |->
                       IF i \in reached THEN Noted(s.layer, i, op, arg) ELSE s.layer[i]]
           t == Called(s, d, op, arg)
<1>1. t = [layer |-> after, resp |-> Told(w, s.layer, d, op, arg)]
  BY DEF Called
<1>2. /\ s.resp \in Responses /\ s.layer \in [1..Len(chain) -> LayerState]
  BY DEF State
<1>3. /\ w \in Responses /\ w.status = s.resp.status /\ w.sent = s.resp.sent
      /\ w.header = HeaderAfter(s.resp.header, s.layer, reached)
  BY <1>2, HeaderFacts DEF Responses
<1> HIDE DEF w
<1>4. ASSUME NEW i \in 1..Len(chain)
      PROVE  LET n == Noted(s.layer, i, op, arg)
             IN  /\ n \in LayerState /\ n.tries = s.layer[i].tries
                 /\ n.wrote <=> s.layer[i].wrote \/ chain[i] \in Marks(op)
                 /\ n.code = IF op = "header" /\ Remembers(i) THEN arg ELSE s.layer[i].code
  <2>1. s.layer[i] \in LayerState
    BY <1>2
  <2>2. (IF op = "header" /\ Remembers(i) THEN arg ELSE s.layer[i].code) \in Nat
    BY <2>1 DEF Arg, LayerState
  <2>3. (s.layer[i].wrote \/ chain[i] \in Marks(op)) \in BOOLEAN
    OBVIOUS
  <2> QED BY <2>1, <2>2, <2>3 DEF Noted, LayerState
<1>5. /\ after \in [1..Len(chain) -> LayerState]
      /\ \A i \in 1..Len(chain) :
           after[i] = IF i \in reached THEN Noted(s.layer, i, op, arg) ELSE s.layer[i]
  BY <1>2, <1>4
<1> HIDE DEF after, reached
<1> DEFINE v == Told(w, s.layer, d, op, arg)
<1>0. Answer(v, w, s.layer, d, op, arg)
  BY <1>3, ResponseFacts
<1> HIDE DEF v
<1>6. t.layer = after /\ t.resp = v
  BY <1>1 DEF v
<1>7. t \in State
  BY <1>0, <1>1, <1>5 DEF State, v, Answer
<1>8. /\ t.resp.header = HeaderAfter(s.resp.header, s.layer, reached)
      /\ s.resp.status # 0 \/ Kept(s.layer, d, op) =>
           t.resp.status = s.resp.status /\ t.resp.sent = s.resp.sent
      /\ s.resp.status = 0 /\ ~Kept(s.layer, d, op) =>
           t.resp.status = (IF op = "header" THEN arg ELSE 200) /\ t.resp.sent = t.resp.header
  BY <1>0, <1>3, <1>6 DEF Answer
<1>9. ASSUME NEW i \in 1..Len(chain)
      PROVE  /\ t.layer[i].tries = s.layer[i].tries
             /\ i \notin reached => t.layer[i] = s.layer[i]
             /\ t.layer[i].wrote <=> s.layer[i].wrote \/ (i \in reached /\ chain[i] \in Marks(op))
             /\ t.layer[i].code = IF i \in reached /\ op = "header" /\ Remembers(i)
                                  THEN arg ELSE s.layer[i].code
  BY <1>4, <1>5, <1>6
<1> QED BY <1>7, <1>8, <1>9 DEF Change, reached
\* The calls that are kept, and the layers they do not get to.
LEMMA KeptFacts ==
  ASSUME TypeOK, NEW l, NEW d \in 0..Len(chain), NEW op \in {"header", "body"}
  PROVE  /\ Kept(l, d, "header") <=> "retry" \in Layers /\ Index("retry") <= d
         /\ Kept(l, d, "body") <=> "compress" \in Layers /\ Index("compress") <= d
                                     /\ l[Index("compress")].wrote
         /\ \A i \in 1..Len(chain) :
              /\ i \in Reached(l, d, "header") <=>
                   i <= d /\ ~("retry" \in Layers /\ Index("retry") \in i + 1..d)
              /\ i \in Reached(l, d, "body") <=>
                   i <= d /\ ~("compress" \in Layers /\ Index("compress") \in i + 1..d
                                 /\ l[Index("compress")].wrote)
         /\ Reached(l, d, op) \subseteq 1..Len(chain)
<1>1. Len(chain) \in Nat /\ d \in 0..Len(chain)
  BY ChainType
<1>2. /\ "retry" \in Layers => Index("retry") \in 1..Len(chain) /\ chain[Index("retry")] = "retry"
      /\ "compress" \in Layers => Index("compress") \in 1..Len(chain) /\ chain[Index("compress")] = "compress"
      /\ \A i \in 1..Len(chain) : /\ chain[i] = "retry" => "retry" \in Layers /\ i = Index("retry")
                                  /\ chain[i] = "compress" => "compress" \in Layers /\ i = Index("compress")
  BY IndexType
<1>3. \A i \in 1..Len(chain) :
        /\ Keeps(l, i, "header") <=> "retry" \in Layers /\ i = Index("retry")
        /\ Keeps(l, i, "body") <=> "compress" \in Layers /\ i = Index("compress") /\ l[i].wrote
  BY <1>2 DEF Keeps
<1>4. \A i \in 1..d : i \in 1..Len(chain)
  BY <1>1
<1>5. /\ Kept(l, d, "header") <=> "retry" \in Layers /\ Index("retry") <= d
      /\ Kept(l, d, "body") <=> "compress" \in Layers /\ Index("compress") <= d
                                  /\ l[Index("compress")].wrote
  BY <1>1, <1>2, <1>3, <1>4 DEF Kept
<1>6. ASSUME NEW i \in 1..Len(chain)
      PROVE  /\ i \in Reached(l, d, "header") <=>
                  i <= d /\ ~("retry" \in Layers /\ Index("retry") \in i + 1..d)
             /\ i \in Reached(l, d, "body") <=>
                  i <= d /\ ~("compress" \in Layers /\ Index("compress") \in i + 1..d
                                /\ l[Index("compress")].wrote)
  <2>1. \A j \in i + 1..d : j \in 1..Len(chain)
    BY <1>1
  <2>2. i \in 1..d <=> i <= d
    BY <1>1
  <2> QED BY <1>2, <1>3, <2>1, <2>2 DEF Reached
<1>7. Reached(l, d, op) \subseteq 1..Len(chain)
  BY <1>1 DEF Reached
<1> QED BY <1>5, <1>6, <1>7

\* The gzip writer has passed a first write on only with a status.
HeadSent(s) ==
  \A i \in 1..Len(chain) : chain[i] = "compress" /\ s.layer[i].wrote => s.resp.status # 0

\* What a call leaves alone: a status that is fixed, the layers inside it.
LEMMA CallFacts ==
  ASSUME TypeOK, NEW s \in State, NEW d \in 0..Len(chain), NEW t,
         NEW op \in {"header", "body"}, NEW arg, Arg(op, arg), Change(s, t, d, op, arg)
  PROVE  /\ t \in State
         /\ \A i \in 1..Len(chain) : /\ t.layer[i].tries = s.layer[i].tries
                                     /\ i > d => t.layer[i] = s.layer[i]
         /\ s.resp.status # 0 => t.resp.status = s.resp.status /\ t.resp.sent = s.resp.sent
         /\ HeadSent(s) => HeadSent(t) /\ (op = "body" => t.resp.status # 0)
<1>1. /\ t \in State
      /\ s.resp.status # 0 => t.resp.status = s.resp.status /\ t.resp.sent = s.resp.sent
      /\ \A i \in 1..Len(chain) : /\ t.layer[i].tries = s.layer[i].tries
                                  /\ i \notin Reached(s.layer, d, op) => t.layer[i] = s.layer[i]
  BY DEF Change
<1>2. \A i \in 1..Len(chain) : i > d => t.layer[i] = s.layer[i]
  BY <1>1, KeptFacts
<1>3. ASSUME HeadSent(s), op = "body" PROVE t.resp.status # 0
  <2>1. CASE Kept(s.layer, d, op)
    <3>1. s.resp.status # 0
      BY <1>3, <2>1, KeptFacts, IndexType DEF HeadSent
    <3> QED BY <1>1, <3>1
  <2>2. CASE s.resp.status = 0 /\ ~Kept(s.layer, d, op)
    BY <1>3, <2>2 DEF Change
  <2> QED BY <1>1, <2>1, <2>2
<1>4. ASSUME HeadSent(s), NEW i \in 1..Len(chain), chain[i] = "compress", t.layer[i].wrote
      PROVE  t.resp.status # 0
  <2>1. CASE s.layer[i].wrote
    BY <1>1, <1>4, <2>1 DEF HeadSent
  <2>2. CASE ~s.layer[i].wrote
    <3>1. chain[i] \in Marks(op)
      BY <1>4, <2>2 DEF Change
    <3> QED BY <1>3, <1>4, <3>1 DEF Marks
  <2> QED BY <2>1, <2>2
<1> QED BY <1>1, <1>2, <1>3, <1>4 DEF HeadSent
\* A header that is set.
LEMMA SetHeaderFacts ==
  ASSUME NEW w \in Responses, NEW name, NEW value, <<name, value>> \in Field
  PROVE  LET v == SetHeader(w, name, value)
         IN  /\ v \in Responses /\ v.status = w.status /\ v.sent = w.sent
             /\ <<name, value>> \in v.header
             /\ \A f \in Field : f[1] # name => (f \in v.header <=> f \in w.header)
             /\ \A f \in Field : f[1] = name /\ f[2] # value => f \notin v.header
<1> DEFINE h == {f \in w.header : f[1] # name} \cup {<<name, value>>}
<1>1. /\ h \subseteq Field /\ <<name, value>> \in h
      /\ \A f \in Field : f[1] # name => (f \in h <=> f \in w.header)
      /\ \A f \in Field : f[1] = name /\ f[2] # value => f \notin h
  BY DEF Responses
<1> HIDE DEF h
<1>2. SetHeader(w, name, value) = [w EXCEPT !.header = h]
  BY DEF SetHeader, AddHeader, DelHeader, Responses, h
<1> QED BY <1>1, <1>2 DEF Responses

-----------------------------------------------------------------------------
(***************************************************************************)
(* The kinds of steps.                                                      *)
(***************************************************************************)
Frame ==
  /\ UNCHANGED <<chain, saml, private>> /\ assertion' \in BOOLEAN
  /\ Response' \in State

\* The status and what has been sent stay; of the header fields, all but those
\* that the step says.
SameSent == resp'.status = resp.status /\ resp'.sent = resp.sent
SameField(f) == f \in resp'.header <=> f \in resp.header

\* The layer puts a fresh writer around the one that it was given.
Wrapping(i) == chain[i] \notin {"ratelimit", "auth"} /\ ~(chain[i] = "cache" /\ private)

GoesIn ==
  /\ going = "in" /\ at \in 1..Len(chain) /\ at' = at + 1 /\ going' = "in"
  /\ UNCHANGED <<did, left, panicked>>
  /\ layer' = IF Wrapping(at) THEN [layer EXCEPT ![at] = FreshLayer] ELSE layer
  /\ SameSent /\ SameField(Deny) /\ SameField(Upstream)
  /\ IF chain[at] = "cache" /\ private
     THEN NoStore \in resp'.header /\ Public \notin resp'.header
     ELSE SameField(NoStore) /\ SameField(Public)

\* http.Error with the writer of layer d, in state s.
Errs(d, code, text) ==
  \E s, t \in State :
    /\ s.layer = layer /\ s.resp.status = resp.status /\ s.resp.sent = resp.sent
    /\ \A f \in {Deny, Upstream, NoStore, Public} : f \in s.resp.header <=> f \in resp.header
    /\ Change(s, t, d, "header", code) /\ Change(t, Response', d, "body", text)

Refuses ==
  /\ going = "in" /\ at \in 1..Len(chain) /\ at' = at - 1 /\ going' = "out"
  /\ UNCHANGED <<did, left, panicked>>
  /\ chain[at] \in {"ratelimit", "auth"}
  /\ \E code \in {429, 401} : Errs(at - 1, code, "refusal")

HandlerAnswers ==
  /\ going = "in" /\ at = Handler /\ UNCHANGED <<at, going, left, panicked>>
  /\ \/ /\ did = "none" /\ did' = "header"
        /\ \E s \in State, code \in Answers :
             /\ s.layer = layer /\ s.resp.status = resp.status /\ s.resp.sent = resp.sent
             /\ \A f \in {Deny, NoStore, Public} : f \in s.resp.header <=> f \in resp.header
             /\ Change(s, Response', Len(chain), "header", code)
     \/ /\ did # "body" /\ did' = "body"
        /\ Change(Response, Response', Len(chain), "body", "answer")

HandlerEnds ==
  /\ going = "in" /\ at = Handler /\ at' = at - 1 /\ UNCHANGED <<layer, resp, did, left>>
  /\ \/ going' = "out" /\ UNCHANGED panicked
     \/ /\ going' = "panic"
        /\ panicked' = IF resp.status = 0 THEN "before" ELSE "after"

\* The three ways out of a layer.
Returns ==
  /\ going = "out" /\ at \in 1..Len(chain) /\ at' = at - 1 /\ going' = "out"
  /\ left' = left \cup {at} /\ UNCHANGED <<did, panicked>>

ReturnsQuietly ==
  /\ Returns /\ UNCHANGED layer
  /\ chain[at] \notin {"compress"}
  /\ SameSent /\ SameField(Upstream)
  /\ IF chain[at] = "security" /\ ~layer[at].wrote
     THEN Deny \in resp'.header ELSE SameField(Deny)
  /\ IF chain[at] = "cache" /\ ~private
     THEN Public \in resp'.header <=> layer[at].code \in Cacheable
     ELSE SameField(NoStore) /\ SameField(Public)

ReturnsCalling ==
  /\ Returns
  /\ \/ chain[at] = "compress" /\ Change(Response, Response', at - 1, "body", "gzip tail")
     \/ /\ chain[at] = "retry" /\ layer[at].wrote /\ layer[at].code # 0
        /\ Change(Response, Response', at - 1, "header", layer[at].code)

Retries ==
  /\ going = "out" /\ at \in 1..Len(chain) /\ at' = at + 1 /\ going' = "in"
  /\ chain[at] = "retry" /\ layer[at].code \in RetryOn /\ layer[at].tries < MaxAttempts
  /\ \E fresh \in LayerState :
       /\ fresh.code = 200 /\ ~fresh.wrote /\ fresh.tries = layer[at].tries + 1
       /\ layer' = [layer EXCEPT ![at] = fresh]
  /\ did' = "none" /\ left' = {i \in left : i < at} /\ UNCHANGED <<resp, panicked>>

Unwinds ==
  /\ going = "panic" /\ at \in 1..Len(chain) /\ at' = at - 1 /\ going' = "panic"
  /\ UNCHANGED <<did, left, panicked>>
  /\ chain[at] # "recover"
  /\ IF chain[at] = "compress" THEN Change(Response, Response', at - 1, "body", "gzip tail")
                               ELSE UNCHANGED <<layer, resp>>

Recovers ==
  /\ going = "panic" /\ at \in 1..Len(chain) /\ at' = at - 1 /\ going' = "out"
  /\ UNCHANGED <<did, left, panicked>>
  /\ chain[at] = "recover"
  /\ Errs(at - 1, 500, "error")

Ends ==
  /\ at = 0 /\ UNCHANGED <<at, layer, did, left, panicked>>
  /\ \/ /\ going = "out" /\ going' = "answered"
        /\ resp'.header = resp.header
        /\ IF resp.status # 0 THEN resp' = resp ELSE resp'.status = 200 /\ resp'.sent = resp.header
     \/ going = "panic" /\ going' = "aborted" /\ UNCHANGED resp

\* http.Error sets a header that is none of the four and makes two calls.
LEMMA ErrsFacts ==
  ASSUME TypeOK, NEW d \in 0..Len(chain), NEW code \in Nat \ {0}, NEW text \in Chunk,
         Becomes(Refused(Response, d, code, text))
  PROVE  Errs(d, code, text) /\ Response' \in State
<1> DEFINE s == [Response EXCEPT !.resp = SetHeader(@, "Content-Type", "text")]
           t == Called(s, d, "header", code)
           u == Called(t, d, "body", text)
<1>1. Response \in State /\ resp \in Responses /\ Response = [resp |-> resp, layer |-> layer]
  BY ResponseType DEF TypeOK, Responses, Response
<1>2. s = [resp |-> SetHeader(resp, "Content-Type", "text"), layer |-> layer]
  BY <1>1
<1>3. <<"Content-Type", "text">> \in Field
  BY DEF Field
<1>4. /\ SetHeader(resp, "Content-Type", "text") \in Responses
      /\ s.resp.status = resp.status /\ s.resp.sent = resp.sent /\ s.layer = layer
      /\ \A f \in Field : f[1] # "Content-Type" => (f \in s.resp.header <=> f \in resp.header)
  BY <1>1, <1>2, <1>3, SetHeaderFacts
<1>5. s \in State
  BY <1>1, <1>2, <1>4 DEF State
<1>6. \A f \in {Deny, Upstream, NoStore, Public} : f \in Field /\ f[1] # "Content-Type"
  BY DEF Deny, Upstream, NoStore, Public, Field
<1>7. u = Refused(Response, d, code, text)
  BY DEF Refused
<1> HIDE DEF s
<1>8. Change(s, t, d, "header", code)
  BY <1>5, CalledFacts DEF Arg
<1>9. t \in State
  BY <1>8 DEF Change
<1> HIDE DEF t
<1>10. Change(t, u, d, "body", text)
  BY <1>9, CalledFacts DEF Arg
<1>11. u \in State
  BY <1>10 DEF Change
<1>12. Response' = u
  <2>1. resp' = u.resp /\ layer' = u.layer
    BY <1>7 DEF Becomes
  <2>2. u = [resp |-> u.resp, layer |-> u.layer]
    BY <1>11 DEF State
  <2> HIDE DEF u
  <2> QED BY <2>1, <2>2 DEF Response
<1> QED BY <1>4, <1>5, <1>6, <1>8, <1>9, <1>10, <1>11, <1>12 DEF Errs

\* One call.
LEMMA CallStep ==
  ASSUME TypeOK, NEW s \in State, NEW d \in 0..Len(chain), NEW op \in {"header", "body"},
         NEW arg, Arg(op, arg), Becomes(Called(s, d, op, arg))
  PROVE  Change(s, Response', d, op, arg) /\ Response' \in State
<1> DEFINE u == Called(s, d, op, arg)
<1>1. Change(s, u, d, op, arg) /\ u \in State
  BY CalledFacts DEF Change
<1>2. resp' = u.resp /\ layer' = u.layer
  BY DEF Becomes
<1> HIDE DEF u
<1>3. Response' = u
  BY <1>1, <1>2 DEF State, Response
<1> QED BY <1>1, <1>3

\* Every action is a step of one of the ten kinds.
LEMMA StepKinds ==
  ASSUME TypeOK, Control, Next
  PROVE  /\ Frame
         /\ \/ GoesIn \/ Refuses \/ HandlerAnswers \/ HandlerEnds \/ ReturnsQuietly
            \/ ReturnsCalling \/ Retries \/ Unwinds \/ Recovers \/ Ends
<1>0. /\ Len(chain) \in Nat \ {0} /\ Handler = Len(chain) + 1
      /\ \A i \in 1..Len(chain) : chain[i] \in Kinds
      /\ Response \in State /\ resp \in Responses /\ layer \in [1..Len(chain) -> LayerState]
      /\ assertion \in BOOLEAN /\ at \in 0..Handler /\ Len(chain) \in 0..Len(chain)
  BY ChainType, ResponseType DEF TypeOK, State, Response
<1> DEFINE Kind == \/ GoesIn \/ Refuses \/ HandlerAnswers \/ HandlerEnds \/ ReturnsQuietly
                   \/ ReturnsCalling \/ Retries \/ Unwinds \/ Recovers \/ Ends
\* A step that leaves the writers and the response with values of their types.
<1>1. ASSUME resp' \in Responses, layer' \in [1..Len(chain) -> LayerState] PROVE Response' \in State
  BY <1>1 DEF Response, State
<1>2. FreshLayer \in LayerState
  BY PipelineAssumption DEF FreshLayer, LayerState
<1>3. ASSUME Inside PROVE at \in 1..Len(chain) /\ going = "in"
  BY <1>0, <1>3 DEF Inside, Control
<1>4. ASSUME Outside PROVE at \in 1..Len(chain) /\ going = "out"
  BY <1>0, <1>4 DEF Outside, Control
<1>5. ASSUME going = "panic", at > 0 PROVE at \in 1..Len(chain)
  BY <1>0, <1>5 DEF Control
<1>6. ASSUME NEW i \in 1..Len(chain) PROVE i - 1 \in 0..Len(chain)
  BY <1>0
<1>7. /\ <<"Cache-Control", "no-store">> \in Field /\ <<"Cache-Control", "public">> \in Field
      /\ <<"Content-Encoding", "gzip">> \in Field
      /\ \A f \in {Deny, Upstream, NoStore, Public} : f \in Field
      /\ Deny[1] = "X-Frame-Options" /\ Upstream[1] = "Server"
      /\ NoStore[1] = "Cache-Control" /\ Public[1] = "Cache-Control"
      /\ NoStore[2] = "no-store" /\ Public[2] = "public"
  BY DEF Field, Deny, Upstream, NoStore, Public
<1> USE DEF Moves
<1>8. ASSUME Enter \/ EnterSecurity PROVE Frame /\ Kind
  <2>1. /\ at \in 1..Len(chain) /\ going = "in" /\ at' = at + 1 /\ going' = "in"
        /\ UNCHANGED <<chain, resp, did, left, panicked, saml, private>> /\ assertion' \in BOOLEAN
        /\ layer' = [layer EXCEPT ![at] = FreshLayer]
    BY <1>0, <1>3, <1>8 DEF Enter, EnterSecurity
  <2>2. Wrapping(at) /\ ~(chain[at] = "cache" /\ private)
    BY <1>8 DEF Enter, EnterSecurity, Wrapping, PrivateCache
  <2>3. Response' \in State
    BY <1>0, <1>1, <1>2, <2>1
  <2>4. GoesIn
    BY <2>1, <2>2 DEF GoesIn, SameSent, SameField
  <2> QED BY <2>1, <2>3, <2>4 DEF Frame
<1>9. ASSUME EnterPrivate PROVE Frame /\ Kind
  <2>1. /\ at \in 1..Len(chain) /\ going = "in" /\ at' = at + 1 /\ going' = "in"
        /\ UNCHANGED <<chain, layer, assertion, did, left, panicked, saml, private>>
        /\ chain[at] = "cache" /\ private
    BY <1>0, <1>3, <1>9 DEF EnterPrivate, PrivateCache
  <2>2. /\ resp' \in Responses /\ resp'.status = resp.status /\ resp'.sent = resp.sent
        /\ <<"Cache-Control", "no-store">> \in resp'.header
        /\ \A f \in Field : f[1] # "Cache-Control" => (f \in resp'.header <=> f \in resp.header)
        /\ \A f \in Field : f[1] = "Cache-Control" /\ f[2] # "no-store" => f \notin resp'.header
    BY <1>0, <1>7, <1>9, SetHeaderFacts DEF EnterPrivate
  <2>3. ~Wrapping(at)
    BY <2>1 DEF Wrapping
  <2>4. NoStore \in resp'.header /\ Public \notin resp'.header
    BY <1>7, <2>2 DEF NoStore
  <2>5. GoesIn
    BY <1>7, <2>1, <2>2, <2>3, <2>4 DEF GoesIn, SameSent, SameField
  <2>6. Response' \in State
    BY <1>0, <1>1, <2>1, <2>2
  <2> QED BY <1>0, <2>1, <2>5, <2>6 DEF Frame
<1>10. ASSUME EnterCompress PROVE Frame /\ Kind
  <2>1. /\ at \in 1..Len(chain) /\ going = "in" /\ at' = at + 1 /\ going' = "in"
        /\ UNCHANGED <<chain, assertion, did, left, panicked, saml, private>>
        /\ layer' = [layer EXCEPT ![at] = FreshLayer] /\ chain[at] = "compress"
    BY <1>0, <1>3, <1>10 DEF EnterCompress
  <2>2. /\ resp' \in Responses /\ resp'.status = resp.status /\ resp'.sent = resp.sent
        /\ \A f \in Field : f[1] # "Content-Encoding" => (f \in resp'.header <=> f \in resp.header)
    BY <1>0, <1>7, <1>10, SetHeaderFacts DEF EnterCompress
  <2>3. Wrapping(at) /\ ~(chain[at] = "cache" /\ private)
    BY <2>1 DEF Wrapping
  <2>4. GoesIn
    BY <1>7, <2>1, <2>2, <2>3 DEF GoesIn, SameSent, SameField
  <2>5. Response' \in State
    BY <1>0, <1>1, <1>2, <2>1, <2>2
  <2> QED BY <1>0, <2>1, <2>4, <2>5 DEF Frame
<1>11. ASSUME Pass PROVE Frame /\ Kind
  <2>1. /\ at \in 1..Len(chain) /\ going = "in" /\ at' = at + 1 /\ going' = "in"
        /\ UNCHANGED <<chain, layer, resp, assertion, did, left, panicked, saml, private>>
        /\ chain[at] \in {"ratelimit", "auth"}
    BY <1>0, <1>3, <1>11 DEF Pass
  <2>2. ~Wrapping(at) /\ ~(chain[at] = "cache" /\ private)
    BY <2>1 DEF Wrapping
  <2>3. GoesIn
    BY <2>1, <2>2 DEF GoesIn, SameSent, SameField
  <2>4. Response' \in State
    BY <1>0, <1>1, <2>1
  <2> QED BY <1>0, <2>1, <2>3, <2>4 DEF Frame
<1>12. ASSUME Refuse PROVE Frame /\ Kind
  <2>1. /\ at \in 1..Len(chain) /\ going = "in" /\ at' = at - 1 /\ going' = "out"
        /\ UNCHANGED <<chain, assertion, did, left, panicked, saml, private>>
        /\ chain[at] \in {"ratelimit", "auth"}
    BY <1>0, <1>3, <1>12 DEF Refuse
  <2>2. PICK code \in {429, 401} : Becomes(Refused(Response, at - 1, code, "refusal"))
    BY <1>12 DEF Refuse
  <2>3. code \in Nat \ {0} /\ "refusal" \in Chunk
    BY DEF Chunk
  <2>4. Errs(at - 1, code, "refusal") /\ Response' \in State
    BY <1>6, <2>1, <2>2, <2>3, ErrsFacts
  <2> QED BY <1>0, <2>1, <2>4 DEF Frame, Refuses
<1>13. ASSUME HandlerHeader PROVE Frame /\ Kind
  <2>1. /\ going = "in" /\ at = Handler /\ did = "none" /\ did' = "header"
        /\ UNCHANGED <<chain, at, going, assertion, left, panicked, saml, private>>
    BY <1>13 DEF HandlerHeader, AtHandler
  <2>2. PICK code \in Answers, fields \in SUBSET UpstreamFields :
          Becomes(Called([Response EXCEPT !.resp = [resp EXCEPT !.header = @ \cup fields]],
                         Len(chain), "header", code))
    <3>1. Handler - 1 = Len(chain)
      BY <1>0
    <3> QED BY <1>13, <3>1 DEF HandlerHeader
  <2> DEFINE w == [resp EXCEPT !.header = @ \cup fields]
             s == [Response EXCEPT !.resp = w]
  <2>3. /\ w \in Responses /\ w.status = resp.status /\ w.sent = resp.sent
        /\ w.header = resp.header \cup fields
    <3>1. resp.header \cup fields \subseteq Field
      BY <1>0 DEF Responses, UpstreamFields, Field
    <3> QED BY <1>0, <3>1 DEF Responses
  <2>4. Becomes(Called(s, Len(chain), "header", code))
    BY <2>2
  <2> HIDE DEF w
  <2>5. s \in State /\ s.layer = layer /\ s.resp = w
    <3>1. Response \in State /\ Response = [resp |-> resp, layer |-> layer]
      BY <1>0, ResponseType DEF Response
    <3>2. s = [resp |-> w, layer |-> layer]
      BY <3>1
    <3> QED BY <2>3, <3>1, <3>2 DEF State
  <2> HIDE DEF s
  <2>6. code \in Nat \ {0}
    BY PipelineAssumption
  <2>7. Change(s, Response', Len(chain), "header", code) /\ Response' \in State
    BY <1>0, <2>4, <2>5, <2>6, CallStep DEF Arg
  <2>8. \A f \in {Deny, NoStore, Public} : f \in s.resp.header <=> f \in resp.header
    BY <2>3, <2>5 DEF UpstreamFields, Deny, NoStore, Public
  <2> QED BY <1>0, <2>1, <2>3, <2>5, <2>7, <2>8 DEF Frame, HandlerAnswers
<1>14. ASSUME HandlerBody PROVE Frame /\ Kind
  <2>1. /\ going = "in" /\ at = Handler /\ did # "body" /\ did' = "body"
        /\ UNCHANGED <<chain, at, going, assertion, left, panicked, saml, private>>
    BY <1>14 DEF HandlerBody, AtHandler
  <2>2. Becomes(Called(Response, Len(chain), "body", "answer"))
    <3>1. Handler - 1 = Len(chain)
      BY <1>0
    <3> QED BY <1>14, <3>1 DEF HandlerBody
  <2>3. "answer" \in Chunk
    BY DEF Chunk
  <2>4. Change(Response, Response', Len(chain), "body", "answer") /\ Response' \in State
    BY <1>0, <2>2, <2>3, CallStep DEF Arg
  <2> QED BY <1>0, <2>1, <2>4 DEF Frame, HandlerAnswers
<1>15. ASSUME HandlerReturn \/ HandlerPanic PROVE Frame /\ Kind
  <2>1. UNCHANGED <<chain, assertion, saml, private, layer, resp>>
    BY <1>15 DEF HandlerReturn, HandlerPanic
  <2>2. HandlerEnds
    BY <1>15 DEF HandlerReturn, HandlerPanic, AtHandler, HandlerEnds
  <2>3. Response' \in State
    BY <1>0, <1>1, <2>1
  <2> QED BY <1>0, <2>1, <2>2, <2>3 DEF Frame
<1>16. ASSUME Leave PROVE Frame /\ Kind
  <2>1. Returns /\ UNCHANGED <<chain, assertion, saml, private, layer, resp>>
    BY <1>4, <1>16 DEF Leave, Returned, Returns
  <2>2. /\ chain[at] \notin {"compress", "security"}
        /\ ~(chain[at] = "cache" /\ ~private)
    BY <1>16 DEF Leave, PrivateCache
  <2>3. ReturnsQuietly
    BY <2>1, <2>2 DEF ReturnsQuietly, SameSent, SameField
  <2>4. Response' \in State
    BY <1>0, <1>1, <2>1
  <2> QED BY <1>0, <2>1, <2>3, <2>4 DEF Frame
<1>17. ASSUME LeaveSecurity PROVE Frame /\ Kind
  <2>1. Returns /\ chain[at] = "security" /\ UNCHANGED <<chain, assertion, saml, private, layer>>
    BY <1>4, <1>17 DEF LeaveSecurity, Returned, Returns
  <2>2. /\ resp' \in Responses /\ SameSent /\ SameField(Upstream)
        /\ SameField(NoStore) /\ SameField(Public)
        /\ IF layer[at].wrote THEN SameField(Deny) ELSE Deny \in resp'.header
    <3>1. CASE layer[at].wrote
      BY <1>0, <1>17, <3>1 DEF LeaveSecurity, SameSent, SameField
    <3>2. CASE ~layer[at].wrote
      <4>1. Injected(resp.header) \subseteq Field /\ Deny \in Injected(resp.header)
            /\ \A f \in Field : f[1] # "X-Frame-Options" => (f \in Injected(resp.header) <=> f \in resp.header)
        BY <1>0, <1>7 DEF Injected, Responses, Deny
      <4>2. resp' = [resp EXCEPT !.header = Injected(resp.header)]
        BY <1>0, <1>17, <3>2 DEF LeaveSecurity, Responses
      <4>3. /\ resp' \in Responses /\ resp'.header = Injected(resp.header)
            /\ resp'.status = resp.status /\ resp'.sent = resp.sent
        BY <1>0, <4>1, <4>2 DEF Responses
      <4> QED BY <1>7, <3>2, <4>1, <4>3 DEF SameSent, SameField
    <3> QED BY <3>1, <3>2
  <2>3. ReturnsQuietly
    BY <2>1, <2>2 DEF ReturnsQuietly
  <2>4. Response' \in State
    BY <1>0, <1>1, <2>1, <2>2
  <2> QED BY <1>0, <2>1, <2>3, <2>4 DEF Frame
<1>18. ASSUME LeaveCache PROVE Frame /\ Kind
  <2>1. /\ Returns /\ chain[at] = "cache" /\ ~private
        /\ UNCHANGED <<chain, assertion, saml, private, layer>>
    BY <1>4, <1>18 DEF LeaveCache, Returned, Returns
  <2>2. PICK value \in {"public", "no-store"} :
          /\ resp' = SetHeader(resp, "Cache-Control", value)
          /\ value = "public" <=> layer[at].code \in Cacheable
    BY <1>18 DEF LeaveCache
  <2>3. /\ resp' \in Responses /\ resp'.status = resp.status /\ resp'.sent = resp.sent
        /\ <<"Cache-Control", value>> \in resp'.header
        /\ \A f \in Field : f[1] # "Cache-Control" => (f \in resp'.header <=> f \in resp.header)
        /\ \A f \in Field : f[1] = "Cache-Control" /\ f[2] # value => f \notin resp'.header
    BY <1>0, <1>7, <2>2, SetHeaderFacts
  <2>4. Public \in resp'.header <=> layer[at].code \in Cacheable
    <3>1. CASE value = "public"
      BY <2>2, <2>3, <3>1 DEF Public
    <3>2. CASE value # "public"
      BY <1>7, <2>2, <2>3, <3>2
    <3> QED BY <3>1, <3>2
  <2>5. ReturnsQuietly
    BY <1>7, <2>1, <2>3, <2>4 DEF ReturnsQuietly, SameSent, SameField
  <2>6. Response' \in State
    BY <1>0, <1>1, <2>1, <2>3
  <2> QED BY <1>0, <2>1, <2>5, <2>6 DEF Frame
<1>19. ASSUME NEW i \in 1..Len(chain), Becomes(Called(Response, i - 1, "body", "gzip tail"))
       PROVE  Change(Response, Response', i - 1, "body", "gzip tail") /\ Response' \in State
  <2>1. "gzip tail" \in Chunk
    BY DEF Chunk
  <2> QED BY <1>0, <1>6, <1>19, <2>1, CallStep DEF Arg
<1>20. ASSUME LeaveCompress PROVE Frame /\ Kind
  <2>1. /\ Returns /\ chain[at] = "compress" /\ UNCHANGED <<chain, assertion, saml, private>>
        /\ Becomes(Called(Response, at - 1, "body", "gzip tail"))
    BY <1>4, <1>20 DEF LeaveCompress, Closed, Returned, Returns
  <2>2. at \in 1..Len(chain)
    BY <2>1 DEF Returns
  <2> QED BY <1>0, <1>19, <2>1, <2>2 DEF Frame, ReturnsCalling
<1>21. ASSUME RetryEnds PROVE Frame /\ Kind
  <2>1. Returns /\ chain[at] = "retry" /\ UNCHANGED <<chain, assertion, saml, private>>
    BY <1>4, <1>21 DEF RetryEnds, Returned, Returns
  <2>2. CASE layer[at].wrote
    <3>1. at \in 1..Len(chain) /\ layer[at].code \in Nat \ {0}
      BY <1>0, <2>1 DEF Returns, Control, LayerState
    <3>2. Becomes(Called(Response, at - 1, "header", layer[at].code))
      BY <1>21, <2>2 DEF RetryEnds
    <3>3. Change(Response, Response', at - 1, "header", layer[at].code) /\ Response' \in State
      BY <1>0, <1>6, <3>1, <3>2, CallStep DEF Arg
    <3> QED BY <1>0, <2>1, <2>2, <3>1, <3>3 DEF Frame, ReturnsCalling
  <2>3. CASE ~layer[at].wrote
    <3>1. UNCHANGED <<layer, resp>>
      BY <1>21, <2>3 DEF RetryEnds
    <3>2. ReturnsQuietly
      BY <2>1, <3>1 DEF ReturnsQuietly, SameSent, SameField
    <3>3. Response' \in State
      BY <1>0, <1>1, <3>1
    <3> QED BY <1>0, <2>1, <3>2, <3>3 DEF Frame
  <2> QED BY <2>2, <2>3
<1>22. ASSUME RetryAgain PROVE Frame /\ Kind
  <2>1. /\ going = "out" /\ at \in 1..Len(chain) /\ at' = at + 1 /\ going' = "in"
        /\ chain[at] = "retry" /\ layer[at].code \in RetryOn /\ layer[at].tries < MaxAttempts
        /\ layer' = [layer EXCEPT ![at] = [FreshLayer EXCEPT !.tries = layer[at].tries + 1]]
        /\ did' = "none" /\ left' = {i \in left : i < at}
        /\ UNCHANGED <<chain, resp, assertion, panicked, saml, private>>
    BY <1>4, <1>22 DEF RetryAgain, Again
  <2>2. layer[at].tries + 1 \in 1..MaxAttempts
    BY <1>0, <2>1, PipelineAssumption DEF LayerState
  <2> DEFINE fresh == [FreshLayer EXCEPT !.tries = layer[at].tries + 1]
  <2>3. fresh \in LayerState /\ fresh.tries = layer[at].tries + 1
    BY <1>2, <2>2 DEF LayerState
  <2>4. fresh.code = 200 /\ fresh.wrote = FALSE
    BY <1>2, <2>2 DEF FreshLayer
  <2> HIDE DEF fresh
  <2>5. layer' = [layer EXCEPT ![at] = fresh]
    BY <2>1 DEF fresh
  <2>6. Response' \in State
    BY <1>0, <1>1, <2>1, <2>3, <2>5
  <2>7. Retries
    BY <2>1, <2>3, <2>4, <2>5 DEF Retries
  <2> QED BY <1>0, <2>1, <2>6, <2>7 DEF Frame
<1>23. ASSUME Unwind PROVE Frame /\ Kind
  <2>1. /\ going = "panic" /\ at \in 1..Len(chain) /\ at' = at - 1 /\ going' = "panic"
        /\ chain[at] # "recover" /\ UNCHANGED <<chain, assertion, did, left, panicked, saml, private>>
        /\ IF chain[at] = "compress" THEN Becomes(Called(Response, at - 1, "body", "gzip tail"))
                                     ELSE UNCHANGED <<layer, resp>>
    BY <1>5, <1>23 DEF Unwind, Closed
  <2>2. CASE chain[at] = "compress"
    BY <1>0, <1>19, <2>1, <2>2 DEF Frame, Unwinds
  <2>3. CASE chain[at] # "compress"
    BY <1>0, <1>1, <2>1, <2>3 DEF Frame, Unwinds
  <2> QED BY <2>2, <2>3
<1>24. ASSUME Recover PROVE Frame /\ Kind
  <2>1. /\ going = "panic" /\ at \in 1..Len(chain) /\ at' = at - 1 /\ going' = "out"
        /\ chain[at] = "recover" /\ UNCHANGED <<chain, assertion, did, left, panicked, saml, private>>
        /\ Becomes(Refused(Response, at - 1, 500, "error"))
    BY <1>5, <1>24 DEF Recover
  <2>2. 500 \in Nat \ {0} /\ "error" \in Chunk
    BY DEF Chunk
  <2>3. Errs(at - 1, 500, "error") /\ Response' \in State
    BY <1>6, <2>1, <2>2, ErrsFacts
  <2> QED BY <1>0, <2>1, <2>3 DEF Frame, Recovers
<1>25. ASSUME ServerEnds PROVE Frame /\ Kind
  <2>1. /\ at = 0 /\ going = "out" /\ going' = "answered" /\ resp' = WriteHeader(resp, 200)
        /\ UNCHANGED <<chain, at, layer, assertion, did, left, panicked, saml, private>>
    BY <1>25 DEF ServerEnds, Finished
  <2>2. /\ resp' \in Responses /\ resp'.header = resp.header
        /\ IF resp.status # 0 THEN resp' = resp ELSE resp'.status = 200 /\ resp'.sent = resp.header
    BY <1>0, <2>1 DEF WriteHeader, Responses
  <2>3. Response' \in State
    BY <1>0, <1>1, <2>1, <2>2
  <2> QED BY <1>0, <2>1, <2>2, <2>3 DEF Frame, Ends
<1>26. ASSUME ServerAborts PROVE Frame /\ Kind
  BY <1>0, <1>1, <1>26 DEF ServerAborts, Frame, Ends
<1> HIDE DEF Kind
<1>27. Frame /\ Kind
  BY <1>8, <1>9, <1>10, <1>11, <1>12, <1>13, <1>14, <1>15, <1>16, <1>17, <1>18, <1>20, <1>21,
     <1>22, <1>23, <1>24, <1>25, <1>26 DEF Next
<1> QED BY <1>27 DEF Kind
-----------------------------------------------------------------------------
(***************************************************************************)
(* What every invariant below rests on.                                     *)
(***************************************************************************)
CodesKept(s) == \A i \in 1..Len(chain) : s.layer[i].code # 0

\* What the calls on layer d's writer leave alone.
Effect(s, t, d) ==
  /\ t \in State
  /\ \A i \in 1..Len(chain) : /\ t.layer[i].tries = s.layer[i].tries
                              /\ i > d => t.layer[i] = s.layer[i]
  /\ s.resp.status # 0 => t.resp.status = s.resp.status /\ t.resp.sent = s.resp.sent
  /\ HeadSent(s) => HeadSent(t)
  /\ CodesKept(s) => CodesKept(t)

\* A call, as far as the status and the codes are concerned.
LEMMA CallEffect ==
  ASSUME TypeOK, NEW s \in State, NEW d \in 0..Len(chain), NEW t,
         NEW op \in {"header", "body"}, NEW arg, Arg(op, arg), Change(s, t, d, op, arg)
  PROVE  Effect(s, t, d) /\ (HeadSent(s) /\ op = "body" => t.resp.status # 0)
<1>1. CodesKept(s) => CodesKept(t)
  BY DEF CodesKept, Change, Arg
<1> QED BY <1>1, CallFacts DEF Effect

\* http.Error, likewise.
LEMMA ErrsEffect ==
  ASSUME TypeOK, NEW d \in 0..Len(chain), NEW code \in Nat \ {0}, NEW text \in Chunk,
         Errs(d, code, text)
  PROVE  Effect(Response, Response', d) /\ (HeadSent(Response) => resp'.status # 0)
<1>1. PICK s \in State, t \in State :
        /\ s.layer = layer /\ s.resp.status = resp.status /\ s.resp.sent = resp.sent
        /\ Change(s, t, d, "header", code) /\ Change(t, Response', d, "body", text)
  BY DEF Errs
<1>2. Effect(s, t, d)
  BY <1>1, CallEffect DEF Arg
<1>3. Effect(t, Response', d) /\ (HeadSent(t) => resp'.status # 0)
  BY <1>1, CallEffect DEF Arg, Response
<1>4. /\ Response.layer = s.layer /\ Response.resp.status = s.resp.status
      /\ Response.resp.sent = s.resp.sent
  BY <1>1 DEF Response
<1>5. HeadSent(Response) <=> HeadSent(s)
  BY <1>4 DEF HeadSent
<1>6. CodesKept(Response) <=> CodesKept(s)
  BY <1>4 DEF CodesKept
<1> QED BY <1>2, <1>3, <1>4, <1>5, <1>6 DEF Effect

\* The upstream's answer, likewise.
LEMMA HandlerEffect ==
  ASSUME TypeOK, HandlerAnswers
  PROVE  Effect(Response, Response', Len(chain))
<1>0. Len(chain) \in 0..Len(chain) /\ Response \in State
  BY ChainType, ResponseType
<1>1. ASSUME NEW s \in State, NEW code \in Answers,
             s.layer = layer, s.resp.status = resp.status, s.resp.sent = resp.sent,
             Change(s, Response', Len(chain), "header", code)
      PROVE  Effect(Response, Response', Len(chain))
  <2>1. code \in Nat \ {0}
    BY PipelineAssumption
  <2>2. Effect(s, Response', Len(chain))
    BY <1>0, <1>1, <2>1, CallEffect DEF Arg
  <2>3. /\ Response.layer = s.layer /\ Response.resp.status = s.resp.status
        /\ Response.resp.sent = s.resp.sent
    BY <1>1 DEF Response
  <2>4. HeadSent(Response) <=> HeadSent(s)
    BY <2>3 DEF HeadSent
  <2>5. CodesKept(Response) <=> CodesKept(s)
    BY <2>3 DEF CodesKept
  <2> QED BY <2>2, <2>3, <2>4, <2>5 DEF Effect
<1>2. "answer" \in Chunk
  BY DEF Chunk
<1>3. ASSUME Change(Response, Response', Len(chain), "body", "answer")
      PROVE  Effect(Response, Response', Len(chain))
  BY <1>0, <1>2, <1>3, CallEffect DEF Arg
<1> QED BY <1>1, <1>3 DEF HandlerAnswers

\* Every step, as far as the counters of attempts and the types are concerned.
LEMMA StepEffect ==
  ASSUME Base, Next
  PROVE  /\ HeadSent(Response') /\ CodesKept(Response') /\ Response' \in State
         /\ ~GoesIn /\ ~Retries => \A i \in 1..Len(chain) : layer'[i].tries = layer[i].tries
         /\ resp.status # 0 => resp'.status = resp.status /\ resp'.sent = resp.sent
<1>1. TypeOK /\ Response \in State /\ Len(chain) \in Nat
  BY ResponseType, ChainType DEF Base
<1>2. HeadSent(Response) /\ CodesKept(Response)
  BY <1>1, IndexType DEF Base, Control, GzipHeadSent, HeadSent, CodesKept, Response
<1>3. Frame
  BY StepKinds DEF Base
<1>4. \A i \in 1..Len(chain) : i - 1 \in 0..Len(chain)
  BY <1>1
<1>5. ASSUME NEW d, Effect(Response, Response', d)
      PROVE  /\ HeadSent(Response') /\ CodesKept(Response')
             /\ \A i \in 1..Len(chain) : layer'[i].tries = layer[i].tries
             /\ resp.status # 0 => resp'.status = resp.status /\ resp'.sent = resp.sent
  BY <1>2, <1>5 DEF Effect, Response
<1>6. CASE GoesIn
  <2>1. \A i \in 1..Len(chain) : layer'[i] = layer[i] \/ layer'[i] = FreshLayer
    BY <1>1, <1>6 DEF GoesIn, TypeOK
  <2>2. HeadSent(Response') /\ CodesKept(Response')
    BY <1>2, <1>6, <2>1 DEF GoesIn, SameSent, HeadSent, CodesKept, Response, FreshLayer
  <2> QED BY <1>3, <1>6, <2>2 DEF GoesIn, SameSent, Frame
<1>7. CASE Retries
  <2>1. \A i \in 1..Len(chain) : layer'[i] = layer[i] \/ (layer'[i].code = 200 /\ ~layer'[i].wrote)
    BY <1>1, <1>7 DEF Retries, TypeOK
  <2>2. HeadSent(Response') /\ CodesKept(Response')
    BY <1>2, <1>7, <2>1 DEF Retries, HeadSent, CodesKept, Response
  <2> QED BY <1>3, <1>7, <2>2 DEF Retries, Frame
<1>8. CASE Refuses
  <2>1. PICK code \in {429, 401} : Errs(at - 1, code, "refusal")
    BY <1>8 DEF Refuses
  <2>2. at - 1 \in 0..Len(chain) /\ "refusal" \in Chunk /\ code \in Nat \ {0}
    BY <1>4, <1>8 DEF Refuses, Chunk
  <2> QED BY <1>1, <1>3, <1>5, <2>1, <2>2, ErrsEffect DEF Frame
<1>9. CASE HandlerAnswers
  BY <1>1, <1>3, <1>5, <1>9, HandlerEffect DEF Frame
<1>10. ASSUME UNCHANGED layer, resp'.status # 0 \/ resp.status = 0,
              resp.status # 0 => resp'.status = resp.status /\ resp'.sent = resp.sent
       PROVE  /\ HeadSent(Response') /\ CodesKept(Response')
              /\ \A i \in 1..Len(chain) : layer'[i].tries = layer[i].tries
  BY <1>2, <1>10 DEF HeadSent, CodesKept, Response
<1>11. CASE HandlerEnds \/ ReturnsQuietly \/ Ends
  BY <1>3, <1>10, <1>11 DEF HandlerEnds, ReturnsQuietly, Ends, SameSent, Frame
<1>12. "gzip tail" \in Chunk
  BY DEF Chunk
<1>13. CASE ReturnsCalling
  <2>1. at - 1 \in 0..Len(chain) /\ at \in 1..Len(chain)
    BY <1>4, <1>13 DEF ReturnsCalling, Returns
  <2>2. CASE Change(Response, Response', at - 1, "body", "gzip tail")
    BY <1>1, <1>3, <1>5, <1>12, <2>1, <2>2, CallEffect DEF Frame, Arg
  <2>3. CASE layer[at].code # 0 /\ Change(Response, Response', at - 1, "header", layer[at].code)
    <3>1. layer[at].code \in Nat \ {0}
      BY <1>1, <2>1, <2>3 DEF TypeOK
    <3> QED BY <1>1, <1>3, <1>5, <2>1, <2>3, <3>1, CallEffect DEF Frame, Arg
  <2> QED BY <1>13, <2>2, <2>3 DEF ReturnsCalling
<1>14. CASE Unwinds
  <2>1. at - 1 \in 0..Len(chain)
    BY <1>4, <1>14 DEF Unwinds
  <2>2. CASE Change(Response, Response', at - 1, "body", "gzip tail")
    BY <1>1, <1>3, <1>5, <1>12, <2>1, <2>2, CallEffect DEF Frame, Arg
  <2>3. CASE UNCHANGED <<layer, resp>>
    BY <1>3, <1>10, <2>3 DEF Frame
  <2> QED BY <1>14, <2>2, <2>3 DEF Unwinds
<1>15. CASE Recovers
  <2>1. at - 1 \in 0..Len(chain) /\ "error" \in Chunk /\ 500 \in Nat \ {0}
    BY <1>4, <1>15 DEF Recovers, Chunk
  <2> QED BY <1>1, <1>3, <1>5, <1>15, <2>1, ErrsEffect DEF Frame, Recovers
<1> QED BY <1>6, <1>7, <1>8, <1>9, <1>11, <1>13, <1>14, <1>15, StepKinds DEF Base

\* Base is inductive.
LEMMA BaseNext ==
  ASSUME Base, Next
  PROVE  Base'
<1> DEFINE N == Len(chain)
<1>0. /\ TypeOK /\ Control /\ FreshRetry
      /\ N \in Nat \ {0} /\ Handler = N + 1 /\ DOMAIN chain = 1..N
      /\ at \in 0..Handler /\ layer \in [1..N -> LayerState] /\ left \subseteq 1..N
  BY ChainType DEF Base, TypeOK, LayerState
<1>1. /\ Frame
      /\ \/ GoesIn \/ Refuses \/ HandlerAnswers \/ HandlerEnds \/ ReturnsQuietly
         \/ ReturnsCalling \/ Retries \/ Unwinds \/ Recovers \/ Ends
  BY <1>0, StepKinds
<1>2. /\ UNCHANGED <<chain, saml, private>> /\ assertion' \in BOOLEAN
      /\ layer' \in [1..N -> LayerState] /\ resp' \in Responses
      /\ Handler' = Handler /\ Len(chain') = N
  BY <1>1 DEF Frame, State, Response, Handler
<1>3. /\ HeadSent(Response') /\ CodesKept(Response')
      /\ ~GoesIn /\ ~Retries => \A i \in 1..N : layer'[i].tries = layer[i].tries
      /\ resp.status # 0 => resp'.status # 0
  BY StepEffect
<1> HIDE DEF N
<1>4. /\ at' \in 0..Handler
      /\ going' \in {"in", "out", "panic", "answered", "aborted"}
      /\ did' \in {"none", "header", "body"}
      /\ left' \subseteq 1..N
      /\ panicked' \in {"no", "before", "after"}
      /\ going' = "in" => at' \in 1..Handler /\ left' = {}
      /\ going' = "in" /\ at' < Handler => did' = "none"
      /\ going' \in {"out", "panic"} => at' \in 0..N
      /\ going' = "panic" => left' = {} /\ panicked' # "no"
      /\ \A i \in left' : at' < i
  <2>1. CASE GoesIn \/ Refuses
    BY <1>0, <2>1 DEF GoesIn, Refuses, N, Control, TypeOK
  <2>2. CASE HandlerAnswers \/ HandlerEnds
    BY <1>0, <2>2 DEF HandlerAnswers, HandlerEnds, N, Control, TypeOK
  <2>3. CASE ReturnsQuietly \/ ReturnsCalling
    <3>1. /\ going = "out" /\ at \in 1..N /\ at' = at - 1 /\ going' = "out"
          /\ left' = left \cup {at} /\ UNCHANGED <<did, panicked>>
      BY <2>3 DEF ReturnsQuietly, ReturnsCalling, Returns, N
    <3>2. /\ \A i \in left : at < i
          /\ did \in {"none", "header", "body"} /\ panicked \in {"no", "before", "after"}
      BY <1>0 DEF Control, TypeOK
    <3> QED BY <1>0, <3>1, <3>2
  <2>4. CASE Retries
    BY <1>0, <2>4 DEF Retries, N, Control, TypeOK
  <2>5. CASE Unwinds \/ Recovers
    <3>1. /\ going = "panic" /\ at \in 1..N /\ at' = at - 1 /\ going' \in {"panic", "out"}
          /\ UNCHANGED <<did, left, panicked>>
      BY <2>5 DEF Unwinds, Recovers, N
    <3>2. /\ left = {} /\ panicked # "no"
          /\ did \in {"none", "header", "body"} /\ panicked \in {"no", "before", "after"}
      BY <1>0, <3>1 DEF Control, TypeOK
    <3> QED BY <1>0, <3>1, <3>2
  <2>6. CASE Ends
    BY <1>0, <2>6 DEF Ends, N, Control, TypeOK
  <2> QED BY <1>1, <2>1, <2>2, <2>3, <2>4, <2>5, <2>6
<1>5. going' = "answered" => at' = 0 /\ resp'.status # 0
  BY <1>1 DEF GoesIn, Refuses, HandlerAnswers, HandlerEnds, ReturnsQuietly, ReturnsCalling,
     Returns, Retries, Unwinds, Recovers, Ends, Control
<1>6. TypeOK'
  BY <1>0, <1>2, <1>4 DEF TypeOK, LayerState, Responses, Handler, N
<1>7. Control'
  BY <1>2, <1>3, <1>4, <1>5 DEF Control, CodesKept, Response, N
<1>8. FreshRetry'
  <2> DEFINE r == Index("retry")
  <2>1. /\ ("retry" \in Layers)' <=> "retry" \in Layers
        /\ Index("retry")' = r
    BY <1>2, SameChain
  <2> SUFFICES ASSUME "retry" \in Layers, going' = "in", at' <= r
               PROVE  layer'[r].tries = 1
    BY <2>1 DEF FreshRetry
  <2>2. r \in 1..N /\ chain[r] = "retry"
    BY <1>0, IndexType DEF N
  <2>3. FreshRetry => (going = "in" /\ at <= r => layer[r].tries = 1)
    BY DEF FreshRetry
  <2>4. \A i \in 1..N : chain[i] = "retry" => i = r
    BY <1>0, IndexType DEF N
  <2> HIDE DEF r
  <2>5. CASE GoesIn
    <3>1. layer'[r] = layer[r] \/ layer'[r] = FreshLayer
      BY <1>0, <2>2, <2>5 DEF GoesIn
    <3>2. at <= r /\ going = "in"
      BY <1>0, <2>2, <2>5 DEF GoesIn
    <3> QED BY <1>0, <2>3, <3>1, <3>2 DEF FreshLayer
  <2>6. CASE Retries
    <3>1. at = r
      BY <1>0, <2>4, <2>6 DEF Retries, N
    <3> QED BY <1>0, <2>2, <2>6, <3>1 DEF Retries
  <2>7. CASE ~GoesIn /\ ~Retries
    <3>1. going = "in" /\ at = at'
      BY <1>1, <2>7 DEF Refuses, HandlerAnswers, HandlerEnds, ReturnsQuietly, ReturnsCalling,
         Returns, Unwinds, Recovers, Ends
    <3> QED BY <1>0, <1>3, <2>2, <2>3, <2>7, <3>1
  <2> QED BY <2>5, <2>6, <2>7
<1>9. GzipHeadSent'
  <2>1. "compress" \in Layers => Index("compress") \in 1..N /\ chain[Index("compress")] = "compress"
    BY <1>0, IndexType DEF N
  <2>2. /\ ("compress" \in Layers)' <=> "compress" \in Layers
        /\ Index("compress")' = Index("compress")
    BY <1>2, SameChain
  <2> QED BY <1>3, <2>1, <2>2 DEF GzipHeadSent, HeadSent, Response, N
<1> QED BY <1>6, <1>7, <1>8, <1>9 DEF Base

LEMMA BaseInit ==
  ASSUME Init
  PROVE  /\ Base /\ resp.status = 0 /\ resp.header = {} /\ resp.sent = {}
         /\ \A i \in 1..Len(chain) : layer[i].code = 200 /\ ~layer[i].wrote
         /\ at = 1 /\ going = "in" /\ left = {} /\ panicked = "no"
         /\ private => "cache" \in Layers
<1>1. chain \in Seq(Kinds) /\ chain # <<>> /\ MaxAttempts \in Nat \ {0}
  BY PipelineAssumption DEF Init
<1>2. Len(chain) \in Nat \ {0} /\ DOMAIN chain = 1..Len(chain)
  BY <1>1
<1>3. FreshLayer \in LayerState /\ FreshLayer.code = 200 /\ FreshLayer.tries = 1
      /\ FreshLayer.wrote = FALSE
  BY <1>1 DEF FreshLayer, LayerState
<1>4. resp \in Responses /\ resp.status = 0 /\ resp.header = {} /\ resp.sent = {}
  BY DEF Init, FreshResponse, Responses
<1>5. /\ layer \in [1..Len(chain) -> LayerState]
      /\ \A i \in 1..Len(chain) : layer[i] = FreshLayer
  BY <1>2, <1>3 DEF Init
<1>6. /\ at = 1 /\ going = "in" /\ assertion \in BOOLEAN /\ saml \in BOOLEAN /\ private \in BOOLEAN
      /\ did = "none" /\ left = {} /\ panicked = "no" /\ chain \in Chains
  <2>1. assertion \in BOOLEAN /\ saml \in BOOLEAN
    BY DEF Init
  <2>2. private \in BOOLEAN
    <3>1. ("cache" \in ToSet(chain)) \in BOOLEAN
      OBVIOUS
    <3>2. private = ("cache" \in ToSet(chain)) \/ private = FALSE
      BY DEF Init
    <3> QED BY <3>1, <3>2
  <2> QED BY <2>1, <2>2 DEF Init
<1>7. TypeOK
  BY <1>2, <1>4, <1>5, <1>6 DEF TypeOK, LayerState, Responses, Handler
<1>8. Control
  BY <1>2, <1>3, <1>5, <1>6 DEF Control, Handler
<1>9. FreshRetry /\ GzipHeadSent
  BY <1>3, <1>5, <1>7, IndexType DEF FreshRetry, GzipHeadSent
<1>10. private => "cache" \in Layers
  <2>1. private = ("cache" \in ToSet(chain)) \/ private = FALSE
    BY DEF Init
  <2> QED BY <2>1 DEF ToSet, Layers
<1> QED BY <1>3, <1>4, <1>5, <1>6, <1>7, <1>8, <1>9, <1>10 DEF Base

LEMMA BaseStutters == Base /\ UNCHANGED vars => Base'
BY DEF Base, TypeOK, Control, FreshRetry, GzipHeadSent, vars, Handler, Layers, Index

LEMMA BaseHolds == Spec => []Base
BY BaseInit, BaseNext, BaseStutters, PTL DEF Spec

\* The types of all variables, however long the chain and whatever is in it;
\* Retry never makes more than MaxAttempts attempts.
THEOREM TypeCorrect == Spec => []TypeOK
<1>1. Base => TypeOK
  BY DEF Base
<1> QED BY <1>1, BaseHolds, PTL

LEMMA BaseFacts ==
  ASSUME Base
  PROVE  /\ TypeOK /\ Control /\ Len(chain) \in Nat \ {0} /\ Handler = Len(chain) + 1
         /\ at \in 0..Handler /\ left \subseteq 1..Len(chain) /\ layer \in [1..Len(chain) -> LayerState]
         /\ Response \in State /\ Response.resp = resp /\ Response.layer = layer
         /\ HeadSent(Response)
BY ChainType, ResponseType, IndexType
   DEF Base, TypeOK, LayerState, Response, GzipHeadSent, HeadSent

\* The calls that a step makes are made with these.
LEMMA ArgFacts ==
  /\ \A code \in Nat : code # 0 => Arg("header", code)
  /\ \A code \in Answers : Arg("header", code)
  /\ Arg("header", 500) /\ Arg("body", "answer") /\ Arg("body", "gzip tail")
  /\ Arg("body", "refusal") /\ Arg("body", "error")
BY PipelineAssumption DEF Arg, Chunk
-----------------------------------------------------------------------------
(***************************************************************************)
(* The recorder.                                                            *)
(***************************************************************************)
Recorded(s) == s.layer[1].code = IF s.resp.status = 0 THEN 200 ELSE s.resp.status

\* A call that comes to the outermost recorder leaves it with what the client got.
LEMMA RecordedCall ==
  ASSUME TypeOK, chain[1] = "record", "retry" \notin Layers,
         NEW s \in State, NEW t, NEW d \in 1..Len(chain), NEW op \in {"header", "body"},
         NEW arg, Arg(op, arg), Change(s, t, d, op, arg), Recorded(s),
         op = "header" => s.resp.status = 0
  PROVE  Recorded(t)
<1>1. 1 \in 1..Len(chain) /\ d \in 0..Len(chain) /\ Remembers(1)
  BY ChainType DEF Remembers
<1>2. CASE op = "header"
  <2>1. ~Kept(s.layer, d, op) /\ 1 \in Reached(s.layer, d, op)
    BY <1>1, <1>2, KeptFacts
  <2> QED BY <1>1, <1>2, <2>1 DEF Change, Recorded, Arg
<1>3. CASE op = "body"
  BY <1>1, <1>3 DEF Change, Recorded
<1> QED BY <1>2, <1>3

LEMMA RecorderNext ==
  ASSUME Base, RecorderInv, Next
  PROVE  RecorderInv'
<1>0. /\ TypeOK /\ Control /\ Len(chain) \in Nat \ {0} /\ Handler = Len(chain) + 1
      /\ layer \in [1..Len(chain) -> LayerState] /\ Response \in State
  BY ChainType, ResponseType DEF Base, TypeOK, LayerState
<1>1. /\ Frame
      /\ \/ GoesIn \/ Refuses \/ HandlerAnswers \/ HandlerEnds \/ ReturnsQuietly
         \/ ReturnsCalling \/ Retries \/ Unwinds \/ Recovers \/ Ends
  BY <1>0, StepKinds
<1> SUFFICES ASSUME chain[1] = "record", "retry" \notin Layers, panicked' = "no"
             PROVE  /\ going' = "in" /\ did' = "none" => resp'.status = 0
                    /\ at' > 1 \/ going' # "in" => Recorded(Response')
  BY <1>1, SameChain DEF RecorderInv, Recorded, Response, Frame
<1>2. CASE panicked # "no"
  BY <1>1, <1>2 DEF GoesIn, Refuses, HandlerAnswers, HandlerEnds, ReturnsQuietly, ReturnsCalling,
     Returns, Retries, Unwinds, Recovers, Ends
<1> SUFFICES ASSUME panicked = "no"
             PROVE  /\ going' = "in" /\ did' = "none" => resp'.status = 0
                    /\ at' > 1 \/ going' # "in" => Recorded(Response')
  BY <1>2
<1>3. /\ going = "in" /\ did = "none" => resp.status = 0
      /\ at > 1 \/ going # "in" => Recorded(Response)
      /\ going # "panic"
  BY <1>0 DEF RecorderInv, Recorded, Response, Control
<1>4. \A i \in 1..Len(chain) : chain[i] # "retry" /\ (chain[i] # "record" => i - 1 \in 1..Len(chain))
  BY <1>0, IndexType
<1>5. CASE GoesIn
  <2>1. resp.status = 0 /\ resp'.status = 0
    BY <1>0, <1>3, <1>5 DEF GoesIn, Control, SameSent
  <2>2. CASE at = 1
    <3>1. layer'[1] = FreshLayer
      BY <1>0, <1>5, <2>2 DEF GoesIn, Wrapping
    <3> QED BY <2>1, <3>1 DEF Recorded, Response, FreshLayer
  <2>3. CASE at > 1
    <3>1. layer'[1] = layer[1]
      BY <1>0, <1>5, <2>3 DEF GoesIn
    <3> QED BY <1>3, <2>1, <2>3, <3>1 DEF Recorded, Response
  <2> QED BY <1>0, <1>5, <2>2, <2>3 DEF GoesIn
<1>6. CASE Refuses
  <2>1. PICK code \in {429, 401}, s \in State, t \in State :
          /\ s.layer = layer /\ s.resp.status = resp.status
          /\ Change(s, t, at - 1, "header", code) /\ Change(t, Response', at - 1, "body", "refusal")
    BY <1>6 DEF Refuses, Errs
  <2>2. at - 1 \in 1..Len(chain) /\ at > 1 /\ resp.status = 0 /\ code \in Nat \ {0} /\ "refusal" \in Chunk
    BY <1>0, <1>3, <1>4, <1>6 DEF Refuses, Control, Chunk
  <2>3. Recorded(s)
    BY <1>3, <2>1, <2>2 DEF Recorded, Response
  <2>4. Recorded(t)
    BY <1>0, <2>1, <2>2, <2>3, RecordedCall DEF Arg
  <2>5. Recorded(Response')
    BY <1>0, <2>1, <2>2, <2>4, RecordedCall DEF Arg
  <2> QED BY <1>6, <2>5 DEF Refuses
<1>7. CASE HandlerAnswers
  <2>1. at > 1 /\ Len(chain) \in 1..Len(chain) /\ did' # "none" /\ "answer" \in Chunk
    BY <1>0, <1>7 DEF HandlerAnswers, Chunk
  <2>2. ASSUME NEW s \in State, NEW code \in Answers, did = "none",
               s.layer = layer, s.resp.status = resp.status,
               Change(s, Response', Len(chain), "header", code)
        PROVE  Recorded(Response')
    <3>1. Recorded(s) /\ s.resp.status = 0 /\ code \in Nat \ {0}
      BY <1>3, <1>7, <2>1, <2>2, PipelineAssumption DEF Recorded, Response, HandlerAnswers
    <3> QED BY <1>0, <2>1, <2>2, <3>1, RecordedCall DEF Arg
  <2>3. ASSUME Change(Response, Response', Len(chain), "body", "answer")
        PROVE  Recorded(Response')
    BY <1>0, <1>3, <2>1, <2>3, RecordedCall DEF Arg
  <2> QED BY <1>7, <2>1, <2>2, <2>3 DEF HandlerAnswers
<1>8. CASE HandlerEnds
  BY <1>0, <1>3, <1>8 DEF HandlerEnds, Recorded, Response
<1>9. CASE ReturnsQuietly
  BY <1>3, <1>9 DEF ReturnsQuietly, Returns, SameSent, Recorded, Response
<1>10. CASE ReturnsCalling
  <2>1. /\ at - 1 \in 1..Len(chain) /\ "gzip tail" \in Chunk
        /\ Change(Response, Response', at - 1, "body", "gzip tail")
    BY <1>4, <1>10 DEF ReturnsCalling, Returns, Chunk
  <2>2. Recorded(Response')
    BY <1>0, <1>3, <1>10, <2>1, RecordedCall DEF Arg, ReturnsCalling, Returns
  <2> QED BY <1>10, <2>2 DEF ReturnsCalling, Returns
<1>11. CASE Retries
  BY <1>4, <1>11 DEF Retries
<1>12. CASE Unwinds \/ Recovers
  BY <1>3, <1>12 DEF Unwinds, Recovers
<1>13. CASE Ends
  BY <1>3, <1>13 DEF Ends, Recorded, Response
<1> QED BY <1>1, <1>5, <1>6, <1>7, <1>8, <1>9, <1>10, <1>11, <1>12, <1>13

\* The outermost recorder has what the client gets, with any chain inside it but
\* for Retry.
THEOREM RecordersTruthful == Spec => []RecorderTruthful
<1>1. Init => RecorderInv
  BY BaseInit DEF RecorderInv
<1>2. Base /\ RecorderInv /\ [Next]_vars => RecorderInv'
  <2>1. Base /\ RecorderInv /\ UNCHANGED vars => RecorderInv'
    BY DEF RecorderInv, vars, Layers
  <2> QED BY <2>1, RecorderNext
<1>3. Base /\ RecorderInv => RecorderTruthful
  BY DEF Base, Control, RecorderInv, RecorderTruthful, Answered
<1> QED BY <1>1, <1>2, <1>3, BaseHolds, PTL DEF Spec
-----------------------------------------------------------------------------
(***************************************************************************)
(* A panic.                                                                 *)
(***************************************************************************)
LEMMA PanicNext ==
  ASSUME Base, PanicInv, Next
  PROVE  PanicInv'
<1> DEFINE r == Index("recover")
<1>0. /\ TypeOK /\ Control /\ Len(chain) \in Nat \ {0} /\ Handler = Len(chain) + 1
      /\ at \in 0..Handler
  BY ChainType DEF Base, TypeOK
<1>1. /\ Frame
      /\ \/ GoesIn \/ Refuses \/ HandlerAnswers \/ HandlerEnds \/ ReturnsQuietly
         \/ ReturnsCalling \/ Retries \/ Unwinds \/ Recovers \/ Ends
  BY <1>0, StepKinds
<1>2. resp.status # 0 => resp'.status = resp.status
  BY StepEffect
<1>3. Apart' <=> Apart
  BY <1>1, SameChain DEF Apart, Frame
<1>4. r' = r
  BY <1>1, SameChain DEF Frame
<1> SUFFICES ASSUME Apart, panicked' = "before"
             PROVE  \/ going' = "panic" /\ at' >= r /\ resp'.status = 0
                    \/ going' \in {"out", "answered"} /\ at' < r /\ resp'.status = 500
  BY <1>3, <1>4 DEF PanicInv
<1>5. /\ r \in 1..Len(chain) /\ "recover" \in Layers
      /\ \A i \in 1..Len(chain) : /\ chain[i] = "recover" <=> i = r
                                  /\ chain[i] = "compress" => i < r
                                  /\ chain[i] = "retry" => r < i
      /\ ~("retry" \in Layers /\ Index("retry") <= r - 1)
  BY <1>0, IndexType DEF Apart
<1>6. panicked = "before" =>
        \/ going = "panic" /\ at >= r /\ resp.status = 0
        \/ going \in {"out", "answered"} /\ at < r /\ resp.status = 500
  BY DEF PanicInv
<1> HIDE DEF r
<1>7. CASE HandlerEnds
  <2>1. panicked # "before" /\ going' = "panic"
    BY <1>6, <1>7 DEF HandlerEnds
  <2> QED BY <1>0, <1>5, <1>7, <2>1 DEF HandlerEnds
<1>8. CASE GoesIn \/ Refuses \/ HandlerAnswers
  BY <1>6, <1>8 DEF GoesIn, Refuses, HandlerAnswers
<1>9. CASE ReturnsQuietly \/ ReturnsCalling
  <2>1. going = "out" /\ at \in 1..Len(chain) /\ at' = at - 1 /\ going' = "out" /\ UNCHANGED panicked
    BY <1>9 DEF ReturnsQuietly, ReturnsCalling, Returns
  <2> QED BY <1>2, <1>5, <1>6, <2>1
<1>10. CASE Retries
  BY <1>5, <1>6, <1>10 DEF Retries
<1>11. CASE Unwinds
  <2>1. /\ going = "panic" /\ at \in 1..Len(chain) /\ at' = at - 1 /\ going' = "panic"
        /\ chain[at] # "recover" /\ UNCHANGED panicked
    BY <1>11 DEF Unwinds
  <2>2. at > r /\ resp.status = 0
    BY <1>5, <1>6, <2>1
  <2>3. UNCHANGED resp
    <3>1. chain[at] # "compress"
      BY <1>0, <1>5, <2>1, <2>2
    <3> QED BY <1>11, <3>1 DEF Unwinds
  <2> QED BY <1>5, <2>1, <2>2, <2>3
<1>12. CASE Recovers
  <2>1. /\ at = r /\ at' = r - 1 /\ going' = "out" /\ resp.status = 0
        /\ r - 1 \in 0..Len(chain) /\ Errs(r - 1, 500, "error")
    BY <1>0, <1>5, <1>6, <1>12 DEF Recovers
  <2>2. PICK s \in State, t \in State :
          /\ s.resp.status = 0
          /\ Change(s, t, r - 1, "header", 500) /\ Change(t, Response', r - 1, "body", "error")
    BY <2>1 DEF Errs
  <2>3. ~Kept(s.layer, r - 1, "header")
    BY <1>0, <1>5, <2>1, KeptFacts
  <2>4. t.resp.status = 500
    BY <2>2, <2>3 DEF Change
  <2>5. resp'.status = 500
    BY <2>2, <2>4 DEF Change, Response
  <2> QED BY <1>5, <2>1, <2>5
<1>13. CASE Ends
  BY <1>2, <1>5, <1>6, <1>13 DEF Ends
<1> QED BY <1>1, <1>7, <1>8, <1>9, <1>10, <1>11, <1>12, <1>13

\* A client that has been sent nothing gets a 500, when Compress is not inside
\* Recover, nor Retry outside, and anything else anywhere.
THEOREM PanicAnswered == Spec => []PanicGets500Alone
<1>1. Init => PanicInv
  BY BaseInit DEF PanicInv
<1>2. Base /\ PanicInv /\ [Next]_vars => PanicInv'
  <2>1. Base /\ PanicInv /\ UNCHANGED vars => PanicInv'
    BY DEF PanicInv, Apart, vars, Layers, Index
  <2> QED BY <2>1, PanicNext
<1>3. PanicInv => PanicGets500Alone
  BY DEF PanicInv, Apart, PanicGets500Alone, PanicGets500, Answered
<1> QED BY <1>1, <1>2, <1>3, BaseHolds, PTL DEF Spec
-----------------------------------------------------------------------------
(***************************************************************************)
(* ResponseHeaders.                                                         *)
(***************************************************************************)
\* ResponseHeaders outside Retry: a call that fixes the header has passed it.
PassedOut(s) == Upstream \notin s.resp.sent /\ (s.layer[Rx].wrote => s.resp.status # 0)

\* Retry outside ResponseHeaders, or not there: the field is nowhere.
Nowhere(s) == Upstream \notin s.resp.header /\ Upstream \notin s.resp.sent

LEMMA RewriteCall ==
  ASSUME TypeOK, "rewrite" \in Layers,
         NEW s \in State, NEW t, NEW d \in 0..Len(chain), NEW op \in {"header", "body"},
         NEW arg, Arg(op, arg), Change(s, t, d, op, arg), HeadSent(s)
  PROVE  /\ t \in State /\ HeadSent(t)
         /\ Nowhere(s) => Nowhere(t)
         /\ Around("rewrite", "retry") /\ d >= Rx /\ PassedOut(s) => PassedOut(t)
         /\ d < Rx => t.layer[Rx] = s.layer[Rx]
<1>0. Rx \in 1..Len(chain) /\ chain[Rx] = "rewrite" /\ Len(chain) \in Nat
  BY ChainType, IndexType DEF Rx
<1>1. t \in State /\ HeadSent(t) /\ (d < Rx => t.layer[Rx] = s.layer[Rx])
      /\ (s.resp.status # 0 => t.resp.status = s.resp.status /\ t.resp.sent = s.resp.sent)
  BY <1>0, CallFacts
<1>2. ASSUME Nowhere(s) PROVE Nowhere(t)
  <2>1. Upstream \notin t.resp.header
    BY <1>2, HeaderFacts DEF Change, Nowhere
  <2>2. t.resp.sent = s.resp.sent \/ t.resp.sent = t.resp.header
    BY DEF Change
  <2> QED BY <1>2, <2>1, <2>2 DEF Nowhere
<1>3. ASSUME Around("rewrite", "retry"), d >= Rx, PassedOut(s) PROVE PassedOut(t)
  <2>1. "retry" \in Layers /\ Rx < Index("retry") /\ Index("retry") \in 1..Len(chain)
    BY <1>3, IndexType DEF Around, Rx
  <2>2. CASE s.resp.status # 0
    BY <1>1, <1>3, <2>2 DEF PassedOut
  <2>3. CASE s.resp.status = 0 /\ Kept(s.layer, d, op)
    <3>1. op = "header"
      <4>1. ~Kept(s.layer, d, "body")
        BY <2>3, KeptFacts, IndexType DEF HeadSent
      <4> QED BY <2>3, <4>1
    <3>2. Rx \notin Reached(s.layer, d, op)
      BY <1>0, <2>1, <2>3, <3>1, KeptFacts
    <3> QED BY <1>0, <1>3, <2>3, <3>2 DEF Change, PassedOut
  <2>4. CASE s.resp.status = 0 /\ ~Kept(s.layer, d, op)
    <3>1. Rx \in Reached(s.layer, d, op)
      BY <1>0, <1>3, <2>1, <2>4, KeptFacts
    <3>2. Upstream \notin t.resp.header
      BY <1>0, <1>3, <2>4, <3>1, HeaderFacts DEF Change, PassedOut
    <3> QED BY <2>4, <3>2 DEF Change, PassedOut, Arg
  <2> QED BY <2>2, <2>3, <2>4
<1> QED BY <1>1, <1>2, <1>3

\* http.Error is two such calls.
LEMMA RewriteErrs ==
  ASSUME Base, "rewrite" \in Layers, NEW d \in 0..Len(chain), NEW code, NEW text,
         Arg("header", code), Arg("body", text), Errs(d, code, text)
  PROVE  /\ Nowhere(Response) => Nowhere(Response')
         /\ Around("rewrite", "retry") /\ d >= Rx /\ PassedOut(Response) => PassedOut(Response')
         /\ d < Rx => layer'[Rx] = layer[Rx]
<1>1. PICK s \in State, t \in State :
        /\ s.layer = layer /\ s.resp.status = resp.status /\ s.resp.sent = resp.sent
        /\ Upstream \in s.resp.header <=> Upstream \in resp.header
        /\ Change(s, t, d, "header", code) /\ Change(t, Response', d, "body", text)
  BY DEF Errs
<1>2. HeadSent(s) /\ (Nowhere(Response) => Nowhere(s)) /\ (PassedOut(Response) => PassedOut(s))
      /\ Response'.layer = layer' /\ TypeOK
  BY <1>1, BaseFacts DEF HeadSent, Nowhere, PassedOut, Response
<1>3. /\ HeadSent(t) /\ (Nowhere(s) => Nowhere(t)) /\ (d < Rx => t.layer[Rx] = s.layer[Rx])
      /\ Around("rewrite", "retry") /\ d >= Rx /\ PassedOut(s) => PassedOut(t)
  BY <1>1, <1>2, RewriteCall
<1>4. /\ Nowhere(t) => Nowhere(Response')
      /\ d < Rx => Response'.layer[Rx] = t.layer[Rx]
      /\ Around("rewrite", "retry") /\ d >= Rx /\ PassedOut(t) => PassedOut(Response')
  BY <1>1, <1>2, <1>3, RewriteCall
<1> QED BY <1>1, <1>2, <1>3, <1>4

\* ResponseHeaders around Retry: what leaves Retry has passed it.
LEMMA RewriteOutside ==
  ASSUME Base, "rewrite" \in Layers, Around("rewrite", "retry"), RewriteInv, Next
  PROVE  RewriteInv'
<1> DEFINE Out(d) == /\ d >= Rx => (PassedOut(Response) => PassedOut(Response'))
                     /\ d < Rx => layer'[Rx] = layer[Rx]
<1>0. /\ TypeOK /\ Control /\ Len(chain) \in Nat \ {0} /\ Handler = Len(chain) + 1
      /\ layer \in [1..Len(chain) -> LayerState] /\ Response \in State /\ HeadSent(Response)
      /\ at \in 0..Handler /\ Rx \in 1..Len(chain) /\ chain[Rx] = "rewrite"
  BY BaseFacts, IndexType DEF Rx
<1>1. /\ Frame
      /\ \/ GoesIn \/ Refuses \/ HandlerAnswers \/ HandlerEnds \/ ReturnsQuietly
         \/ ReturnsCalling \/ Retries \/ Unwinds \/ Recovers \/ Ends
  BY <1>0, StepKinds
<1>2. resp.status # 0 => resp'.status = resp.status /\ resp'.sent = resp.sent
  BY StepEffect
<1>3. /\ going = "in" \/ at >= Rx => Upstream \notin resp.sent
      /\ layer[Rx].wrote => resp.status # 0 /\ Upstream \notin resp.sent
  BY DEF RewriteInv
<1>4. going = "in" \/ at >= Rx => PassedOut(Response)
  BY <1>3 DEF PassedOut, Response
<1> SUFFICES /\ going' = "in" \/ at' >= Rx => Upstream \notin resp'.sent
             /\ layer'[Rx].wrote => resp'.status # 0 /\ Upstream \notin resp'.sent
  BY <1>1, SameChain DEF RewriteInv, Rx, Frame
<1>5. ASSUME NEW d \in 0..Len(chain), NEW op \in {"header", "body"}, NEW arg, Arg(op, arg),
             Change(Response, Response', d, op, arg)
      PROVE  Out(d)
  <2>1. Response'.layer = layer' /\ Response.layer = layer
    BY DEF Response
  <2> QED BY <1>0, <1>5, <2>1, RewriteCall
<1>6. ASSUME Out(at - 1), going' # "in", at \in 1..Len(chain), at' = at - 1
      PROVE  /\ at' >= Rx => Upstream \notin resp'.sent
             /\ layer'[Rx].wrote => resp'.status # 0 /\ Upstream \notin resp'.sent
  <2>1. CASE at - 1 >= Rx
    BY <1>0, <1>4, <1>6, <2>1 DEF PassedOut, Response
  <2>2. CASE at - 1 < Rx
    BY <1>0, <1>2, <1>3, <1>6, <2>2
  <2> QED BY <1>0, <1>6, <2>1, <2>2
<1>7. \A i \in 1..Len(chain) : i - 1 \in 0..Len(chain)
  BY <1>0
<1>8. CASE GoesIn
  <2>1. layer'[Rx].wrote => layer[Rx].wrote
    BY <1>0, <1>8 DEF GoesIn, FreshLayer
  <2> QED BY <1>3, <1>8, <2>1 DEF GoesIn, SameSent
<1>9. CASE Refuses
  <2>1. Out(at - 1)
    <3>1. PICK code \in {429, 401} : Errs(at - 1, code, "refusal")
      BY <1>9 DEF Refuses
    <3>2. at - 1 \in 0..Len(chain)
      BY <1>7, <1>9 DEF Refuses
    <3>3. code \in Nat /\ code # 0
      OBVIOUS
    <3> QED BY <3>1, <3>2, <3>3, ArgFacts, RewriteErrs
  <2> QED BY <1>6, <1>9, <2>1 DEF Refuses
<1>10. CASE HandlerAnswers
  <2>1. PassedOut(Response')
    <3>1. Len(chain) \in 0..Len(chain) /\ Len(chain) >= Rx /\ PassedOut(Response)
      BY <1>0, <1>4, <1>10 DEF HandlerAnswers
    <3>2. ASSUME NEW s \in State, NEW code \in Answers,
                 s.layer = layer, s.resp.status = resp.status, s.resp.sent = resp.sent,
                 Change(s, Response', Len(chain), "header", code)
          PROVE  PassedOut(Response')
      <4>1. PassedOut(s) /\ HeadSent(s)
        BY <1>0, <3>1, <3>2 DEF PassedOut, HeadSent, Response
      <4>2. Arg("header", code)
        BY ArgFacts
      <4> QED BY <1>0, <3>1, <3>2, <4>1, <4>2, RewriteCall
    <3>3. ASSUME Change(Response, Response', Len(chain), "body", "answer")
          PROVE  PassedOut(Response')
      BY <1>5, <3>1, <3>3, ArgFacts
    <3> QED BY <1>10, <3>2, <3>3 DEF HandlerAnswers
  <2> QED BY <2>1 DEF PassedOut, Response
<1>11. CASE HandlerEnds
  BY <1>3, <1>11 DEF HandlerEnds
<1>12. CASE ReturnsQuietly
  BY <1>0, <1>3, <1>12 DEF ReturnsQuietly, Returns, SameSent
<1>13. CASE ReturnsCalling
  <2>1. at \in 1..Len(chain) /\ at - 1 \in 0..Len(chain) /\ layer[at].code \in Nat
    BY <1>0, <1>7, <1>13 DEF ReturnsCalling, Returns, LayerState
  <2>2. Out(at - 1)
    BY <1>5, <1>13, <2>1, ArgFacts DEF ReturnsCalling
  <2> QED BY <1>6, <1>13, <2>2 DEF ReturnsCalling, Returns
<1>14. CASE Retries
  <2>1. at > Rx
    BY <1>0, <1>14, IndexType DEF Retries, Around, Rx
  <2>2. layer'[Rx] = layer[Rx]
    BY <1>0, <1>14, <2>1 DEF Retries
  <2> QED BY <1>0, <1>3, <1>14, <2>1, <2>2 DEF Retries
<1>15. CASE Unwinds
  <2>1. at \in 1..Len(chain) /\ at - 1 \in 0..Len(chain) /\ at' = at - 1 /\ going' = "panic"
    BY <1>7, <1>15 DEF Unwinds
  <2>2. CASE Change(Response, Response', at - 1, "body", "gzip tail")
    <3>1. Out(at - 1)
      BY <1>5, <2>1, <2>2, ArgFacts
    <3> QED BY <1>6, <2>1, <3>1
  <2>3. CASE UNCHANGED <<layer, resp>>
    BY <1>0, <1>3, <2>1, <2>3
  <2> QED BY <1>15, <2>2, <2>3 DEF Unwinds
<1>16. CASE Recovers
  <2>1. Out(at - 1)
    <3>1. at - 1 \in 0..Len(chain)
      BY <1>7, <1>16 DEF Recovers
    <3>2. Arg("header", 500) /\ Arg("body", "error")
      BY ArgFacts
    <3>3. Errs(at - 1, 500, "error")
      BY <1>16 DEF Recovers
    <3>4. /\ Around("rewrite", "retry") /\ at - 1 >= Rx /\ PassedOut(Response) => PassedOut(Response')
          /\ at - 1 < Rx => layer'[Rx] = layer[Rx]
      BY <3>1, <3>2, <3>3, RewriteErrs
    <3> QED BY <3>4
  <2> QED BY <1>6, <1>16, <2>1 DEF Recovers
<1>17. CASE Ends
  BY <1>0, <1>2, <1>3, <1>17 DEF Ends
<1> QED BY <1>1, <1>8, <1>9, <1>10, <1>11, <1>12, <1>13, <1>14, <1>15, <1>16, <1>17

\* ResponseHeaders inside Retry, or without it: it sees every answer first.
LEMMA RewriteInside ==
  ASSUME Base, "rewrite" \in Layers, ~Around("rewrite", "retry"), RewriteInv, Next
  PROVE  RewriteInv'
<1>0. /\ TypeOK /\ Control /\ Len(chain) \in Nat \ {0} /\ Handler = Len(chain) + 1
      /\ layer \in [1..Len(chain) -> LayerState] /\ Response \in State /\ HeadSent(Response)
      /\ at \in 0..Handler /\ Rx \in 1..Len(chain) /\ chain[Rx] = "rewrite"
      /\ Response.resp = resp /\ Response.layer = layer
  BY BaseFacts, IndexType DEF Rx
<1>1. /\ Frame
      /\ \/ GoesIn \/ Refuses \/ HandlerAnswers \/ HandlerEnds \/ ReturnsQuietly
         \/ ReturnsCalling \/ Retries \/ Unwinds \/ Recovers \/ Ends
  BY <1>0, StepKinds
<1>2. /\ Nowhere(Response)
      /\ going = "in" /\ did = "none" /\ at > Rx => ~layer[Rx].wrote
  BY <1>0 DEF RewriteInv, Nowhere
<1>3. "retry" \in Layers => Index("retry") \in 1..Len(chain) /\ Index("retry") < Rx
  <2>1. "retry" \in Layers => Index("retry") \in 1..Len(chain) /\ chain[Index("retry")] = "retry"
    BY <1>0, IndexType
  <2> QED BY <1>0, <2>1 DEF Around, Rx
<1>4. \A i \in 1..Len(chain) : i - 1 \in 0..Len(chain) /\ (chain[i] = "retry" => i < Rx)
  BY <1>0, <1>3, IndexType
<1> SUFFICES /\ Nowhere(Response')
             /\ going' = "in" /\ did' = "none" /\ at' > Rx => ~layer'[Rx].wrote
  <2>1. Response'.resp = resp'
    BY DEF Response
  <2> QED BY <1>1, <2>1, SameChain DEF RewriteInv, Rx, Frame, Nowhere
<1>5. ASSUME NEW d \in 0..Len(chain), NEW op \in {"header", "body"}, NEW arg, Arg(op, arg),
             Change(Response, Response', d, op, arg)
      PROVE  Nowhere(Response')
  <2>1. TypeOK /\ Response \in State /\ HeadSent(Response)
    BY <1>0
  <2> DEFINE t == Response'
  <2>2. Change(Response, t, d, op, arg) /\ Nowhere(Response)
    BY <1>2, <1>5
  <2> HIDE DEF t
  <2>3. Nowhere(t)
    BY <1>5, <2>1, <2>2, RewriteCall
  <2> QED BY <2>3 DEF t
<1>6. ASSUME NEW d \in 0..Len(chain), NEW code, NEW text, Arg("header", code), Arg("body", text),
             Errs(d, code, text)
      PROVE  Nowhere(Response')
  BY <1>2, <1>6, RewriteErrs
<1>7. ASSUME resp'.sent = resp.sent \/ resp'.sent = resp.header,
             Upstream \in resp'.header => Upstream \in resp.header
      PROVE  Nowhere(Response')
  BY <1>2, <1>7 DEF Nowhere, Response
<1>8. CASE GoesIn
  <2>1. Nowhere(Response')
    BY <1>7, <1>8 DEF GoesIn, SameSent, SameField
  <2>2. CASE at = Rx
    <3>1. layer'[Rx] = FreshLayer
      BY <1>0, <1>8, <2>2 DEF GoesIn, Wrapping
    <3> QED BY <2>1, <3>1 DEF FreshLayer
  <2>3. CASE at # Rx
    <3>1. layer'[Rx] = layer[Rx] /\ (at' > Rx => at > Rx) /\ did' = did /\ going = "in"
      BY <1>0, <1>8, <2>3 DEF GoesIn
    <3> QED BY <1>2, <2>1, <3>1
  <2> QED BY <2>2, <2>3
<1>9. CASE Refuses
  <2>1. PICK code \in {429, 401} : Errs(at - 1, code, "refusal")
    BY <1>9 DEF Refuses
  <2>2. at - 1 \in 0..Len(chain) /\ going' = "out"
    BY <1>4, <1>9 DEF Refuses
  <2>3. code \in Nat /\ code # 0
    OBVIOUS
  <2> QED BY <1>6, <2>1, <2>2, <2>3, ArgFacts
<1>10. CASE HandlerAnswers
  <2>1. Len(chain) \in 0..Len(chain) /\ did' # "none" /\ going = "in" /\ at > Rx
    BY <1>0, <1>10 DEF HandlerAnswers
  <2>2. ASSUME NEW s \in State, NEW code \in Answers, did = "none", s.layer = layer,
               s.resp.sent = resp.sent, Change(s, Response', Len(chain), "header", code)
        PROVE  Nowhere(Response')
    <3>1. Rx \in Reached(s.layer, Len(chain), "header") /\ ~s.layer[Rx].wrote
      BY <1>0, <1>2, <1>3, <2>1, <2>2, KeptFacts
    <3>2. Upstream \notin Response'.resp.header
      BY <1>0, <2>2, <3>1, HeaderFacts DEF Change
    <3>3. Response'.resp.sent = s.resp.sent \/ Response'.resp.sent = Response'.resp.header
      BY <2>2 DEF Change
    <3> QED BY <1>0, <1>2, <2>2, <3>2, <3>3 DEF Nowhere
  <2>3. ASSUME Change(Response, Response', Len(chain), "body", "answer")
        PROVE  Nowhere(Response')
    BY <1>5, <2>1, <2>3, ArgFacts
  <2> QED BY <1>10, <2>1, <2>2, <2>3 DEF HandlerAnswers
<1>11. CASE HandlerEnds
  BY <1>7, <1>11 DEF HandlerEnds
<1>12. CASE ReturnsQuietly
  BY <1>7, <1>12 DEF ReturnsQuietly, Returns, SameSent, SameField
<1>13. CASE ReturnsCalling
  <2>1. at - 1 \in 0..Len(chain) /\ layer[at].code \in Nat /\ going' = "out"
    BY <1>0, <1>4, <1>13 DEF ReturnsCalling, Returns, LayerState
  <2> QED BY <1>5, <1>13, <2>1, ArgFacts DEF ReturnsCalling
<1>14. CASE Retries
  <2>1. at' <= Rx
    BY <1>0, <1>4, <1>14 DEF Retries
  <2> QED BY <1>0, <1>7, <1>14, <2>1 DEF Retries
<1>15. CASE Unwinds
  <2>1. at - 1 \in 0..Len(chain) /\ going' = "panic"
    BY <1>4, <1>15 DEF Unwinds
  <2>2. CASE Change(Response, Response', at - 1, "body", "gzip tail")
    BY <1>5, <2>1, <2>2, ArgFacts
  <2>3. CASE UNCHANGED <<layer, resp>>
    BY <1>7, <2>1, <2>3
  <2> QED BY <1>15, <2>2, <2>3 DEF Unwinds
<1>16. CASE Recovers
  <2>1. at - 1 \in 0..Len(chain) /\ going' = "out" /\ Errs(at - 1, 500, "error")
    BY <1>4, <1>16 DEF Recovers
  <2>2. 500 \in Nat /\ 500 # 0
    OBVIOUS
  <2> QED BY <1>6, <2>1, <2>2, ArgFacts
<1>17. CASE Ends
  <2>1. resp'.sent = resp.sent \/ resp'.sent = resp.header
    BY <1>17 DEF Ends
  <2>2. resp'.header = resp.header /\ going' # "in"
    BY <1>17 DEF Ends
  <2> QED BY <1>7, <2>1, <2>2
<1> QED BY <1>1, <1>8, <1>9, <1>10, <1>11, <1>12, <1>13, <1>14, <1>15, <1>16, <1>17

\* What ResponseHeaders is to remove does not reach the client in an answer
\* written through it, in any chain and on any attempt.
THEOREM UpstreamHeadersRemoved == Spec => []UpstreamHeaderRemoved
<1>1. Init => RewriteInv
  <2> SUFFICES ASSUME Init PROVE RewriteInv
    OBVIOUS
  <2>1. "rewrite" \in Layers => Rx \in 1..Len(chain)
    BY BaseInit, BaseFacts, IndexType DEF Rx
  <2> QED BY <2>1, BaseInit DEF RewriteInv
<1>2. Base /\ RewriteInv /\ [Next]_vars => RewriteInv'
  <2>1. Base /\ RewriteInv /\ UNCHANGED vars => RewriteInv'
    BY DEF RewriteInv, vars, Layers, Index, Around, Rx
  <2>2. ASSUME Base, RewriteInv, Next, "rewrite" \notin Layers PROVE RewriteInv'
    <3>1. Frame
      BY <2>2, StepKinds DEF Base
    <3> QED BY <2>2, <3>1, SameChain DEF RewriteInv, Frame
  <2> QED BY <2>1, <2>2, RewriteOutside, RewriteInside
<1>3. Base /\ RewriteInv => UpstreamHeaderRemoved
  BY DEF RewriteInv, UpstreamHeaderRemoved, Answered, Sent, Upstream, Rx
<1> QED BY <1>1, <1>2, <1>3, BaseHolds, PTL DEF Spec
-----------------------------------------------------------------------------
(***************************************************************************)
(* A layer inside Retry that a request does not get to.                     *)
(***************************************************************************)
LEMMA ErrsKept ==
  ASSUME Base, "retry" \in Layers, NEW d \in 0..Len(chain), Index("retry") <= d,
         NEW code, NEW text, Arg("header", code), Arg("body", text), Errs(d, code, text)
  PROVE  layer'[Index("retry")].code = code
<1> DEFINE r == Index("retry")
<1>0. TypeOK /\ r \in 1..Len(chain) /\ chain[r] = "retry" /\ Len(chain) \in Nat
  BY BaseFacts, IndexType
<1>1. PICK s \in State, t \in State :
        /\ s.layer = layer /\ s.resp.status = resp.status
        /\ Change(s, t, d, "header", code) /\ Change(t, Response', d, "body", text)
  BY DEF Errs
<1>2. r \in Reached(s.layer, d, "header") /\ Kept(s.layer, d, "header") /\ Remembers(r)
  BY <1>0, KeptFacts DEF Remembers
<1>3. t.layer[r].code = code 
  BY <1>0, <1>1, <1>2 DEF Change
<1>4. Response'.layer[r].code = t.layer[r].code
  BY <1>0, <1>1 DEF Change
<1> QED BY <1>3, <1>4 DEF Response

\* An answer that does not come through a layer inside Retry leaves Retry with a
\* refusal.
LEMMA RefusedNext ==
  ASSUME Base, Next, NEW name, RefusedOutside(name)
  PROVE  RefusedOutside(name)'
<1> DEFINE r == Index("retry")
           x == Index(name)
<1>0. /\ TypeOK /\ Control /\ Len(chain) \in Nat \ {0} /\ Handler = Len(chain) + 1
      /\ at \in 0..Handler
  BY BaseFacts
<1>1. /\ Frame
      /\ \/ GoesIn \/ Refuses \/ HandlerAnswers \/ HandlerEnds \/ ReturnsQuietly
         \/ ReturnsCalling \/ Retries \/ Unwinds \/ Recovers \/ Ends
  BY <1>0, StepKinds
<1> SUFFICES ASSUME Around("retry", name), going' = "out", at' \in r..x - 1, x \notin left'
             PROVE  layer'[r].code \in Refusals
  <2>1. /\ Around("retry", name)' <=> Around("retry", name)
        /\ Index("retry")' = r /\ Index(name)' = x
    BY <1>1, SameChain DEF Frame
  <2> QED BY <2>1 DEF RefusedOutside
<1>2. /\ "retry" \in Layers /\ r \in 1..Len(chain) /\ x \in 1..Len(chain) /\ r < x
      /\ chain[r] = "retry" /\ \A i \in 1..Len(chain) : chain[i] = "retry" => i = r
      /\ \A i \in 1..Len(chain) : i - 1 \in 0..Len(chain)
  BY <1>0, IndexType DEF Around
<1>3. going = "out" /\ at \in r..x - 1 /\ x \notin left => layer[r].code \in Refusals
  BY DEF RefusedOutside
<1> HIDE DEF x
<1>4. CASE Refuses
  <2>1. PICK code \in {429, 401} : Errs(at - 1, code, "refusal")
    BY <1>4 DEF Refuses
  <2>2. at - 1 \in 0..Len(chain) /\ r <= at - 1
    BY <1>2, <1>4 DEF Refuses
  <2>3. code \in Nat /\ code # 0
    OBVIOUS
  <2>4. layer'[r].code = code
    <3>1. Arg("header", code) /\ Arg("body", "refusal")
      BY <2>3, ArgFacts
    <3> QED BY <1>2, <2>1, <2>2, <3>1, ErrsKept
  <2> QED BY <2>4 DEF Refusals
<1>5. CASE Recovers
  <2>1. at - 1 \in 0..Len(chain) /\ r <= at - 1 /\ Errs(at - 1, 500, "error")
    BY <1>2, <1>5 DEF Recovers
  <2>2. 500 \in Nat /\ 500 # 0
    OBVIOUS
  <2>3. layer'[r].code = 500
    BY <1>2, <2>1, <2>2, ArgFacts, ErrsKept
  <2> QED BY <2>3 DEF Refusals
<1>6. CASE ReturnsQuietly \/ ReturnsCalling
  <2>1. going = "out" /\ at \in 1..Len(chain) /\ at' = at - 1 /\ left' = left \cup {at}
    BY <1>6 DEF ReturnsQuietly, ReturnsCalling, Returns
  <2>2. at \in r..x - 1 /\ at # r /\ x \notin left
    BY <1>2, <2>1
  <2>3. layer'[r].code = layer[r].code
    <3>1. CASE ReturnsQuietly
      BY <3>1 DEF ReturnsQuietly
    <3>2. CASE ReturnsCalling
      <4>1. Change(Response, Response', at - 1, "body", "gzip tail")
        BY <1>2, <2>1, <2>2, <3>2 DEF ReturnsCalling
      <4> QED BY <1>2, <4>1 DEF Change, Response
    <3> QED BY <1>6, <3>1, <3>2
  <2> QED BY <1>3, <2>1, <2>2, <2>3
<1>7. CASE HandlerEnds
  BY <1>0, <1>2, <1>7 DEF HandlerEnds
<1>8. CASE GoesIn \/ HandlerAnswers \/ Retries \/ Unwinds \/ Ends
  BY <1>8 DEF GoesIn, HandlerAnswers, Retries, Unwinds, Ends
<1> QED BY <1>1, <1>4, <1>5, <1>6, <1>7, <1>8
-----------------------------------------------------------------------------
(***************************************************************************)
(* SecurityHeaders.                                                         *)
(***************************************************************************)
Injects(s) == s.layer[Sx].wrote => Deny \in s.resp.header
DenySent(s) == s.resp.status # 0 => Deny \in s.resp.sent

\* What calls on layer d's writer keep.
Secured(s, t, d) ==
  /\ Injects(s) => Injects(t)
  /\ Deny \in s.resp.header => Deny \in t.resp.header
  /\ (d >= Sx \/ Deny \in s.resp.header) /\ Injects(s) /\ DenySent(s) => DenySent(t)

\* A call through SecurityHeaders puts the header into the map before anything is
\* sent.
LEMMA SecurityCall ==
  ASSUME TypeOK, "security" \in Layers,
         NEW s \in State, NEW t, NEW d \in 0..Len(chain), NEW op \in {"header", "body"},
         NEW arg, Change(s, t, d, op, arg)
  PROVE  Secured(s, t, d)
<1>0. Sx \in 1..Len(chain) /\ chain[Sx] = "security" /\ Len(chain) \in Nat
  BY ChainType, IndexType DEF Sx
<1>1. /\ Deny \in s.resp.header => Deny \in t.resp.header
      /\ Sx \in Reached(s.layer, d, op) /\ ~s.layer[Sx].wrote => Deny \in t.resp.header
  BY <1>0, HeaderFacts DEF Change
<1>2. Injects(s) => Injects(t)
  BY <1>0, <1>1 DEF Change, Injects
<1>3. ASSUME d >= Sx \/ Deny \in s.resp.header, Injects(s), DenySent(s)
      PROVE  DenySent(t)
  <2>1. CASE s.resp.status # 0 \/ Kept(s.layer, d, op)
    BY <1>3, <2>1 DEF Change, DenySent
  <2>2. CASE s.resp.status = 0 /\ ~Kept(s.layer, d, op)
    <3>1. d >= Sx => Sx \in Reached(s.layer, d, op)
      BY <1>0, <2>2, KeptFacts
    <3>2. Deny \in t.resp.header
      BY <1>1, <1>3, <3>1 DEF Injects
    <3> QED BY <2>2, <3>2 DEF Change, DenySent
  <2> QED BY <2>1, <2>2
<1> QED BY <1>1, <1>2, <1>3 DEF Secured

LEMMA SecurityErrs ==
  ASSUME TypeOK, "security" \in Layers, NEW d \in 0..Len(chain), NEW code, NEW text,
         Errs(d, code, text)
  PROVE  Secured(Response, Response', d)
<1>1. PICK s \in State, t \in State :
        /\ s.layer = layer /\ s.resp.status = resp.status /\ s.resp.sent = resp.sent
        /\ Deny \in s.resp.header <=> Deny \in resp.header
        /\ Change(s, t, d, "header", code) /\ Change(t, Response', d, "body", text)
  BY DEF Errs
<1>2. Secured(s, t, d) /\ Secured(t, Response', d)
  BY <1>1, SecurityCall
<1>3. Secured(Response, t, d)
  BY <1>1, <1>2 DEF Secured, Injects, DenySent, Response
<1> QED BY <1>2, <1>3 DEF Secured

\* SecurityInv is inductive.
LEMMA SecurityNext ==
  ASSUME Base, "security" \in Layers, RefusalsStand("security"), SecurityInv, Next
  PROVE  SecurityInv'
<1>0. /\ TypeOK /\ Control /\ Len(chain) \in Nat \ {0} /\ Handler = Len(chain) + 1
      /\ layer \in [1..Len(chain) -> LayerState] /\ Response \in State
      /\ at \in 0..Handler /\ left \subseteq 1..Len(chain) /\ Sx \in 1..Len(chain) /\ chain[Sx] = "security"
      /\ \A i \in 1..Len(chain) : i - 1 \in 0..Len(chain)
  BY BaseFacts, IndexType DEF Sx
<1>1. /\ Frame
      /\ \/ GoesIn \/ Refuses \/ HandlerAnswers \/ HandlerEnds \/ ReturnsQuietly
         \/ ReturnsCalling \/ Retries \/ Unwinds \/ Recovers \/ Ends
  BY <1>0, StepKinds
<1>2. /\ RefusedOutside("security")
      /\ Injects(Response)
      /\ Sx \in left => Deny \in resp.header
      /\ going = "in" \/ at >= Sx \/ Sx \in left => DenySent(Response)
  BY DEF SecurityInv, Injects, DenySent, Response
<1>3. Response'.resp = resp' /\ Response'.layer = layer' /\ Response.resp = resp /\ Response.layer = layer
  BY DEF Response
<1> DEFINE Goal == /\ Injects(Response')
                   /\ Sx \in left' => Deny \in resp'.header
                   /\ going' = "in" \/ at' >= Sx \/ Sx \in left' => DenySent(Response')
<1> SUFFICES Goal
  <2>1. RefusedOutside("security")'
    BY <1>2, RefusedNext
  <2> QED BY <1>1, <1>3, <2>1, SameChain DEF SecurityInv, Sx, Frame, Injects, DenySent
<1>4. ASSUME NEW d \in 0..Len(chain), NEW op \in {"header", "body"}, NEW arg,
             Change(Response, Response', d, op, arg)
      PROVE  Secured(Response, Response', d)
  BY <1>0, <1>4, SecurityCall
\* A step that makes calls on its way out.
<1>5. ASSUME Secured(Response, Response', at - 1), going' # "in", at' = at - 1, at \in 1..Len(chain),
             left' = {} \/ (left' = left \cup {at} /\ at # Sx)
      PROVE  Goal
  BY <1>0, <1>2, <1>3, <1>5 DEF Secured
\* A step that makes none.
<1>6. ASSUME SameSent, SameField(Deny), UNCHANGED layer
      PROVE  /\ Injects(Response') /\ (DenySent(Response) => DenySent(Response'))
             /\ Deny \in resp'.header <=> Deny \in resp.header
  BY <1>2, <1>3, <1>6 DEF SameSent, SameField, Injects, DenySent
<1>7. CASE GoesIn
  <2>1. layer'[Sx].wrote => layer[Sx].wrote
    BY <1>0, <1>7 DEF GoesIn, FreshLayer
  <2>2. left' = {}
    BY <1>0, <1>7 DEF GoesIn, Control
  <2> QED BY <1>2, <1>3, <1>7, <2>1, <2>2 DEF GoesIn, SameSent, SameField, Injects, DenySent
<1>8. CASE Refuses
  <2>1. PICK code \in {429, 401} : Errs(at - 1, code, "refusal")
    BY <1>8 DEF Refuses
  <2>2. at \in 1..Len(chain) /\ at - 1 \in 0..Len(chain) /\ at' = at - 1 /\ going' = "out" /\ left' = {}
    BY <1>0, <1>8 DEF Refuses, Control
  <2>3. Secured(Response, Response', at - 1)
    BY <1>0, <2>1, <2>2, SecurityErrs
  <2> QED BY <1>5, <2>2, <2>3
<1>9. CASE HandlerAnswers
  <2>1. going = "in" /\ left' = {} /\ Len(chain) \in 0..Len(chain) /\ Len(chain) >= Sx
    BY <1>0, <1>9 DEF HandlerAnswers, Control
  <2>2. ASSUME NEW s \in State, NEW code \in Answers,
               s.layer = layer, s.resp.status = resp.status, s.resp.sent = resp.sent,
               Deny \in s.resp.header <=> Deny \in resp.header,
               Change(s, Response', Len(chain), "header", code)
        PROVE  Secured(Response, Response', Len(chain))
    <3>1. Secured(s, Response', Len(chain))
      BY <1>0, <2>1, <2>2, SecurityCall
    <3> QED BY <1>3, <2>2, <3>1 DEF Secured, Injects, DenySent
  <2>3. ASSUME Change(Response, Response', Len(chain), "body", "answer")
        PROVE  Secured(Response, Response', Len(chain))
    BY <1>4, <2>1, <2>3
  <2>4. Secured(Response, Response', Len(chain))
    BY <1>9, <2>2, <2>3 DEF HandlerAnswers
  <2> QED BY <1>2, <2>1, <2>4 DEF Secured
<1>10. CASE HandlerEnds
  <2>1. UNCHANGED <<layer, resp, left>> /\ going = "in"
    BY <1>10 DEF HandlerEnds
  <2> QED BY <1>2, <1>6, <2>1 DEF SameSent, SameField
<1>11. CASE ReturnsQuietly
  <2>1. /\ UNCHANGED layer /\ SameSent /\ at \in 1..Len(chain) /\ left' = left \cup {at}
        /\ at' = at - 1 /\ going' = "out"
    BY <1>11 DEF ReturnsQuietly, Returns
  <2>2. CASE at = Sx /\ ~layer[Sx].wrote
    <3>1. Deny \in resp'.header
      BY <1>0, <1>11, <2>2 DEF ReturnsQuietly
    <3> QED BY <1>0, <1>2, <1>3, <2>1, <2>2, <3>1 DEF SameSent, Injects, DenySent
  <2>3. CASE ~(at = Sx /\ ~layer[Sx].wrote)
    <3>1. \A i \in 1..Len(chain) : chain[i] = "security" => i = Sx
      BY <1>0, IndexType DEF Sx
    <3>2. SameField(Deny)
      BY <1>11, <2>1, <2>3, <3>1 DEF ReturnsQuietly
    <3>3. at = Sx => Deny \in resp.header
      BY <1>2, <1>3, <2>3 DEF Injects
    <3> QED BY <1>0, <1>2, <1>6, <2>1, <3>2, <3>3
  <2> QED BY <2>2, <2>3
<1>12. CASE ReturnsCalling
  <2>1. /\ at \in 1..Len(chain) /\ at - 1 \in 0..Len(chain) /\ at' = at - 1 /\ going' = "out"
        /\ left' = left \cup {at} /\ at # Sx
    BY <1>0, <1>12 DEF ReturnsCalling, Returns
  <2>2. Secured(Response, Response', at - 1)
    BY <1>4, <1>12, <2>1 DEF ReturnsCalling
  <2> QED BY <1>5, <2>1, <2>2
<1>13. CASE Retries
  <2>1. /\ at \in 1..Len(chain) /\ chain[at] = "retry" /\ going = "out" /\ going' = "in"
        /\ layer[at].code \in RetryOn /\ UNCHANGED resp
    BY <1>13 DEF Retries
  <2>2. layer'[Sx].wrote => layer[Sx].wrote
    BY <1>0, <1>13 DEF Retries
  <2>3. left' = {}
    <3>1. left' = {i \in left : i < at}
      BY <1>13 DEF Retries
    <3>2. \A i \in left : at < i /\ i \in Int /\ at \in Int
      BY <1>0 DEF Control
    <3> QED BY <3>1, <3>2
  <2>4. "retry" \in Layers /\ at = Index("retry")
    BY <1>0, <2>1, IndexType
  <2>5. at >= Sx \/ Sx \in left
    <3>1. ASSUME at < Sx, Sx \notin left PROVE FALSE
      <4>1. Around("retry", "security")
        BY <2>4, <3>1 DEF Around, Sx
      <4>2. layer[at].code \in Refusals
        <5>1. at \in Index("retry")..Sx - 1
          BY <1>0, <2>1, <2>4, <3>1
        <5> QED BY <1>2, <2>1, <2>4, <3>1, <4>1, <5>1 DEF RefusedOutside, Sx
      <4> QED BY <2>1, <4>1, <4>2 DEF RefusalsStand
    <3> QED BY <1>0, <2>1, <3>1
  <2> QED BY <1>2, <1>3, <2>1, <2>2, <2>3, <2>5 DEF Injects, DenySent
<1>14. CASE Unwinds
  <2>1. /\ at \in 1..Len(chain) /\ at - 1 \in 0..Len(chain) /\ at' = at - 1 /\ going' = "panic"
        /\ left' = {} /\ left = {}
    BY <1>0, <1>14 DEF Unwinds, Control
  <2>2. CASE Change(Response, Response', at - 1, "body", "gzip tail")
    BY <1>4, <1>5, <2>1, <2>2
  <2>3. CASE UNCHANGED <<layer, resp>>
    BY <1>0, <1>2, <1>6, <2>1, <2>3 DEF SameSent, SameField
  <2> QED BY <1>14, <2>2, <2>3 DEF Unwinds
<1>15. CASE Recovers
  <2>1. /\ at \in 1..Len(chain) /\ at - 1 \in 0..Len(chain) /\ at' = at - 1 /\ going' = "out"
        /\ left' = {} /\ Errs(at - 1, 500, "error")
    BY <1>0, <1>15 DEF Recovers, Control
  <2>2. Secured(Response, Response', at - 1)
    BY <1>0, <2>1, SecurityErrs
  <2> QED BY <1>5, <2>1, <2>2
<1>16. CASE Ends
  <2>1. /\ at' = 0 /\ UNCHANGED <<layer, left>> /\ going' # "in" /\ resp'.header = resp.header
        /\ resp.status # 0 => resp'.status = resp.status /\ resp'.sent = resp.sent
        /\ resp.status = 0 => resp'.sent = resp.header \/ resp'.status = 0
    BY <1>16 DEF Ends
  <2> QED BY <1>0, <1>2, <1>3, <2>1 DEF Injects, DenySent
<1> HIDE DEF Goal
<1> QED BY <1>1, <1>7, <1>8, <1>9, <1>10, <1>11, <1>12, <1>13, <1>14, <1>15, <1>16

\* An answer that comes back through SecurityHeaders carries its headers, wherever
\* it is in the chain and whoever writes, unless Retry around it tries again
\* after a refusal.
THEOREM SecurityHeadersAlways == Spec => []SecurityHeadersSent
<1>1. Init => SecurityInv
  <2> SUFFICES ASSUME Init, "security" \in Layers PROVE SecurityInv
    BY DEF SecurityInv
  <2>1. Sx \in 1..Len(chain)
    BY BaseInit, BaseFacts, IndexType DEF Sx
  <2> QED BY <2>1, BaseInit DEF SecurityInv, RefusedOutside
<1>2. Base /\ SecurityInv /\ [Next]_vars => SecurityInv'
  <2>1. Base /\ SecurityInv /\ UNCHANGED vars => SecurityInv'
    BY DEF SecurityInv, RefusedOutside, RefusalsStand, vars, Layers, Index, Around, Sx
  <2>2. ASSUME Base, Next, ~("security" \in Layers /\ RefusalsStand("security")) PROVE SecurityInv'
    <3>1. Frame
      BY <2>2, StepKinds DEF Base
    <3> QED BY <2>2, <3>1, SameChain DEF SecurityInv, RefusalsStand, Frame
  <2> QED BY <2>1, <2>2, SecurityNext
<1>3. Base /\ SecurityInv => SecurityHeadersSent
  BY DEF Base, Control, SecurityInv, SecurityHeadersSent, RefusalsStand, Answered, Sent, Deny, Sx
<1> QED BY <1>1, <1>2, <1>3, BaseHolds, PTL DEF Spec
-----------------------------------------------------------------------------
(***************************************************************************)
(* Cache for a private path.                                                *)
(***************************************************************************)
NoStoreSent(s) == s.resp.status # 0 => NoStore \in s.resp.sent

\* What calls keep.
Unstored(s, t) ==
  NoStore \in s.resp.header =>
    NoStore \in t.resp.header /\ (NoStoreSent(s) => NoStoreSent(t))

\* A call changes nothing about no-store but by sending the header map.
LEMMA PrivateCall ==
  ASSUME TypeOK, NEW s \in State, NEW t, NEW d, NEW op, NEW arg, Change(s, t, d, op, arg)
  PROVE  /\ Unstored(s, t)
         /\ s.resp.status # 0 => t.resp.status = s.resp.status /\ t.resp.sent = s.resp.sent
<1>1. NoStore \in Field /\ NoStore[1] \notin {"Server", "X-Frame-Options"}
  BY DEF NoStore, Field
<1>2. NoStore \in s.resp.header => NoStore \in t.resp.header
  BY <1>1, HeaderFacts DEF Change
<1>3. /\ s.resp.status # 0 => t.resp.status = s.resp.status /\ t.resp.sent = s.resp.sent
      /\ \/ t.resp.sent = t.resp.header
         \/ t.resp.status = s.resp.status /\ t.resp.sent = s.resp.sent
  BY DEF Change
<1> QED BY <1>2, <1>3 DEF Unstored, NoStoreSent

LEMMA PrivateErrs ==
  ASSUME TypeOK, NEW d, NEW code, NEW text, Errs(d, code, text)
  PROVE  Unstored(Response, Response')
<1>1. PICK s \in State, t \in State :
        /\ s.layer = layer /\ s.resp.status = resp.status /\ s.resp.sent = resp.sent
        /\ NoStore \in s.resp.header <=> NoStore \in resp.header
        /\ Change(s, t, d, "header", code) /\ Change(t, Response', d, "body", text)
  BY DEF Errs
<1>2. Unstored(s, t) /\ Unstored(t, Response')
  BY <1>1, PrivateCall
<1>3. Unstored(Response, t)
  BY <1>1, <1>2 DEF Unstored, NoStoreSent, Response
<1> QED BY <1>2, <1>3 DEF Unstored

\* PrivateInv is inductive.
LEMMA PrivateNext ==
  ASSUME Base, private, RefusalsStand("cache"), PrivateInv, Next
  PROVE  PrivateInv'
<1>0. /\ TypeOK /\ Control /\ Len(chain) \in Nat \ {0} /\ Handler = Len(chain) + 1
      /\ Response \in State /\ "cache" \in Layers
      /\ at \in 0..Handler /\ left \subseteq 1..Len(chain)
      /\ Cx \in 1..Len(chain) /\ chain[Cx] = "cache"
      /\ \A i \in 1..Len(chain) : chain[i] = "cache" => i = Cx
  BY BaseFacts, IndexType DEF Cx, PrivateInv
<1>1. /\ Frame
      /\ \/ GoesIn \/ Refuses \/ HandlerAnswers \/ HandlerEnds \/ ReturnsQuietly
         \/ ReturnsCalling \/ Retries \/ Unwinds \/ Recovers \/ Ends
  BY <1>0, StepKinds
<1> DEFINE In == at > Cx \/ (at = Cx /\ going # "in")
<1>2. /\ RefusedOutside("cache")
      /\ In \/ Cx \in left => NoStore \in resp.header
      /\ going = "in" \/ at >= Cx \/ Cx \in left => NoStoreSent(Response)
  BY DEF PrivateInv, NoStoreSent, Response, Within, Cx
<1>3. Response'.resp = resp' /\ Response.resp = resp
  BY DEF Response
<1> DEFINE Goal == /\ In' \/ Cx \in left' => NoStore \in resp'.header
                   /\ going' = "in" \/ at' >= Cx \/ Cx \in left' => NoStoreSent(Response')
<1>4. Cx' = Cx
  BY <1>1, SameChain DEF Cx, Frame
<1> SUFFICES Goal
  <2>1. RefusedOutside("cache")'
    BY <1>2, RefusedNext
  <2>2. private' /\ ("cache" \in Layers)'
    BY <1>0, <1>1, SameChain DEF Frame
  <2> HIDE DEF In
  <2>3. Within("cache")' => In'
    BY DEF In, Within, Cx
  <2> QED BY <1>3, <1>4, <2>1, <2>2, <2>3 DEF PrivateInv, NoStoreSent
<1>5. (In => at > Cx \/ (at = Cx /\ going # "in")) /\ (In' => at' > Cx \/ (at' = Cx /\ going' # "in"))
  BY <1>4
<1> HIDE DEF In
\* A step out of a layer inside Cache, or of Cache itself.
<1>6. ASSUME Unstored(Response, Response'), going' # "in", at' = at - 1, at \in 1..Len(chain),
             left' = {} \/ (left' = left \cup {at} /\ at # Cx)
      PROVE  Goal
  <2>1. In' => at > Cx
    BY <1>0, <1>5, <1>6
  <2>2. at > Cx => In
    BY DEF In
  <2>3. at' >= Cx => at > Cx
    BY <1>0, <1>6
  <2> QED BY <1>0, <1>2, <1>3, <1>4, <1>6, <2>1, <2>2, <2>3 DEF Unstored
<1>7. ASSUME resp'.header = resp.header, SameSent PROVE Unstored(Response, Response')
  BY <1>3, <1>7 DEF Unstored, NoStoreSent, SameSent
<1>8. CASE GoesIn
  <2>1. going = "in" /\ going' = "in" /\ at' = at + 1 /\ left' = {} /\ at \in 1..Len(chain)
    BY <1>0, <1>8 DEF GoesIn, Control
  <2>2. NoStoreSent(Response')
    BY <1>2, <1>3, <1>8 DEF GoesIn, SameSent, NoStoreSent
  <2>3. In' => NoStore \in resp'.header
    <3>1. CASE at = Cx
      BY <1>0, <1>8, <3>1 DEF GoesIn
    <3>2. CASE at # Cx
      <4>1. NoStore \in resp'.header <=> NoStore \in resp.header
        BY <1>0, <1>8, <2>1, <3>2 DEF GoesIn, SameField
      <4>2. In' => In
        BY <1>0, <1>5, <2>1, <3>2 DEF In
      <4> QED BY <1>2, <4>1, <4>2
    <3> QED BY <3>1, <3>2
  <2> QED BY <2>1, <2>2, <2>3
<1>9. CASE Refuses
  <2>1. PICK code \in {429, 401} : Errs(at - 1, code, "refusal")
    BY <1>9 DEF Refuses
  <2>2. at \in 1..Len(chain) /\ at' = at - 1 /\ going' = "out" /\ left' = {}
    BY <1>0, <1>9 DEF Refuses, Control
  <2>3. Unstored(Response, Response')
    BY <1>0, <2>1, PrivateErrs
  <2> QED BY <1>6, <2>2, <2>3
<1>10. CASE HandlerAnswers
  <2>1. going = "in" /\ at = Handler /\ left' = {}
    BY <1>0, <1>10 DEF HandlerAnswers, Control
  <2>2. In
    BY <1>0, <2>1 DEF In
  <2>3. ASSUME NEW s \in State, NEW code \in Answers,
               s.layer = layer, s.resp.status = resp.status, s.resp.sent = resp.sent,
               NoStore \in s.resp.header <=> NoStore \in resp.header,
               Change(s, Response', Len(chain), "header", code)
        PROVE  Unstored(Response, Response')
    <3>1. Unstored(s, Response')
      BY <1>0, <2>3, PrivateCall
    <3> QED BY <1>3, <2>3, <3>1 DEF Unstored, NoStoreSent
  <2>4. ASSUME Change(Response, Response', Len(chain), "body", "answer")
        PROVE  Unstored(Response, Response')
    BY <1>0, <2>4, PrivateCall
  <2>5. Unstored(Response, Response')
    BY <1>10, <2>3, <2>4 DEF HandlerAnswers
  <2> QED BY <1>2, <1>3, <2>1, <2>2, <2>5 DEF Unstored
<1>11. CASE HandlerEnds
  <2>1. UNCHANGED <<layer, resp, left>> /\ going = "in" /\ at = Handler
    BY <1>11 DEF HandlerEnds
  <2>2. In
    BY <1>0, <2>1 DEF In
  <2>3. NoStoreSent(Response') <=> NoStoreSent(Response)
    BY <1>3, <2>1 DEF NoStoreSent
  <2> QED BY <1>2, <2>1, <2>2, <2>3
<1>12. CASE ReturnsQuietly
  <2>1. /\ SameSent /\ at \in 1..Len(chain) /\ left' = left \cup {at}
        /\ at' = at - 1 /\ going' = "out" /\ going = "out"
    BY <1>12 DEF ReturnsQuietly, Returns
  <2>2. NoStore \in resp'.header <=> NoStore \in resp.header
    BY <1>12 DEF ReturnsQuietly, SameField
  <2>3. NoStoreSent(Response') <=> NoStoreSent(Response)
    BY <1>3, <2>1 DEF NoStoreSent, SameSent
  <2>4. at >= Cx => In
    BY <1>0, <2>1 DEF In
  <2>5. In' => at > Cx
    BY <1>0, <1>5, <2>1
  <2> QED BY <1>0, <1>2, <2>1, <2>2, <2>3, <2>4, <2>5
<1>13. CASE ReturnsCalling
  <2>1. /\ at \in 1..Len(chain) /\ at' = at - 1 /\ going' = "out"
        /\ left' = left \cup {at} /\ at # Cx
    BY <1>0, <1>13 DEF ReturnsCalling, Returns
  <2>2. Unstored(Response, Response')
    BY <1>0, <1>13, PrivateCall DEF ReturnsCalling
  <2> QED BY <1>6, <2>1, <2>2
<1>14. CASE Retries
  <2>1. /\ at \in 1..Len(chain) /\ chain[at] = "retry" /\ going = "out" /\ going' = "in"
        /\ layer[at].code \in RetryOn /\ UNCHANGED resp /\ at' = at + 1
    BY <1>14 DEF Retries
  <2>2. left' = {}
    <3>1. left' = {i \in left : i < at}
      BY <1>14 DEF Retries
    <3>2. \A i \in left : at < i /\ i \in Int /\ at \in Int
      BY <1>0 DEF Control
    <3> QED BY <3>1, <3>2
  <2>3. "retry" \in Layers /\ at = Index("retry") /\ at # Cx
    BY <1>0, <2>1, IndexType
  <2>4. at >= Cx \/ Cx \in left
    <3>1. ASSUME at < Cx, Cx \notin left PROVE FALSE
      <4>1. Around("retry", "cache")
        BY <1>0, <2>3, <3>1 DEF Around, Cx
      <4>2. layer[at].code \in Refusals
        <5>1. at \in Index("retry")..Cx - 1
          BY <1>0, <2>1, <2>3, <3>1
        <5> QED BY <1>2, <2>1, <2>3, <3>1, <4>1, <5>1 DEF RefusedOutside, Cx
      <4> QED BY <2>1, <4>1, <4>2 DEF RefusalsStand
    <3> QED BY <1>0, <2>1, <3>1
  <2>5. NoStoreSent(Response')
    BY <1>2, <1>3, <2>1, <2>4 DEF NoStoreSent
  <2>6. In' => In
    BY <1>0, <1>5, <2>1, <2>3 DEF In
  <2> QED BY <1>2, <2>1, <2>2, <2>5, <2>6
<1>15. CASE Unwinds
  <2>1. /\ at \in 1..Len(chain) /\ at' = at - 1 /\ going' = "panic" /\ left' = {}
    BY <1>0, <1>15 DEF Unwinds, Control
  <2>2. CASE Change(Response, Response', at - 1, "body", "gzip tail")
    BY <1>0, <1>6, <2>1, <2>2, PrivateCall
  <2>3. CASE UNCHANGED <<layer, resp>>
    BY <1>6, <1>7, <2>1, <2>3 DEF SameSent
  <2> QED BY <1>15, <2>2, <2>3 DEF Unwinds
<1>16. CASE Recovers
  <2>1. /\ at \in 1..Len(chain) /\ at' = at - 1 /\ going' = "out"
        /\ left' = {} /\ Errs(at - 1, 500, "error")
    BY <1>0, <1>16 DEF Recovers, Control
  <2>2. Unstored(Response, Response')
    BY <1>0, <2>1, PrivateErrs
  <2> QED BY <1>6, <2>1, <2>2
<1>17. CASE Ends
  <2>1. /\ at' = 0 /\ UNCHANGED left /\ going' # "in" /\ resp'.header = resp.header
        /\ resp.status # 0 => resp'.status = resp.status /\ resp'.sent = resp.sent
        /\ resp.status = 0 => resp'.sent = resp.header \/ resp'.status = 0
    BY <1>17 DEF Ends
  <2>2. ~In'
    BY <1>0, <1>5, <2>1
  <2> QED BY <1>0, <1>2, <1>3, <2>1, <2>2 DEF NoStoreSent
<1> HIDE DEF Goal
<1> QED BY <1>1, <1>8, <1>9, <1>10, <1>11, <1>12, <1>13, <1>14, <1>15, <1>16, <1>17
-----------------------------------------------------------------------------
(***************************************************************************)
(* Cache for the other paths.                                               *)
(***************************************************************************)
\* Retry outside Cache: both keep the same status.
SameCode(s) == /\ s.layer[Cx].code = s.layer[Kx].code
               /\ ~s.layer[Kx].wrote => s.layer[Kx].code = 200

\* Otherwise a status that Cache keeps has also been sent.
CodeSent(s) == s.resp.status = 0 => s.layer[Cx].code = 200

\* What calls on layer d's writer keep.
Published(s, t, d) ==
  /\ Public \in t.resp.header <=> Public \in s.resp.header
  /\ \/ t.resp.status = s.resp.status /\ t.resp.sent = s.resp.sent
     \/ Public \in t.resp.sent => Public \in s.resp.header
  /\ "cache" \in Layers /\ ~private /\ d >= Cx =>
       IF Around("retry", "cache") THEN SameCode(s) => SameCode(t)
                                   ELSE CodeSent(s) => CodeSent(t)

\* One call.
LEMMA PublicCall ==
  ASSUME TypeOK, NEW s \in State, NEW t, NEW d \in 0..Len(chain), NEW op \in {"header", "body"},
         NEW arg, Arg(op, arg), Change(s, t, d, op, arg)
  PROVE  Published(s, t, d)
<1>1. Public \in Field /\ Public[1] \notin {"Server", "X-Frame-Options"}
  BY DEF Public, Field
<1>2. Public \in t.resp.header <=> Public \in s.resp.header
  BY <1>1, HeaderFacts DEF Change
<1>3. \/ t.resp.status = s.resp.status /\ t.resp.sent = s.resp.sent
      \/ Public \in t.resp.sent => Public \in s.resp.header
  BY <1>2 DEF Change
<1>4. ASSUME "cache" \in Layers, ~private, d >= Cx, Around("retry", "cache"), SameCode(s)
      PROVE  SameCode(t)
  <2>1. /\ Cx \in 1..Len(chain) /\ Kx \in 1..Len(chain) /\ Kx < Cx /\ "retry" \in Layers
        /\ chain[Cx] = "cache" /\ chain[Kx] = "retry" /\ Len(chain) \in Nat
    BY <1>4, ChainType, IndexType DEF Around, Cx, Kx
  <2>2. CASE op = "header"
    <3>1. Cx \in Reached(s.layer, d, op) /\ Kx \in Reached(s.layer, d, op)
      BY <1>4, <2>1, <2>2, KeptFacts DEF Kx
    <3>2. Remembers(Cx) /\ Remembers(Kx) /\ chain[Kx] \in Marks(op)
      BY <1>4, <2>1, <2>2 DEF Remembers, Marks
    <3> QED BY <2>1, <2>2, <3>1, <3>2 DEF Change, SameCode
  <2>3. CASE op = "body"
    <3>1. chain[Kx] \notin Marks(op)
      BY <2>1, <2>3 DEF Marks
    <3> QED BY <1>4, <2>1, <2>3, <3>1 DEF Change, SameCode
  <2> QED BY <2>2, <2>3
<1>5. ASSUME "cache" \in Layers, ~private, d >= Cx, ~Around("retry", "cache"), CodeSent(s)
      PROVE  CodeSent(t)
  <2>1. /\ Cx \in 1..Len(chain) /\ chain[Cx] = "cache" /\ Len(chain) \in Nat
        /\ "retry" \in Layers => Kx \in 1..Len(chain) /\ Cx < Kx
    <3>1. /\ Cx \in 1..Len(chain) /\ chain[Cx] = "cache" /\ Len(chain) \in Nat
          /\ "retry" \in Layers => Kx \in 1..Len(chain) /\ chain[Kx] = "retry"
      BY <1>5, ChainType, IndexType DEF Cx, Kx
    <3> QED BY <1>5, <3>1 DEF Around, Cx, Kx
  <2>2. CASE op = "body"
    BY <1>5, <2>1, <2>2 DEF Change, CodeSent
  <2>3. CASE op = "header" /\ Kept(s.layer, d, op)
    <3>1. Cx \notin Reached(s.layer, d, op)
      BY <2>1, <2>3, KeptFacts DEF Kx
    <3> QED BY <1>5, <2>1, <2>3, <3>1 DEF Change, CodeSent
  <2>4. CASE op = "header" /\ ~Kept(s.layer, d, op)
    BY <2>4 DEF Change, CodeSent, Arg
  <2> QED BY <2>2, <2>3, <2>4
<1> QED BY <1>2, <1>3, <1>4, <1>5 DEF Published

\* http.Error.
LEMMA PublicErrs ==
  ASSUME TypeOK, NEW d \in 0..Len(chain), NEW code, NEW text,
         Arg("header", code), Arg("body", text), Errs(d, code, text)
  PROVE  Published(Response, Response', d)
<1>1. PICK s \in State, t \in State :
        /\ s.layer = layer /\ s.resp.status = resp.status /\ s.resp.sent = resp.sent
        /\ Public \in s.resp.header <=> Public \in resp.header
        /\ Change(s, t, d, "header", code) /\ Change(t, Response', d, "body", text)
  BY DEF Errs
<1>2. Published(s, t, d) /\ Published(t, Response', d)
  BY <1>1, PublicCall
<1>3. Published(Response, t, d)
  BY <1>1, <1>2 DEF Published, SameCode, CodeSent, Response
<1> QED BY <1>2, <1>3 DEF Published

\* The steps that make calls, while the request is inside Cache or has not got
\* there.
LEMMA PublicCalls ==
  ASSUME Base, Next
  PROVE  /\ Refuses \/ Recovers => Published(Response, Response', at - 1)
         /\ HandlerAnswers => Published(Response, Response', Len(chain))
         /\ ReturnsCalling => Published(Response, Response', at - 1)
         /\ Unwinds => Published(Response, Response', at - 1)
<1>0. /\ TypeOK /\ Len(chain) \in Nat \ {0} /\ Response \in State
      /\ layer \in [1..Len(chain) -> LayerState]
      /\ Response.resp = resp /\ Response.layer = layer
      /\ \A i \in 1..Len(chain) : i - 1 \in 0..Len(chain)
      /\ Len(chain) \in 0..Len(chain)
  BY BaseFacts
<1>1. ASSUME Refuses \/ Recovers PROVE Published(Response, Response', at - 1)
  <2>1. PICK code \in {429, 401, 500} : Errs(at - 1, code, "refusal") \/ Errs(at - 1, code, "error")
    BY <1>1 DEF Refuses, Recovers
  <2>2. at - 1 \in 0..Len(chain)
    BY <1>0, <1>1 DEF Refuses, Recovers
  <2>3. code \in Nat /\ code # 0
    OBVIOUS
  <2>4. Arg("header", code) /\ Arg("body", "refusal") /\ Arg("body", "error")
    BY <2>3, ArgFacts
  <2> QED BY <1>0, <2>1, <2>2, <2>4, PublicErrs
<1>2. ASSUME HandlerAnswers PROVE Published(Response, Response', Len(chain))
  <2>1. ASSUME NEW s \in State, NEW code \in Answers,
               s.layer = layer, s.resp.status = resp.status, s.resp.sent = resp.sent,
               Public \in s.resp.header <=> Public \in resp.header,
               Change(s, Response', Len(chain), "header", code)
        PROVE  Published(Response, Response', Len(chain))
    <3>1. Arg("header", code)
      BY ArgFacts
    <3>2. Published(s, Response', Len(chain))
      BY <1>0, <2>1, <3>1, PublicCall
    <3> QED BY <1>0, <2>1, <3>2 DEF Published, SameCode, CodeSent
  <2>2. ASSUME Change(Response, Response', Len(chain), "body", "answer")
        PROVE  Published(Response, Response', Len(chain))
    BY <1>0, <2>2, ArgFacts, PublicCall
  <2> QED BY <1>2, <2>1, <2>2 DEF HandlerAnswers
<1>3. ASSUME at \in 1..Len(chain), Change(Response, Response', at - 1, "body", "gzip tail")
      PROVE  Published(Response, Response', at - 1)
  BY <1>0, <1>3, ArgFacts, PublicCall
<1>4. ASSUME ReturnsCalling PROVE Published(Response, Response', at - 1)
  <2>1. at \in 1..Len(chain) /\ layer[at].code \in Nat
    BY <1>0, <1>4 DEF ReturnsCalling, Returns, LayerState
  <2>2. ASSUME layer[at].code # 0, Change(Response, Response', at - 1, "header", layer[at].code)
        PROVE  Published(Response, Response', at - 1)
    <3>1. Arg("header", layer[at].code)
      BY <2>1, <2>2, ArgFacts
    <3> QED BY <1>0, <2>1, <2>2, <3>1, PublicCall
  <2> QED BY <1>3, <1>4, <2>1, <2>2 DEF ReturnsCalling
<1>5. ASSUME Unwinds PROVE Published(Response, Response', at - 1)
  <2>1. at \in 1..Len(chain)
    BY <1>5 DEF Unwinds
  <2>2. ASSUME UNCHANGED <<layer, resp>> PROVE Published(Response, Response', at - 1)
    BY <2>2 DEF Published, SameCode, CodeSent, Response
  <2> QED BY <1>3, <1>5, <2>1, <2>2 DEF Unwinds
<1> QED BY <1>1, <1>2, <1>4, <1>5

\* The header says public only after the request has come back from Cache, and
\* no more when Retry tries again.
LEMMA PublicWhen ==
  ASSUME Base, CacheableKept, PublicInv, Public \in resp.header
  PROVE  /\ "cache" \in Layers /\ ~private /\ Cx \in left /\ at < Cx
         /\ going \notin {"in", "panic"} /\ ~Retries
<1>1. "cache" \in Layers /\ ~private /\ Cx \in left
  BY DEF PublicInv
<1>2. at < Cx /\ going \notin {"in", "panic"}
  BY <1>1 DEF Base, Control
<1>3. ASSUME Retries PROVE FALSE
  <2>1. /\ chain[at] = "retry" /\ at \in 1..Len(chain) /\ layer[at].code \in RetryOn
        /\ going = "out"
    BY <1>3 DEF Retries
  <2>2. at = Kx /\ "retry" \in Layers /\ Around("retry", "cache") /\ at >= Kx
    BY <1>1, <1>2, <2>1, BaseFacts, IndexType DEF Around, Cx, Kx
  <2>3. layer[Kx].code \in Cacheable
    BY <1>1, <2>1, <2>2 DEF PublicInv
  <2> QED BY <2>1, <2>2, <2>3 DEF CacheableKept
<1> QED BY <1>1, <1>2, <1>3

\* Only Cache brings the public header into the map, and after that the answer only
\* leaves.
LEMMA PublicHeaderNext ==
  ASSUME Base, CacheableKept, PublicInv, Next, Public \in resp'.header
  PROVE  /\ "cache" \in Layers /\ ~private /\ Cx \in left'
         /\ \/ Public \in resp.header /\ ~Refuses /\ ~Recovers /\ ~HandlerAnswers /\ ~HandlerEnds
                /\ ~GoesIn /\ ~Retries /\ ~Unwinds
            \/ ReturnsQuietly /\ at = Cx /\ layer[Cx].code \in Cacheable
<1>0. /\ TypeOK /\ Control /\ \A i \in 1..Len(chain) : chain[i] = "cache" => "cache" \in Layers /\ i = Cx
      /\ Response.resp = resp /\ Response'.resp = resp'
  BY BaseFacts, IndexType DEF Cx, Response
<1>1. \/ GoesIn \/ Refuses \/ HandlerAnswers \/ HandlerEnds \/ ReturnsQuietly
      \/ ReturnsCalling \/ Retries \/ Unwinds \/ Recovers \/ Ends
  BY <1>0, StepKinds
<1>2. Public \in resp.header =>
        /\ "cache" \in Layers /\ ~private /\ Cx \in left
        /\ ~Refuses /\ ~Recovers /\ ~HandlerAnswers /\ ~HandlerEnds /\ ~GoesIn /\ ~Retries /\ ~Unwinds
  BY PublicWhen DEF Refuses, Recovers, HandlerAnswers, HandlerEnds, GoesIn, Unwinds
<1>3. CASE GoesIn
  BY <1>2, <1>3 DEF GoesIn, SameField
<1>4. CASE Refuses \/ Recovers \/ HandlerAnswers \/ Unwinds
  BY <1>0, <1>2, <1>4, PublicCalls DEF Published
<1>5. CASE HandlerEnds \/ Retries
  BY <1>2, <1>5 DEF HandlerEnds, Retries
<1>6. CASE ReturnsQuietly
  <2>1. /\ at \in 1..Len(chain) /\ left' = left \cup {at}
        /\ IF chain[at] = "cache" /\ ~private
           THEN Public \in resp'.header <=> layer[at].code \in Cacheable
           ELSE Public \in resp'.header <=> Public \in resp.header
    BY <1>6 DEF ReturnsQuietly, Returns, SameField
  <2>2. CASE chain[at] = "cache" /\ ~private
    <3>1. at = Cx /\ "cache" \in Layers /\ layer[at].code \in Cacheable
      BY <1>0, <2>1, <2>2
    <3> QED BY <1>6, <2>1, <2>2, <3>1
  <2>3. CASE ~(chain[at] = "cache" /\ ~private)
    BY <1>2, <2>1, <2>3
  <2> QED BY <2>2, <2>3
<1>7. CASE ReturnsCalling
  <2>1. left \subseteq left' /\ (Public \in resp'.header <=> Public \in resp.header)
    BY <1>0, <1>7, PublicCalls DEF Published, ReturnsCalling, Returns
  <2> QED BY <1>2, <2>1
<1>8. CASE Ends
  <2>1. left' = left /\ resp'.header = resp.header
    BY <1>8 DEF Ends
  <2> QED BY <1>2, <2>1
<1> QED BY <1>1, <1>3, <1>4, <1>5, <1>6, <1>7, <1>8

\* It is sent with a status that is cacheable.
LEMMA PublicSentNext ==
  ASSUME Base, CacheableKept, PublicInv, Next, Public \in resp'.sent
  PROVE  resp'.status \in Cacheable /\ ~private
<1>0. /\ TypeOK /\ Control /\ Response.resp = resp /\ Response'.resp = resp'
      /\ \A i \in 1..Len(chain) : chain[i] = "retry" => "retry" \in Layers /\ i = Kx
  BY BaseFacts, IndexType DEF Kx, Response
<1>1. \/ GoesIn \/ Refuses \/ HandlerAnswers \/ HandlerEnds \/ ReturnsQuietly
      \/ ReturnsCalling \/ Retries \/ Unwinds \/ Recovers \/ Ends
  BY <1>0, StepKinds
<1>2. ASSUME resp'.status = resp.status, resp'.sent = resp.sent
      PROVE  resp'.status \in Cacheable /\ ~private
  BY <1>2 DEF PublicInv
<1>3. CASE resp.status # 0
  BY <1>2, <1>3, StepEffect
<1>4. ASSUME resp.status = 0, Public \in resp.header PROVE 200 \in Cacheable /\ ~private
  BY <1>4, PublicWhen DEF PublicInv, CacheableKept
<1>5. CASE GoesIn \/ HandlerEnds \/ ReturnsQuietly \/ Retries
  BY <1>2, <1>5 DEF GoesIn, HandlerEnds, ReturnsQuietly, Retries, SameSent
<1>6. CASE Refuses \/ Recovers \/ HandlerAnswers \/ Unwinds
  <2>1. Public \notin resp.header
    BY <1>6, PublicWhen DEF Refuses, Recovers, HandlerAnswers, Unwinds
  <2> QED BY <1>0, <1>2, <1>6, <2>1, PublicCalls DEF Published
<1>7. CASE ReturnsCalling /\ resp.status = 0
  <2>1. at \in 1..Len(chain) /\ going = "out"
    BY <1>7 DEF ReturnsCalling, Returns
  <2>2. CASE Public \notin resp.header
    BY <1>0, <1>2, <1>7, <2>2, PublicCalls DEF Published
  <2>3. CASE Public \in resp.header /\ Change(Response, Response', at - 1, "body", "gzip tail")
    <3>1. 200 \in Cacheable /\ ~private
      BY <1>4, <1>7, <2>3
    <3>2. resp'.status = 200 \/ (resp'.status = resp.status /\ resp'.sent = resp.sent)
      BY <1>0, <2>3 DEF Change
    <3> QED BY <1>2, <3>1, <3>2
  <2>4. CASE Public \in resp.header /\ chain[at] = "retry"
               /\ Change(Response, Response', at - 1, "header", layer[at].code)
    <3>1. at = Kx /\ "retry" \in Layers /\ "cache" \in Layers /\ ~private /\ at < Cx
      BY <1>0, <2>1, <2>4, PublicWhen
    <3>2. Around("retry", "cache") /\ at >= Kx
      BY <2>1, <3>1 DEF Around, Cx, Kx
    <3>3. layer[at].code \in Cacheable
      BY <2>1, <2>4, <3>1, <3>2 DEF PublicInv
    <3>4. resp'.status = layer[at].code \/ (resp'.status = resp.status /\ resp'.sent = resp.sent)
      BY <1>0, <2>4 DEF Change
    <3> QED BY <1>2, <3>1, <3>3, <3>4
  <2> QED BY <1>7, <2>2, <2>3, <2>4 DEF ReturnsCalling
<1>8. CASE Ends /\ resp.status = 0
  <2>1. \/ resp'.status = 200 /\ resp'.sent = resp.header
        \/ resp'.status = resp.status /\ resp'.sent = resp.sent
    BY <1>8 DEF Ends
  <2> QED BY <1>2, <1>4, <1>8, <2>1
<1> QED BY <1>1, <1>3, <1>5, <1>6, <1>7, <1>8

\* Retry outside Cache: what Cache judges is what Retry has kept.
KeptCode ==
  /\ going = "in" /\ at \in Kx + 1..Cx => layer[Kx].code = 200 /\ ~layer[Kx].wrote
  /\ at > Cx \/ (at = Cx /\ going # "in") => SameCode(Response)
  /\ going = "out" /\ at >= Kx /\ Public \in resp.header => layer[Kx].code \in Cacheable

\* Inside Retry, what Cache has recorded is what Retry keeps.
LEMMA KeptCodeNext ==
  ASSUME Base, CacheableKept, PublicInv, Next, "cache" \in Layers, ~private, Around("retry", "cache")
  PROVE  KeptCode'
<1>0. /\ TypeOK /\ Control /\ Len(chain) \in Nat \ {0} /\ Handler = Len(chain) + 1
      /\ at \in 0..Handler /\ layer \in [1..Len(chain) -> LayerState]
      /\ Cx \in 1..Len(chain) /\ Kx \in 1..Len(chain) /\ Kx < Cx /\ "retry" \in Layers
      /\ chain[Cx] = "cache" /\ chain[Kx] = "retry"
      /\ \A i \in 1..Len(chain) : /\ chain[i] = "cache" => i = Cx
                                  /\ chain[i] = "retry" => i = Kx
  BY BaseFacts, IndexType DEF Cx, Kx, Around
<1>1. /\ Frame
      /\ \/ GoesIn \/ Refuses \/ HandlerAnswers \/ HandlerEnds \/ ReturnsQuietly
         \/ ReturnsCalling \/ Retries \/ Unwinds \/ Recovers \/ Ends
  BY <1>0, StepKinds
<1>2. /\ going = "in" /\ at \in Kx + 1..Cx => layer[Kx].code = 200 /\ ~layer[Kx].wrote
      /\ at > Cx \/ (at = Cx /\ going # "in") => SameCode(Response)
      /\ going = "out" /\ at >= Kx /\ Public \in resp.header => layer[Kx].code \in Cacheable
  BY <1>0 DEF PublicInv, SameCode, Response, Within, Cx
<1>3. Cx' = Cx /\ Kx' = Kx
  BY <1>1, SameChain DEF Cx, Kx, Frame
<1>4. Response'.layer = layer' /\ Response.layer = layer /\ Response.resp = resp /\ Response'.resp = resp'
  BY DEF Response
<1> DEFINE A == going' = "in" /\ at' \in Kx + 1..Cx => layer'[Kx].code = 200 /\ ~layer'[Kx].wrote
           B == at' > Cx \/ (at' = Cx /\ going' # "in") => SameCode(Response')
           C == going' = "out" /\ at' >= Kx /\ Public \in resp'.header => layer'[Kx].code \in Cacheable
<1> SUFFICES A /\ B /\ C
  BY <1>3, <1>4 DEF KeptCode, SameCode
<1>5. Public \in resp'.header =>
        \/ Public \in resp.header /\ ~Refuses /\ ~Recovers /\ ~HandlerAnswers /\ ~HandlerEnds
             /\ ~GoesIn /\ ~Retries /\ ~Unwinds
        \/ ReturnsQuietly /\ at = Cx /\ layer[Cx].code \in Cacheable
  BY PublicHeaderNext
\* A step out of a layer inside Cache.
<1>6. ASSUME at \in 1..Len(chain), at' = at - 1, going' # "in", Published(Response, Response', at - 1)
      PROVE  A /\ B
  <2>1. at' > Cx \/ at' = Cx => SameCode(Response)
    BY <1>0, <1>2, <1>6
  <2>2. at' >= Cx => (SameCode(Response) => SameCode(Response'))
    BY <1>0, <1>6 DEF Published
  <2> QED BY <1>0, <1>6, <2>1, <2>2
<1>7. CASE GoesIn
  <2>1. /\ at \in 1..Len(chain) /\ at' = at + 1 /\ going = "in" /\ going' = "in"
        /\ layer' = IF Wrapping(at) THEN [layer EXCEPT ![at] = FreshLayer] ELSE layer
    BY <1>7 DEF GoesIn
  <2>2. C
    BY <2>1
  <2>3. CASE at = Cx
    <3>1. layer'[Cx] = FreshLayer /\ layer'[Kx] = layer[Kx]
      BY <1>0, <2>1, <2>3 DEF Wrapping
    <3>2. layer[Kx].code = 200 /\ ~layer[Kx].wrote
      BY <1>0, <1>2, <2>1, <2>3
    <3> QED BY <1>0, <1>4, <2>1, <2>2, <2>3, <3>1, <3>2 DEF SameCode, FreshLayer
  <2>4. CASE at = Kx
    <3>1. layer'[Kx] = FreshLayer
      BY <1>0, <2>1, <2>4 DEF Wrapping
    <3> QED BY <1>0, <2>1, <2>2, <2>4, <3>1 DEF FreshLayer
  <2>5. CASE at # Cx /\ at # Kx
    <3>1. layer'[Cx] = layer[Cx] /\ layer'[Kx] = layer[Kx]
      BY <1>0, <2>1, <2>5
    <3>2. B
      BY <1>0, <1>2, <1>4, <2>1, <2>5, <3>1 DEF SameCode
    <3>3. A
      BY <1>0, <1>2, <2>1, <2>5, <3>1
    <3> QED BY <2>2, <3>2, <3>3
  <2> QED BY <2>3, <2>4, <2>5
<1>8. CASE Refuses \/ Recovers
  <2>1. at \in 1..Len(chain) /\ at' = at - 1 /\ going' # "in"
    BY <1>8 DEF Refuses, Recovers
  <2>2. Published(Response, Response', at - 1)
    BY <1>8, PublicCalls
  <2>3. C
    BY <1>5, <1>8, <2>1 DEF Refuses, Recovers, ReturnsQuietly, Returns
  <2> QED BY <1>6, <2>1, <2>2, <2>3
<1>9. CASE HandlerAnswers
  <2>1. at = Handler /\ at' = at /\ going' = "in"
    BY <1>9 DEF HandlerAnswers
  <2>2. SameCode(Response')
    <3>1. SameCode(Response) /\ Len(chain) >= Cx
      BY <1>0, <1>2, <2>1
    <3> QED BY <1>0, <1>9, <3>1, PublicCalls DEF Published
  <2> QED BY <1>0, <2>1, <2>2
<1>10. CASE HandlerEnds
  <2>1. at = Handler /\ at' = at - 1 /\ going' # "in" /\ UNCHANGED <<layer, resp>> /\ going = "in"
    BY <1>10 DEF HandlerEnds
  <2>2. SameCode(Response')
    BY <1>0, <1>2, <1>4, <2>1 DEF SameCode
  <2>3. C
    BY <1>5, <1>10, <2>1 DEF ReturnsQuietly, Returns
  <2> QED BY <2>1, <2>2, <2>3
<1>11. CASE ReturnsQuietly
  <2>1. /\ at \in 1..Len(chain) /\ at' = at - 1 /\ going = "out" /\ going' = "out"
        /\ UNCHANGED layer
    BY <1>11 DEF ReturnsQuietly, Returns
  <2>2. B
    <3>1. SameCode(Response) => SameCode(Response')
      BY <1>4, <2>1 DEF SameCode
    <3> QED BY <1>0, <1>2, <2>1, <3>1
  <2>3. C
    <3>1. CASE Public \in resp.header
      BY <1>0, <1>2, <2>1, <3>1
    <3>2. CASE at = Cx /\ layer[Cx].code \in Cacheable
      BY <1>0, <1>2, <1>4, <2>1, <3>2 DEF SameCode
    <3> QED BY <1>5, <3>1, <3>2
  <2> QED BY <2>1, <2>2, <2>3
<1>12. CASE ReturnsCalling
  <2>1. at \in 1..Len(chain) /\ at' = at - 1 /\ going = "out" /\ going' = "out"
    BY <1>12 DEF ReturnsCalling, Returns
  <2>2. Published(Response, Response', at - 1)
    BY <1>12, PublicCalls
  <2>3. C
    <3> SUFFICES ASSUME at' >= Kx, Public \in resp'.header PROVE layer'[Kx].code \in Cacheable
      OBVIOUS
    <3>1. at > Kx
      BY <1>0, <2>1
    <3>2. Public \in resp.header
      BY <1>4, <2>2 DEF Published
    <3>3. Change(Response, Response', at - 1, "body", "gzip tail")
      <4>1. chain[at] # "retry"
        BY <1>0, <2>1, <3>1
      <4> QED BY <1>12, <4>1 DEF ReturnsCalling
    <3>4. layer'[Kx].code = layer[Kx].code
      BY <1>0, <1>4, <3>3 DEF Change
    <3> QED BY <1>0, <1>2, <2>1, <3>1, <3>2, <3>4
  <2> QED BY <1>6, <2>1, <2>2, <2>3
<1>13. CASE Retries
  <2>1. /\ at = Kx /\ at' = Kx + 1 /\ going' = "in"
    BY <1>0, <1>13 DEF Retries
  <2>2. layer'[Kx].code = 200 /\ ~layer'[Kx].wrote
    BY <1>0, <1>13, <2>1 DEF Retries
  <2> QED BY <1>0, <2>1, <2>2
<1>14. CASE Unwinds
  <2>1. at \in 1..Len(chain) /\ at' = at - 1 /\ going' = "panic"
    BY <1>14 DEF Unwinds
  <2>2. Published(Response, Response', at - 1)
    BY <1>14, PublicCalls
  <2> QED BY <1>6, <2>1, <2>2
<1>15. CASE Ends
  BY <1>0, <1>15 DEF Ends
<1> HIDE DEF A, B, C
<1> QED BY <1>1, <1>7, <1>8, <1>9, <1>10, <1>11, <1>12, <1>13, <1>14, <1>15

\* Otherwise Cache judges what is sent.
SentCode ==
  /\ at > Cx \/ (at = Cx /\ going # "in") => CodeSent(Response)
  /\ Public \in resp.header /\ resp.status = 0 => 200 \in Cacheable

\* Otherwise it is what has been sent, or will be.
LEMMA SentCodeNext ==
  ASSUME Base, CacheableKept, PublicInv, Next, "cache" \in Layers, ~private, ~Around("retry", "cache")
  PROVE  SentCode'
<1>0. /\ TypeOK /\ Control /\ Len(chain) \in Nat \ {0} /\ Handler = Len(chain) + 1
      /\ at \in 0..Handler /\ layer \in [1..Len(chain) -> LayerState]
      /\ Cx \in 1..Len(chain) /\ chain[Cx] = "cache"
  BY BaseFacts, IndexType DEF Cx
<1>1. /\ Frame
      /\ \/ GoesIn \/ Refuses \/ HandlerAnswers \/ HandlerEnds \/ ReturnsQuietly
         \/ ReturnsCalling \/ Retries \/ Unwinds \/ Recovers \/ Ends
  BY <1>0, StepKinds
<1>2. /\ at > Cx \/ (at = Cx /\ going # "in") => CodeSent(Response)
      /\ Public \in resp.header /\ resp.status = 0 => 200 \in Cacheable
  BY <1>0 DEF PublicInv, CodeSent, Response, Within, Cx
<1>3. Cx' = Cx
  BY <1>1, SameChain DEF Cx, Frame
<1>4. Response'.layer = layer' /\ Response.layer = layer /\ Response.resp = resp /\ Response'.resp = resp'
  BY DEF Response
<1>5. ASSUME Public \in resp'.header, resp'.status = 0 PROVE 200 \in Cacheable
  <2>1. resp.status = 0
    BY <1>5, StepEffect
  <2>2. CASE Public \in resp.header
    BY <1>2, <2>1, <2>2
  <2>3. CASE ReturnsQuietly /\ at = Cx /\ layer[Cx].code \in Cacheable
    BY <1>2, <1>4, <2>1, <2>3 DEF ReturnsQuietly, Returns, CodeSent
  <2> QED BY <1>5, <2>2, <2>3, PublicHeaderNext
<1> SUFFICES ASSUME at' > Cx \/ (at' = Cx /\ going' # "in") PROVE CodeSent(Response')
  BY <1>3, <1>4, <1>5 DEF SentCode, CodeSent
\* A step out of a layer inside Cache.
<1>6. ASSUME at \in 1..Len(chain), at' = at - 1, Published(Response, Response', at - 1)
      PROVE  CodeSent(Response')
  BY <1>0, <1>2, <1>6 DEF Published
<1>7. CASE GoesIn
  <2>1. /\ at \in 1..Len(chain) /\ at' = at + 1 /\ going = "in" /\ SameSent
        /\ layer' = IF Wrapping(at) THEN [layer EXCEPT ![at] = FreshLayer] ELSE layer
    BY <1>7 DEF GoesIn
  <2>2. CASE at = Cx
    <3>1. layer'[Cx] = FreshLayer
      BY <1>0, <2>1, <2>2 DEF Wrapping
    <3> QED BY <1>4, <3>1 DEF CodeSent, FreshLayer
  <2>3. CASE at > Cx
    <3>1. layer'[Cx] = layer[Cx]
      BY <1>0, <2>1, <2>3
    <3> QED BY <1>2, <1>4, <2>1, <2>3, <3>1 DEF CodeSent, SameSent
  <2> QED BY <1>0, <1>7, <2>1, <2>2, <2>3 DEF GoesIn
<1>8. CASE Refuses \/ Recovers
  <2>1. at \in 1..Len(chain) /\ at' = at - 1
    BY <1>8 DEF Refuses, Recovers
  <2> QED BY <1>6, <1>8, <2>1, PublicCalls
<1>9. CASE HandlerAnswers
  <2>1. CodeSent(Response) /\ Len(chain) >= Cx
    BY <1>0, <1>2, <1>9 DEF HandlerAnswers
  <2> QED BY <1>0, <1>9, <2>1, PublicCalls DEF Published
<1>10. CASE HandlerEnds
  <2>1. UNCHANGED <<layer, resp>> /\ at > Cx
    BY <1>0, <1>10 DEF HandlerEnds
  <2> QED BY <1>2, <1>4, <2>1 DEF CodeSent
<1>11. CASE ReturnsQuietly
  <2>1. at \in 1..Len(chain) /\ at' = at - 1 /\ UNCHANGED layer /\ SameSent
    BY <1>11 DEF ReturnsQuietly, Returns
  <2>2. CodeSent(Response)
    BY <1>0, <1>2, <2>1
  <2> QED BY <1>4, <2>1, <2>2 DEF CodeSent, SameSent
<1>12. CASE ReturnsCalling
  <2>1. at \in 1..Len(chain) /\ at' = at - 1
    BY <1>12 DEF ReturnsCalling, Returns
  <2> QED BY <1>6, <1>12, <2>1, PublicCalls
<1>13. CASE Retries
  <2>1. at \in 1..Len(chain) /\ at' = at + 1 /\ chain[at] = "retry" /\ going = "out" /\ UNCHANGED resp
    BY <1>13 DEF Retries
  <2>2. at >= Cx
    BY <1>0, <2>1, <1>13 DEF Retries
  <2>3. layer'[Cx] = layer[Cx]
    BY <1>0, <1>13, <2>1 DEF Retries
  <2> QED BY <1>0, <1>2, <1>4, <2>1, <2>2, <2>3 DEF CodeSent
<1>14. CASE Unwinds
  <2>1. at \in 1..Len(chain) /\ at' = at - 1
    BY <1>14 DEF Unwinds
  <2> QED BY <1>6, <1>14, <2>1, PublicCalls
<1>15. CASE Ends
  BY <1>0, <1>15 DEF Ends
<1> QED BY <1>1, <1>7, <1>8, <1>9, <1>10, <1>11, <1>12, <1>13, <1>14, <1>15

\* The parts of PublicInv together.
LEMMA PublicNext ==
  ASSUME Base, CacheableKept, PublicInv, Next
  PROVE  PublicInv'
<1>1. Frame
  BY StepKinds DEF Base
<1>2. /\ ("cache" \in Layers)' <=> "cache" \in Layers
      /\ Around("retry", "cache")' <=> Around("retry", "cache")
      /\ private' = private /\ Cx' = Cx /\ Kx' = Kx
  BY <1>1, SameChain DEF Frame, Cx, Kx
<1>3. Public \in resp'.header => "cache" \in Layers /\ ~private /\ Cx \in left'
  BY PublicHeaderNext
<1>4. Public \in resp'.sent => resp'.status \in Cacheable /\ ~private
  BY PublicSentNext
<1>5. "cache" \in Layers /\ ~private =>
        IF Around("retry", "cache") THEN KeptCode' ELSE SentCode'
  BY KeptCodeNext, SentCodeNext
<1> QED BY <1>2, <1>3, <1>4, <1>5
        DEF PublicInv, KeptCode, SentCode, SameCode, CodeSent, Response, Within, Cx

\* In any chain, the public that Cache adds is sent with cacheable statuses only,
\* and an answer that comes back from a private path says no-store, whatever the
\* upstream's own Cache-Control says (cache.go:42-58).
THEOREM NoErrorsMadePublic == Spec => []NoErrorMadePublic
<1>1. Init => PrivateInv /\ PublicInv
  <2> SUFFICES ASSUME Init PROVE PrivateInv /\ PublicInv
    OBVIOUS
  <2>1. "cache" \in Layers => Cx \in 1..Len(chain)
    BY BaseInit, BaseFacts, IndexType DEF Cx
  <2>2. PrivateInv
    BY <2>1, BaseInit DEF PrivateInv, RefusedOutside, Within, Cx
  <2>3. "retry" \in Layers => Kx \in 1..Len(chain)
    BY BaseInit, BaseFacts, IndexType DEF Kx
  <2>4. PublicInv
    BY <2>1, <2>3, BaseInit DEF PublicInv, Within, Around, Cx, Kx
  <2> QED BY <2>2, <2>4
<1>2. Base /\ PrivateInv /\ PublicInv /\ [Next]_vars => PrivateInv' /\ PublicInv'
  <2>1. Base /\ PrivateInv /\ UNCHANGED vars => PrivateInv'
    BY DEF PrivateInv, RefusedOutside, RefusalsStand, Within, vars, Layers, Index, Around, Cx
  <2>2. Base /\ PublicInv /\ UNCHANGED vars => PublicInv'
    BY DEF PublicInv, CacheableKept, Within, vars, Layers, Index, Around, Cx, Kx
  <2>3. ASSUME Base, Next, ~(private /\ RefusalsStand("cache")) PROVE PrivateInv'
    <3>1. Frame
      BY <2>3, StepKinds DEF Base
    <3> QED BY <2>3, <3>1, SameChain DEF PrivateInv, RefusalsStand, Frame
  <2>4. ASSUME Base, Next, ~CacheableKept PROVE PublicInv'
    <3>1. Frame
      BY <2>4, StepKinds DEF Base
    <3> QED BY <2>4, <3>1, SameChain DEF PublicInv, CacheableKept, Frame
  <2> QED BY <2>1, <2>2, <2>3, <2>4, PrivateNext, PublicNext
<1>3. Base /\ PrivateInv /\ PublicInv => NoErrorMadePublic
  BY DEF Base, Control, PrivateInv, PublicInv, NoErrorMadePublic, RefusalsStand, CacheableKept,
     Answered, Sent, NoStore, Public, Cx
<1> QED BY <1>1, <1>2, <1>3, BaseHolds, PTL DEF Spec
-----------------------------------------------------------------------------
(***************************************************************************)
(* Every request ends.                                                      *)
(***************************************************************************)
LEMMA Product ==
  ASSUME NEW a \in Nat, NEW w \in Nat
  PROVE  a * w \in Nat /\ (a - 1) * w = a * w - w
OBVIOUS

\* The steps of one attempt: there are fewer left after every step but for the
\* one with which Retry starts another, after which there are less than all.
LEMMA AttemptNext ==
  ASSUME Base, Next
  PROVE  /\ ThisAttempt \in Nat /\ ThisAttempt' \in Nat
         /\ IF Retries THEN ThisAttempt' < 2 * Len(chain) + 6 ELSE ThisAttempt' < ThisAttempt
<1> DEFINE N == Len(chain)
<1>0. /\ TypeOK /\ Control /\ N \in Nat \ {0} /\ Handler = N + 1 /\ at \in 0..Handler
      /\ did \in {"none", "header", "body"} /\ did' \in {"none", "header", "body"}
      /\ going = "in" => at \in 1..N + 1
      /\ going' = "in" => at' \in 1..N + 1
      /\ at' \in 0..N + 1
  <2>1. Base'
    BY BaseNext
  <2>2. /\ TypeOK' /\ Control'
    BY <2>1 DEF Base
  <2>3. UNCHANGED chain
    BY StepKinds DEF Base, Frame
  <2> QED BY <2>2, <2>3, BaseFacts DEF TypeOK, Control, Handler
<1>1. /\ UNCHANGED chain
      /\ \/ GoesIn \/ Refuses \/ HandlerAnswers \/ HandlerEnds \/ ReturnsQuietly
         \/ ReturnsCalling \/ Retries \/ Unwinds \/ Recovers \/ Ends
  BY <1>0, StepKinds DEF Frame
<1>2. /\ did = "none" => HandlerRest = 2
      /\ did = "header" => HandlerRest = 1
      /\ did = "body" => HandlerRest = 0
      /\ did' = "none" => HandlerRest' = 2
      /\ did' = "header" => HandlerRest' = 1
      /\ did' = "body" => HandlerRest' = 0
  BY DEF HandlerRest
<1>3. HandlerRest \in 0..2 /\ HandlerRest' \in 0..2
  BY <1>0, <1>2
<1>4. /\ going = "in" => ThisAttempt = 2 * N + 4 - at + HandlerRest
      /\ going \in {"out", "panic"} => ThisAttempt = at + 1
      /\ going \notin {"in", "out", "panic"} => ThisAttempt = 0
  BY DEF ThisAttempt
<1>5. /\ going' = "in" => ThisAttempt' = 2 * N + 4 - at' + HandlerRest'
      /\ going' \in {"out", "panic"} => ThisAttempt' = at' + 1
      /\ going' \notin {"in", "out", "panic"} => ThisAttempt' = 0
  BY <1>1 DEF ThisAttempt
<1>6. ThisAttempt \in Nat /\ ThisAttempt' \in Nat
  BY <1>0, <1>3, <1>4, <1>5
<1> HIDE DEF N
<1>7. ASSUME ~Retries PROVE ThisAttempt' < ThisAttempt
  <2>1. CASE GoesIn
    <3>1. going = "in" /\ going' = "in" /\ at' = at + 1 /\ did' = did
      BY <2>1 DEF GoesIn
    <3>2. HandlerRest' = HandlerRest
      BY <1>0, <1>2, <3>1
    <3> QED BY <1>0, <1>3, <1>4, <1>5, <3>1, <3>2
  <2>2. CASE Refuses
    <3>1. going = "in" /\ going' = "out" /\ at' = at - 1 /\ at \in 1..N
      BY <2>2 DEF Refuses, N
    <3> QED BY <1>0, <1>3, <1>4, <1>5, <3>1
  <2>3. CASE HandlerAnswers
    <3>1. /\ going = "in" /\ going' = "in" /\ at' = at
          /\ (did = "none" /\ did' = "header") \/ (did # "body" /\ did' = "body")
      BY <2>3 DEF HandlerAnswers
    <3>2. HandlerRest' < HandlerRest
      BY <1>0, <1>2, <3>1
    <3>3. ThisAttempt = 2 * N + 4 - at + HandlerRest /\ ThisAttempt' = 2 * N + 4 - at + HandlerRest'
      BY <1>4, <1>5, <3>1
    <3>4. N \in Nat /\ at \in Nat /\ HandlerRest \in Nat /\ HandlerRest' \in Nat
      BY <1>0, <1>3
    <3>5. \A n, i, h, k \in Nat : h < k => 2 * n + 4 - i + h < 2 * n + 4 - i + k
      OBVIOUS
    <3> QED BY <3>2, <3>3, <3>4, <3>5
  <2>4. CASE HandlerEnds
    <3>1. going = "in" /\ going' \in {"out", "panic"} /\ at = N + 1 /\ at' = at - 1
      BY <1>0, <2>4 DEF HandlerEnds
    <3> QED BY <1>0, <1>3, <1>4, <1>5, <3>1
  <2>5. CASE ReturnsQuietly \/ ReturnsCalling \/ Unwinds \/ Recovers
    <3>1. going \in {"out", "panic"} /\ going' \in {"out", "panic"} /\ at' = at - 1
      BY <2>5 DEF ReturnsQuietly, ReturnsCalling, Returns, Unwinds, Recovers
    <3> QED BY <1>0, <1>4, <1>5, <3>1
  <2>6. CASE Ends
    <3>1. going \in {"out", "panic"} /\ going' \notin {"in", "out", "panic"} /\ at = 0
      BY <2>6 DEF Ends
    <3> QED BY <1>4, <1>5, <3>1
  <2> QED BY <1>1, <1>7, <2>1, <2>2, <2>3, <2>4, <2>5, <2>6
<1>8. ASSUME Retries PROVE ThisAttempt' < 2 * N + 6
  <2>1. going' = "in" /\ at' \in 1..N + 1
    BY <1>0, <1>8 DEF Retries
  <2>2. ThisAttempt' = 2 * N + 4 - at' + HandlerRest'
    BY <1>5, <2>1
  <2>3. N \in Nat /\ at' \in Nat /\ at' >= 1 /\ HandlerRest' \in Nat /\ HandlerRest' <= 2
    BY <1>0, <1>3, <2>1
  <2>4. \A n, i, h \in Nat : h <= 2 /\ i >= 1 => 2 * n + 4 - i + h < 2 * n + 6
    OBVIOUS
  <2> QED BY <2>2, <2>3, <2>4
<1> QED BY <1>6, <1>7, <1>8 DEF N

LEMMA AttemptsNext ==
  ASSUME Base, Next
  PROVE  /\ AttemptsLeft \in Nat /\ AttemptsLeft' \in Nat
         /\ AttemptsLeft' = IF Retries THEN AttemptsLeft - 1 ELSE AttemptsLeft
<1> DEFINE r == Index("retry")
<1>0. /\ TypeOK /\ Control /\ MaxAttempts \in Nat \ {0}
      /\ layer \in [1..Len(chain) -> LayerState] /\ layer' \in [1..Len(chain) -> LayerState]
      /\ UNCHANGED chain
  BY StepKinds, BaseFacts, PipelineAssumption DEF Frame, State, Response
<1>1. /\ ("retry" \in Layers)' <=> "retry" \in Layers
      /\ Index("retry")' = r
  BY <1>0, SameChain
<1>2. CASE "retry" \notin Layers
  <2>1. ~Retries
    BY <1>0, <1>2, IndexType DEF Retries
  <2> QED BY <1>1, <1>2, <2>1 DEF AttemptsLeft
<1>3. CASE "retry" \in Layers
  <2>1. r \in 1..Len(chain) /\ \A i \in 1..Len(chain) : chain[i] = "retry" => i = r
    BY <1>0, <1>3, IndexType
  <2>2. AttemptsLeft = MaxAttempts - layer[r].tries /\ AttemptsLeft' = MaxAttempts - layer'[r].tries
    BY <1>1, <1>3 DEF AttemptsLeft
  <2>3. FreshRetry => (going = "in" /\ at <= r => layer[r].tries = 1)
    BY <1>3 DEF FreshRetry
  <2>4. layer[r].tries \in 1..MaxAttempts /\ layer'[r].tries \in 1..MaxAttempts
    BY <1>0, <2>1 DEF LayerState
  <2> HIDE DEF r
  <2>5. CASE Retries
    <3>1. at = r
      BY <2>1, <2>5 DEF Retries
    <3>2. layer'[r].tries = layer[r].tries + 1
      BY <1>0, <2>1, <2>5, <3>1 DEF Retries
    <3> QED BY <1>0, <2>2, <2>4, <2>5, <3>2
  <2>6. CASE GoesIn
    <3>1. ~Retries /\ going = "in" /\ at \in 1..Len(chain)
      BY <2>6 DEF GoesIn, Retries
    <3>2. layer'[r].tries = layer[r].tries
      <4>1. CASE at = r
        <5>1. layer[r].tries = 1
          BY <2>1, <2>3, <3>1, <4>1 DEF Base
        <5>2. layer'[r] = layer[r] \/ layer'[r] = FreshLayer
          BY <1>0, <2>1, <2>6 DEF GoesIn
        <5> QED BY <5>1, <5>2 DEF FreshLayer
      <4>2. CASE at # r
        BY <1>0, <2>1, <2>6, <4>2 DEF GoesIn
      <4> QED BY <4>1, <4>2
    <3> QED BY <1>0, <2>2, <2>4, <3>1, <3>2
  <2>7. CASE ~Retries /\ ~GoesIn
    <3>1. layer'[r].tries = layer[r].tries
      BY <2>1, <2>7, StepEffect
    <3> QED BY <1>0, <2>2, <2>4, <2>7, <3>1
  <2> QED BY <2>5, <2>6, <2>7
<1> QED BY <1>2, <1>3

\* Every step brings the request closer to its end, with any number of attempts.
THEOREM AlwaysCloser == Spec => EverCloser
<1>1. Base /\ [Next]_vars => [Distance' >= 0 /\ Distance' < Distance]_vars
  <2> SUFFICES ASSUME Base, Next PROVE Distance' >= 0 /\ Distance' < Distance
    OBVIOUS
  <2> DEFINE W == 2 * Len(chain) + 6
             a == AttemptsLeft
             t == ThisAttempt
  <2>1. W \in Nat /\ UNCHANGED chain
    BY BaseFacts, StepKinds DEF Frame
  <2>2. Distance = a * W + t /\ Distance' = a' * W + t'
    BY <2>1 DEF Distance
  <2>3. /\ a \in Nat /\ a' \in Nat
        /\ a' = IF Retries THEN a - 1 ELSE a
    BY AttemptsNext
  <2>4. /\ t \in Nat /\ t' \in Nat
        /\ IF Retries THEN t' < W ELSE t' < t
    BY AttemptNext
  <2> HIDE DEF W, a, t
  <2>5. a * W \in Nat /\ a' * W \in Nat /\ (a - 1) * W = a * W - W
    BY <2>1, <2>3, Product
  <2> DEFINE p == a * W
             q == a' * W
  <2>6. p \in Nat /\ q \in Nat /\ q = IF Retries THEN p - W ELSE p
    BY <2>3, <2>5
  <2>7. Distance = p + t /\ Distance' = q + t'
    BY <2>2
  <2> HIDE DEF p, q
  <2>8. p \in Nat /\ q \in Nat /\ t \in Nat /\ t' \in Nat /\ W \in Nat
    BY <2>1, <2>4, <2>6
  <2>9. (q = p - W /\ t' < W) \/ (q = p /\ t' < t)
    BY <2>4, <2>6
  <2>10. \A i, j, k, l, m \in Nat :
           (j = i - m /\ l < m) \/ (j = i /\ l < k) => j + l >= 0 /\ j + l < i + k
    OBVIOUS
  <2>11. q + t' >= 0 /\ q + t' < p + t
    BY <2>8, <2>9, <2>10
  <2> QED BY <2>7, <2>11
<1> QED BY <1>1, BaseHolds, PTL DEF Spec, EverCloser
=============================================================================
