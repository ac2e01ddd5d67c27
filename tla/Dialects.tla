------------------------------ MODULE Dialects ------------------------------
(***************************************************************************)
(* A request that is routed to another provider than the one its client    *)
(* speaks to: whether it may cross, what of it arrives, and how the        *)
(* provider's stream becomes OpenAI chunks (the provider's translator) and *)
(* those become the events of the client's own SDK (the client renderer).  *)
(*                                                                         *)
(* Text and tool arguments are sequences of numbered pieces.  `said' is    *)
(* the answer as the provider gave it and `client' what the SDK has        *)
(* accumulated: both are outside the repository, and what they may contain *)
(* is taken from how the code under them reads and writes events.          *)
(***************************************************************************)
EXTENDS Integers, Sequences, SequencesExt

CONSTANTS
  Pairs,      \* the pairs <<client dialect, provider>> to look at
  Asks,       \* the requests clients send: [role, blocks, extras]
  Cuts,       \* where a network chunk may end so that it matters
  MaxPieces,  \* bound on the pieces of one answer
  MaxCalls    \* bound on its tool calls

Parties == {"openai", "anthropic", "gemini"}
AllBlocks == {"text", "image", "tool_use", "tool_result"}
AllExtras == {"system", "developer", "tools", "typed_tool", "server_tool", "cache_control", "beta",
              "safety", "temperature", "max_tokens", "sampling", "tool_choice", "json"}

\* Every API takes tool calls from the assistant only and tool results and
\* images from the user only.
AllAsks == [role : {"user"}, blocks : SUBSET (AllBlocks \ {"tool_use"}), extras : SUBSET AllExtras] \cup
           [role : {"assistant"}, blocks : SUBSET {"text", "tool_use"}, extras : SUBSET AllExtras]

\* The native dialects reach the translation only on their way to another
\* provider.
ASSUME DialectsAssumption ==
  /\ Pairs \subseteq {p \in Parties \X Parties : p[1] = p[2] => p[1] = "openai"}
  /\ Asks \subseteq AllAsks
  /\ Cuts \subseteq {"character", "newline"}
  /\ {MaxPieces, MaxCalls} \subseteq Nat

VARIABLES
  pc,      \* the handler: deciding, streaming, or done
  pair,    \* client dialect and provider
  ask,     \* the client's request
  wire,    \* the request the provider got
  said,    \* the provider's answer so far
  up,      \* how far the provider is in its stream
  held,    \* an event whose blank line has not arrived yet
  cut,     \* what cuts in the wrong place have done to this stream so far
  tr,      \* the provider's stream translator
  ren,     \* the client's stream renderer
  client,  \* the SDK's accumulator
  result   \* the completion handed to capture

vars == <<pc, pair, ask, wire, said, up, held, cut, tr, ren, client, result>>
streamVars == <<said, up, held, cut, tr, ren, client, result>>

NoAsk == [role |-> "user", blocks |-> {}, extras |-> {}]
NoUsage == [inp |-> 0, out |-> 0]
NoEvent == [k |-> "none"]
NoResult == [k |-> "none"]
NoBlock == -1

-----------------------------------------------------------------------------
(* The request *)

\* The reasons to refuse a crossing, by dialect.
AnthropicIneligibility(a) == a.extras \cap {"cache_control", "beta", "server_tool"} # {}

GeminiIneligibility(a) == "safety" \in a.extras \/ "image" \in a.blocks

OpenAIIneligibility(a) ==
  a.extras \cap {"server_tool", "typed_tool"} # {} \/ "image" \in a.blocks

CrossProviderIneligible(c, u, a) ==
  /\ c # u
  /\ CASE c = "anthropic" -> AnthropicIneligibility(a)
       [] c = "gemini" -> GeminiIneligibility(a)
       [] c = "openai" -> OpenAIIneligibility(a)

\* Tool results displace whatever else their message holds; an assistant's
\* tool calls keep its text; a tool with a type, and every parameter but two,
\* has no counterpart.
Carried == {"system", "tools", "temperature", "max_tokens"}

Mapped(a) ==
  IF a.role = "user" /\ "tool_result" \in a.blocks THEN {"tool_result"}
  ELSE IF a.role = "assistant" THEN a.blocks \cap {"text", "tool_use"}
  ELSE a.blocks \cap {"text"}

AnthropicRequestToOpenAI(a) == [a EXCEPT !.blocks = Mapped(a), !.extras = @ \cap Carried]

GeminiRequestToOpenAI(a) == [a EXCEPT !.blocks = Mapped(a), !.extras = @ \cap Carried]

RequestToOpenAIShape(c, a) ==
  CASE c = "openai" -> a
    [] c = "anthropic" -> AnthropicRequestToOpenAI(a)
    [] c = "gemini" -> GeminiRequestToOpenAI(a)

\* The adapters write the same subset into the provider's wire; OpenAI's is
\* the identity.
AnthropicPrepare(a) == [a EXCEPT !.blocks = @ \ {"image"}, !.extras = @ \cap Carried]

\* Mutant: the system prompt is not carried over.
GeminiPrepareWithoutSystem(a) ==
  [a EXCEPT !.blocks = @ \ {"image"}, !.extras = @ \cap (Carried \ {"system"})]

GeminiPrepare(a) == [a EXCEPT !.blocks = @ \ {"image"}, !.extras = @ \cap Carried]

PrepareRequest(u, a) ==
  CASE u = "openai" -> a
    [] u = "anthropic" -> AnthropicPrepare(a)
    [] u = "gemini" -> GeminiPrepare(a)

-----------------------------------------------------------------------------
(* Provider streams into OpenAI chunks *)

Chunk(k, i, ps, why) == [k |-> k, i |-> i, ps |-> ps, why |-> why]
Role == Chunk("role", 0, << >>, "")
TextChunk(p) == Chunk("text", 0, <<p>>, "")
ToolChunk(i, ps) == Chunk("tool", i, ps, "")
FinishChunk(why) == Chunk("finish", 0, << >>, why)
Done == Chunk("done", 0, << >>, "")

Translated(t, cs) == [t |-> t, cs |-> cs]

\* Usage reports are cumulative and may leave fields out.
Merge(prev, rep) == [f \in {"inp", "out"} |-> IF f \in DOMAIN rep THEN rep[f] ELSE prev[f]]

\* Mutant: a report replaces what was known.
UsageFromAnthropicReplaced(prev, rep) ==
  [f \in {"inp", "out"} |-> IF f \in DOMAIN rep THEN rep[f] ELSE 0]

UsageFromAnthropic(prev, rep) == Merge(prev, rep)

UsageFromMetadata(prev, rep) == Merge(prev, rep)

\* input_json_delta.
TakePiece(blocks, i, p) ==
  IF i \in DOMAIN blocks THEN [blocks EXCEPT ![i] = Append(@, p)]
  ELSE [j \in DOMAIN blocks \cup {i} |-> IF j = i THEN <<p>> ELSE blocks[j]]

\* AnthropicStreamTranslator: a tool call is passed on whole, when its block
\* stops, under the number of calls before it.  Pieces whose block never began
\* begin one, the end of a block that never began is nothing.
AnthropicHandleEvent(t, e) ==
  CASE e.k = "start" -> Translated([t EXCEPT !.usage = UsageFromAnthropic(@, e.usage)], <<Role>>)
    [] e.k = "text" -> Translated([t EXCEPT !.text = Append(@, e.p)], <<TextChunk(e.p)>>)
    [] e.k = "tool_open" -> Translated([t EXCEPT !.blocks = [j \in DOMAIN @ \cup {e.i} |->
                                          IF j = e.i THEN << >> ELSE @[j]]], << >>)
    [] e.k = "tool_piece" -> Translated([t EXCEPT !.blocks = TakePiece(@, e.i, e.p)], << >>)
    [] e.k = "tool_close" /\ e.i \notin DOMAIN t.blocks -> Translated(t, << >>)
    [] e.k = "tool_close" /\ e.i \in DOMAIN t.blocks ->
         Translated([t EXCEPT !.calls = Append(@, t.blocks[e.i]),
                              !.blocks = [j \in DOMAIN @ \ {e.i} |-> @[j]]],
                    <<ToolChunk(Len(t.calls), t.blocks[e.i])>>)
    [] e.k = "last" -> Translated([t EXCEPT !.usage = UsageFromAnthropic(@, e.usage), !.why = e.why], << >>)
    [] e.k = "stop" -> Translated(t, <<FinishChunk(t.why), Done>>)

\* GeminiStreamTranslator: calls arrive whole, and the last payload gives the
\* reason, the usage and the end.
GeminiHandlePayload(t, e) ==
  LET v == [t EXCEPT !.usage = UsageFromMetadata(@, e.usage)]
  IN CASE e.k = "text" -> Translated([v EXCEPT !.text = Append(@, e.p)], <<TextChunk(e.p)>>)
       [] e.k = "tool_whole" -> Translated([v EXCEPT !.calls = Append(@, <<e.p>>)],
                                           <<ToolChunk(Len(t.calls), <<e.p>>)>>)
       [] e.k = "last" -> Translated([v EXCEPT !.why = e.why], <<FinishChunk(e.why), Done>>)

\* OpenAIStreamTranslator: the bytes go through, and the copy is assembled at
\* the end by call index.
AccumulateToolCalls(calls, i, p) ==
  IF i > Len(calls) THEN Append(calls, <<p>>) ELSE [calls EXCEPT ![i] = Append(@, p)]

OpenAIPush(t, e) ==
  CASE e.k = "start" -> Translated(t, <<Role>>)
    [] e.k = "text" -> Translated([t EXCEPT !.text = Append(@, e.p)], <<TextChunk(e.p)>>)
    [] e.k = "tool_piece" -> Translated([t EXCEPT !.calls = AccumulateToolCalls(@, e.i, e.p)],
                                        <<ToolChunk(e.i - 1, <<e.p>>)>>)
    [] e.k = "last" -> Translated([t EXCEPT !.why = e.why], <<FinishChunk(e.why)>>)
    [] e.k = "stop" -> Translated([t EXCEPT !.usage = e.usage], <<Done>>)

Push(u, t, e) ==
  CASE u = "openai" -> OpenAIPush(t, e)
    [] u = "anthropic" -> AnthropicHandleEvent(t, e)
    [] u = "gemini" -> GeminiHandlePayload(t, e)

NewTranslator == [text |-> << >>, blocks |-> << >>, calls |-> << >>, why |-> "stop", usage |-> NoUsage]

Completion(t) == [k |-> "completion", text |-> t.text, calls |-> t.calls, why |-> t.why, usage |-> t.usage]

-----------------------------------------------------------------------------
(* OpenAI chunks into the client's events *)

Rendered(r, es) == [r |-> r, es |-> es]
NewRenderer == [started |-> FALSE, text |-> NoBlock, spoke |-> FALSE, next |-> 0,
                slots |-> << >>, open |-> << >>, closed |-> FALSE]

Ev(k, i, ps) == [k |-> k, i |-> i, ps |-> ps]
MessageStart(r) == IF r.started THEN << >> ELSE <<Ev("message_start", 0, << >>)>>

\* Mutant: the block of an interrupted text stays open.
CloseTextBlockNot(r) == << >>

CloseTextBlock(r) == IF r.text = NoBlock THEN << >> ELSE <<Ev("block_stop", r.text, << >>)>>

EmitText(r, ps) ==
  LET fresh == r.text = NoBlock
      i == IF fresh THEN r.next ELSE r.text
  IN Rendered([r EXCEPT !.started = TRUE, !.spoke = TRUE, !.text = i,
                        !.next = IF fresh THEN @ + 1 ELSE @],
              MessageStart(r) \o (IF fresh THEN <<Ev("text_start", i, << >>)>> ELSE << >>)
                              \o <<Ev("delta", i, ps)>>)

\* A fragment goes to the block of its call index; the first one opens it,
\* after the text block, with what is known of the arguments as its input.
EmitToolCallFragment(r, i, ps) ==
  LET known == \E j \in DOMAIN r.slots : r.slots[j] = i
      at == IF known THEN CHOOSE j \in DOMAIN r.slots : r.slots[j] = i ELSE Len(r.slots) + 1
      block == IF known THEN r.open[at] ELSE r.next
  IN Rendered([r EXCEPT !.started = TRUE, !.text = NoBlock,
                        !.slots = IF known THEN @ ELSE Append(@, i),
                        !.open = IF known THEN @ ELSE Append(@, block),
                        !.next = IF known THEN @ ELSE @ + 1],
              MessageStart(r) \o CloseTextBlock(r)
                \o (IF known THEN << >> ELSE <<Ev("tool_start", block, ps)>>)
                \o <<Ev("delta", block, ps)>>)

AnthropicRender(r, c) ==
  CASE c.k = "role" -> Rendered([r EXCEPT !.started = TRUE], MessageStart(r))
    [] c.k = "text" -> EmitText(r, c.ps)
    [] c.k = "tool" -> EmitToolCallFragment(r, c.i, c.ps)
    [] OTHER -> Rendered(r, << >>)

\* Tool calls decide; then the provider's reason.
AnthropicStopReason(why, calls) ==
  IF calls # << >> THEN "tool_use" ELSE IF why = "length" THEN "max_tokens" ELSE "end_turn"

\* _finish_stream: what was not streamed is sent, every block is closed, and
\* the message ends.
AnthropicFinish(r, done) ==
  LET late == IF ~r.spoke /\ done.text # << >> THEN EmitText(r, done.text)
              ELSE Rendered(r, MessageStart(r))
      stops == [j \in DOMAIN r.open |-> Ev("block_stop", r.open[j], << >>)]
      base == late.r.next
      rest == IF r.slots # << >> THEN << >>
              ELSE FlattenSeq([j \in DOMAIN done.calls |->
                     <<Ev("tool_start", base + j - 1, done.calls[j]), Ev("block_stop", base + j - 1, << >>)>>])
  IN late.es \o CloseTextBlock(late.r) \o stops \o rest
       \o <<[k |-> "message_delta", why |-> AnthropicStopReason(done.why, done.calls)], [k |-> "message_stop"]>>

\* Gemini: text at once, tool calls only at the end, from the completion.
GeminiRender(r, c) ==
  CASE c.k = "text" -> Rendered([r EXCEPT !.spoke = TRUE], <<Ev("parts", 0, c.ps)>>)
    [] OTHER -> Rendered(r, << >>)

GeminiFinish(r, done) ==
  (IF ~r.spoke /\ done.text # << >> THEN <<Ev("parts", 0, done.text)>> ELSE << >>)
    \o <<[k |-> "final", calls |-> done.calls, why |-> done.why]>>

Render(c, r, chunk) ==
  CASE c = "openai" -> Rendered(r, <<chunk>>)
    [] c = "anthropic" -> AnthropicRender(r, chunk)
    [] c = "gemini" -> GeminiRender(r, chunk)

RenderNext(c, acc, chunk) ==
  LET s == Render(c, acc.r, chunk) IN Rendered(s.r, acc.es \o s.es)

RenderAll(c, r, cs) == FoldLeft(LAMBDA acc, chunk : RenderNext(c, acc, chunk), Rendered(r, << >>), cs)

RenderFinish(c, r, done) ==
  CASE c = "openai" -> << >>
    [] c = "anthropic" -> AnthropicFinish(r, done)
    [] c = "gemini" -> GeminiFinish(r, done)

-----------------------------------------------------------------------------
(* What an SDK makes of its events (external) *)

NewClient == [begun |-> FALSE, text |-> << >>, blocks |-> << >>, tools |-> << >>, why |-> "", ended |-> FALSE, ok |-> TRUE]

\* A block is a text or a call; its number is its place.  Arguments that come
\* as pieces replace the input the block began with.
Begin(g, tool, i, ps) ==
  [g EXCEPT !.ok = @ /\ g.begun /\ ~g.ended /\ i = Len(g.blocks),
            !.blocks = Append(@, [open |-> TRUE, input |-> ps, ps |-> << >>]),
            !.tools = IF tool THEN Append(@, i) ELSE @]
Within(g, i) == i < Len(g.blocks) /\ g.blocks[i + 1].open
IsTool(g, i) == \E j \in DOMAIN g.tools : g.tools[j] = i
Extend(g, i, ps) ==
  IF ~Within(g, i) THEN [g EXCEPT !.ok = FALSE]
  ELSE [g EXCEPT !.blocks[i + 1].ps = g.blocks[i + 1].ps \o ps,
                 !.text = IF IsTool(g, i) THEN @ ELSE @ \o ps]
Stop(g, i) == IF ~Within(g, i) THEN [g EXCEPT !.ok = FALSE] ELSE [g EXCEPT !.blocks[i + 1].open = FALSE]

AnthropicReads(g, e) ==
  CASE e.k = "message_start" -> [g EXCEPT !.begun = TRUE, !.ok = @ /\ ~g.begun]
    [] e.k = "text_start" -> Begin(g, FALSE, e.i, << >>)
    [] e.k = "tool_start" -> Begin(g, TRUE, e.i, e.ps)
    [] e.k = "delta" -> Extend(g, e.i, e.ps)
    [] e.k = "block_stop" -> Stop(g, e.i)
    [] e.k = "message_delta" ->
         [g EXCEPT !.why = e.why, !.ok = @ /\ g.begun /\ \A j \in DOMAIN g.blocks : ~g.blocks[j].open]
    [] e.k \in {"message_stop", "error"} -> [g EXCEPT !.ended = TRUE, !.ok = @ /\ ~g.ended]

GeminiReads(g, e) ==
  CASE e.k = "parts" -> [g EXCEPT !.text = @ \o e.ps, !.ok = @ /\ ~g.ended]
    [] e.k = "final" ->
         [g EXCEPT !.why = e.why, !.ended = TRUE, !.ok = @ /\ ~g.ended,
                   !.blocks = [j \in DOMAIN e.calls |-> [open |-> FALSE, input |-> e.calls[j], ps |-> << >>]],
                   !.tools = [j \in DOMAIN e.calls |-> j - 1]]
    [] e.k = "error" -> [g EXCEPT !.ended = TRUE, !.ok = @ /\ ~g.ended]

OpenAIReads(g, e) ==
  IF g.ended THEN [g EXCEPT !.ok = @ /\ e.k = "error"]
  ELSE CASE e.k = "text" -> [g EXCEPT !.text = @ \o e.ps]
         [] e.k = "tool" ->
              IF e.i < Len(g.blocks) THEN [g EXCEPT !.blocks[e.i + 1].ps = g.blocks[e.i + 1].ps \o e.ps]
              ELSE [g EXCEPT !.ok = @ /\ e.i = Len(g.blocks),
                             !.blocks = Append(@, [open |-> FALSE, input |-> << >>, ps |-> e.ps]),
                             !.tools = Append(@, Len(g.blocks))]
         [] e.k = "finish" -> [g EXCEPT !.why = e.why]
         [] e.k \in {"done", "error"} -> [g EXCEPT !.ended = TRUE]
         [] OTHER -> g

ReadOne(c, g, e) ==
  CASE c = "openai" -> OpenAIReads(g, e)
    [] c = "anthropic" -> AnthropicReads(g, e)
    [] c = "gemini" -> GeminiReads(g, e)

Reads(c, g, es) == FoldLeft(LAMBDA h, e : ReadOne(c, h, e), g, es)

Arguments(b) == IF b.ps # << >> THEN b.ps ELSE b.input
Calls(g) == [j \in DOMAIN g.tools |-> Arguments(g.blocks[g.tools[j] + 1])]

-----------------------------------------------------------------------------
(* The handler *)

Init ==
  /\ pc = "ask"
  /\ pair \in Pairs
  /\ ask \in Asks
  /\ wire = NoAsk
  /\ said = [n |-> 0, text |-> << >>, calls |-> << >>, usage |-> NoUsage]
  /\ up = [phase |-> "start", open |-> 0]
  /\ held = NoEvent
  /\ cut = "none"
  /\ tr = NewTranslator
  /\ ren = NewRenderer
  /\ client = NewClient
  /\ result = NoResult

\* A request that cannot cross goes to its own provider instead.
StayHome ==
  /\ pc = "ask"
  /\ CrossProviderIneligible(pair[1], pair[2], ask)
  /\ pc' = "home"
  /\ UNCHANGED <<pair, ask, wire, streamVars>>

Send ==
  /\ pc = "ask"
  /\ ~CrossProviderIneligible(pair[1], pair[2], ask)
  /\ wire' = PrepareRequest(pair[2], RequestToOpenAIShape(pair[1], ask))
  /\ pc' = "sent"
  /\ UNCHANGED <<pair, ask, streamVars>>

\* A status of 200: what was asked no longer matters.
Opened ==
  /\ pc = "sent"
  /\ pc' = "stream"
  /\ ask' = NoAsk
  /\ wire' = NoAsk
  /\ UNCHANGED <<pair, streamVars>>

\* Any other status: the provider's error body is relayed as it came.
Relayed ==
  /\ pc = "sent"
  /\ pc' = "relayed"
  /\ UNCHANGED <<pair, ask, wire, streamVars>>

\* The next event of a well-formed provider stream (external).
Open == pc = "stream" /\ held = NoEvent
SayText ==
  LET p == said.n + 1
      usage == IF pair[2] = "gemini" THEN [inp |-> 1, out |-> p] ELSE << >>
  IN /\ up.phase \in {"body"} \cup (IF pair[2] = "gemini" THEN {"start"} ELSE {})
     /\ up.open = 0
     /\ said' = [said EXCEPT !.n = p, !.text = Append(@, p), !.usage = Merge(@, usage)]
     /\ held' = [k |-> "text", p |-> p, usage |-> usage]
     /\ up' = [up EXCEPT !.phase = "body"]

SayStart ==
  LET usage == IF pair[2] = "anthropic" THEN [inp |-> 1, out |-> 1] ELSE << >>
  IN /\ up.phase = "start" /\ pair[2] # "gemini"
     /\ up' = [up EXCEPT !.phase = "body"]
     /\ said' = [said EXCEPT !.usage = Merge(@, usage)]
     /\ held' = [k |-> "start", usage |-> usage]

SayToolOpen ==
  /\ pair[2] = "anthropic" /\ up.phase = "body" /\ up.open = 0
  /\ Len(said.calls) < MaxCalls
  /\ said' = [said EXCEPT !.calls = Append(@, << >>)]
  /\ up' = [up EXCEPT !.open = Len(said.calls) + 1]
  /\ held' = [k |-> "tool_open", i |-> Len(said.calls) + 1]

SayToolPiece(i) ==
  LET p == said.n + 1
  IN /\ up.phase = "body"
     /\ \/ pair[2] = "anthropic" /\ i = up.open /\ i # 0
        \/ pair[2] = "openai" /\ i \in 1..(Len(said.calls) + 1) /\ i <= MaxCalls
     /\ said' = [said EXCEPT !.n = p, !.calls = AccumulateToolCalls(@, i, p)]
     /\ held' = [k |-> "tool_piece", i |-> i, p |-> p]
     /\ UNCHANGED up

SayToolClose ==
  /\ up.open # 0
  /\ said.calls[up.open] # << >>
  /\ held' = [k |-> "tool_close", i |-> up.open]
  /\ up' = [up EXCEPT !.open = 0]
  /\ UNCHANGED said

SayToolWhole ==
  LET p == said.n + 1
      usage == [inp |-> 1, out |-> p]
  IN /\ pair[2] = "gemini" /\ up.phase # "over"
     /\ Len(said.calls) < MaxCalls
     /\ said' = [said EXCEPT !.n = p, !.calls = Append(@, <<p>>), !.usage = usage]
     /\ held' = [k |-> "tool_whole", p |-> p, usage |-> usage]
     /\ up' = [up EXCEPT !.phase = "body"]

\* The last report of usage may be missing.
SayLast(why) ==
  LET usage == IF pair[2] = "openai" THEN << >> ELSE [out |-> 9]
  IN /\ up.phase = "body" /\ up.open = 0
     /\ up' = [up EXCEPT !.phase = IF pair[2] = "gemini" THEN "over" ELSE "last"]
     /\ \E rep \in {usage, << >>} :
          /\ said' = [said EXCEPT !.usage = Merge(@, rep)]
          /\ held' = [k |-> "last", why |-> why, usage |-> rep]

SayStop ==
  LET usage == [inp |-> 1, out |-> 9]
  IN /\ up.phase = "last"
     /\ up' = [up EXCEPT !.phase = "over"]
     /\ IF pair[2] = "openai"
        THEN /\ said' = [said EXCEPT !.usage = usage]
             /\ held' = [k |-> "stop", usage |-> usage]
        ELSE /\ held' = [k |-> "stop"]
             /\ UNCHANGED said

Arrive ==
  /\ Open
  /\ \/ SayStart
     \/ said.n < MaxPieces /\ (SayText \/ SayToolWhole \/ \E i \in 1..MaxCalls : SayToolPiece(i))
     \/ said.n < MaxPieces /\ SayToolOpen
     \/ SayToolClose
     \/ \E why \in {"stop", "length"} : SayLast(why)
     \/ SayStop
  /\ UNCHANGED <<pc, pair, ask, wire, cut, tr, ren, client, result>>

\* The SSE decoders: bytes that have no blank line yet wait for the next chunk.
Buffered == held # NoEvent

\* The rest of an event arrives: through translator and renderer to the client.
HandleChunk ==
  LET step == Push(pair[2], tr, held)
      all == RenderAll(pair[1], ren, step.cs)
  IN /\ pc = "stream"
     /\ Buffered
     /\ cut # "glued"
     /\ held' = NoEvent
     /\ tr' = step.t
     /\ ren' = all.r
     /\ client' = Reads(pair[1], client, all.es)
     /\ UNCHANGED <<pc, pair, ask, wire, said, up, cut, result>>

\* The decoders decode every chunk by itself.  A chunk that ends within a
\* character leaves two that were never sent; one that ends after the third
\* byte of CR LF CR LF hides the blank line, so that two events are read as
\* one, which is no JSON and is skipped.
Garbled(e) == [e EXCEPT !.p = -e.p]
Decoded(e) == IF e = NoEvent THEN Translated(tr, << >>) ELSE Push(pair[2], tr, e)

\* The bytes of an OpenAI stream are decoded on their way to a native client
\* only: those kept for the completion stay whole.
HandleTorn(seen) ==
  LET all == RenderAll(pair[1], ren, Decoded(seen).cs)
  IN /\ pc = "stream"
     /\ Buffered
     /\ pair # <<"openai", "openai">>
     /\ held' = NoEvent
     /\ tr' = Decoded(IF pair[2] = "openai" THEN held ELSE seen).t
     /\ ren' = all.r
     /\ client' = Reads(pair[1], client, all.es)
     /\ UNCHANGED <<pc, pair, ask, wire, said, up, result>>

CutInCharacter ==
  /\ "character" \in Cuts /\ cut # "glued"
  /\ "p" \in DOMAIN held
  /\ cut' = "spoilt"
  /\ HandleTorn(Garbled(held))

CutInNewline ==
  /\ "newline" \in Cuts
  /\ cut' = "glued"
  /\ HandleTorn(NoEvent)

\* The event an earlier one is glued to.
SkipGlued ==
  /\ cut = "glued"
  /\ cut' = "spoilt"
  /\ HandleTorn(NoEvent)

\* The handler's end of a stream, with the completion the translator gives.
Close(done) ==
  /\ pc = "stream"
  /\ Buffered => up.phase # "over"
  /\ held' = NoEvent
  /\ ren' = [ren EXCEPT !.closed = TRUE]
  /\ client' = Reads(pair[1], client, RenderFinish(pair[1], ren, done))
  /\ result' = done
  /\ pc' = "closed"
  /\ UNCHANGED <<pair, ask, wire, said, up>>

\* The provider closes its stream, after the last event or before; bytes
\* without their blank line are dropped.
Finish ==
  /\ Close(Completion(tr))
  /\ UNCHANGED <<cut, tr>>

\* OpenAIStreamTranslator.finish reads line by line: an event that has come
\* but for its blank line counts for the completion, and for a native client
\* with it.
FinishShort ==
  /\ pair[2] = "openai" /\ Buffered
  /\ tr' = OpenAIPush(tr, held).t
  /\ cut' = IF cut = "none" THEN "short" ELSE cut
  /\ Close(Completion(tr'))

\* A read error, a silent provider, or the cap on the whole stream: the client
\* is told, nothing is captured.
Fail ==
  /\ pc = "stream"
  /\ client' = Reads(pair[1], client, <<[k |-> "error"]>>)
  /\ held' = NoEvent
  /\ pc' = "failed"
  /\ UNCHANGED <<pair, ask, wire, said, up, cut, tr, ren, result>>

Ended == pc \in {"home", "relayed", "closed", "failed"}

Next ==
  \/ StayHome
  \/ Send
  \/ Opened
  \/ Relayed
  \/ Arrive
  \/ HandleChunk
  \/ CutInCharacter
  \/ CutInNewline
  \/ SkipGlued
  \/ Finish
  \/ FinishShort
  \/ Fail
  \/ Ended /\ UNCHANGED vars

Spec == Init /\ [][Next]_vars

-----------------------------------------------------------------------------
(* Properties *)

\* At no moment of a stream has the client's SDK been handed an event it
\* cannot place (a delta for a block that is not open, a number out of turn,
\* anything after the end), wherever the provider's chunks are cut; and however
\* the stream ends, a native client is told so once, and told to run tools
\* exactly when it was given some.  As long as no cut has spoilt it, the text
\* is what the provider said, in that order.
ClientIsNotMisled ==
  /\ client.ok
  /\ pc \in {"closed", "failed"} /\ pair[1] # "openai" => client.ended
  /\ pc = "closed" /\ pair[1] = "anthropic" => (client.why = "tool_use" <=> Calls(client) # << >>)
  /\ cut \in {"none", "short"} => IsPrefix(client.text, said.text)

\* A stream that the provider finished is metered whole, the text and every
\* tool call with its arguments, and the last known usage even when the
\* terminal event carries none, and it reaches the client whole: a stream in
\* which no cut did harm, and for the ledger every stream of OpenAI's.
WholeAnswer ==
  pc = "closed" /\ up.phase = "over" =>
    /\ cut = "none" => client.text = said.text /\ Calls(client) = said.calls
    /\ cut = "none" \/ pair[2] = "openai" =>
         result.text = said.text /\ result.calls = said.calls /\ result.usage = said.usage

\* A request made of one kind of content, the system prompt, function tools,
\* temperature and token limit arrives as it was asked, from every dialect at
\* every provider.
Plain(a) == a.blocks \in {{"text"}, {"tool_use"}, {"tool_result"}} /\ a.extras \subseteq Carried
PlainRequestsSurvive == pc = "sent" /\ Plain(ask) => wire = ask
=============================================================================
