------------------------------ MODULE GptCache ------------------------------
(***************************************************************************)
(* The ChatGPT proxy (code/GPT/main.go): requests look their prompt up in  *)
(* a cache, ask the API when it is not there and store the answer; every   *)
(* 5 h a ticker regenerates all entries under the cache's write lock. The  *)
(* answers of the API are known by the time they were given at.  The page  *)
(* that asks is ExhibitPage; a module can extend both.                     *)
(***************************************************************************)
EXTENDS Naturals

CONSTANTS
  Client, Prompt,
  MaxTime   \* bound: the API's clock

NoPrompt == "none"

ASSUME GptAssumption ==
  /\ MaxTime \in Nat \ {0}
  /\ NoPrompt \notin Prompt

VARIABLES
  now,       \* the API's clock: what it answers now
  cache,     \* cache[p]: the answer stored, 0 if there is none
  pc,        \* where each chatHandler is
  prompt,    \* its prompt
  response,  \* its answer, 0 an error
  todo,      \* RefreshCache: the prompts not regenerated yet
  asked,     \* RefreshCache: the prompt the API is working on
  locked,    \* RefreshCache holds the write lock
  since,     \* when it took it
  failed     \* the prompts its API calls failed for

handlers == <<pc, prompt, response>>
refresh  == <<todo, asked, locked, since, failed>>
proxyVars == <<now, cache, handlers, refresh>>

Time == 1..MaxTime

ProxyTypeOK ==
  /\ now \in Time
  /\ cache \in [Prompt -> 0..MaxTime]
  /\ pc \in [Client -> {"idle", "get", "generate", "set", "reply"}]
  /\ prompt \in [Client -> Prompt \cup {NoPrompt}]
  /\ response \in [Client -> 0..MaxTime]
  /\ \A c \in Client : pc[c] # "idle" => prompt[c] \in Prompt
  /\ \A c \in Client : pc[c] = "set" => response[c] \in Time   \* not an error
  /\ todo \subseteq Prompt /\ failed \subseteq Prompt
  /\ asked \in Prompt \cup {NoPrompt}
  /\ locked \in BOOLEAN
  /\ since \in Time

ProxyInit ==
  /\ now = 1
  /\ cache = [p \in Prompt |-> 0]
  /\ pc = [c \in Client |-> "idle"]
  /\ prompt = [c \in Client |-> NoPrompt]
  /\ response = [c \in Client |-> 0]
  /\ todo = {} /\ failed = {} /\ asked = NoPrompt /\ locked = FALSE /\ since = 1

Tick ==
  /\ now < MaxTime
  /\ now' = now + 1
  /\ UNCHANGED <<cache, handlers, refresh>>

(***************************************************************************)
(* chatHandler. Get and Set hold the lock only for a map access: each is   *)
(* one step, possible while the refresh does not hold the write lock.      *)
(***************************************************************************)
Request(c) ==
  /\ pc[c] = "idle"
  /\ \E p \in Prompt : prompt' = [prompt EXCEPT ![c] = p]
  /\ pc' = [pc EXCEPT ![c] = "get"]
  /\ UNCHANGED <<now, cache, response, refresh>>

Get(c) ==
  /\ pc[c] = "get" /\ ~locked
  /\ pc' = [pc EXCEPT ![c] = IF cache[prompt[c]] # 0 THEN "reply" ELSE "generate"]
  /\ response' = [response EXCEPT ![c] = cache[prompt[c]]]
  /\ UNCHANGED <<now, cache, prompt, refresh>>

Generate(c) ==
  /\ pc[c] = "generate"
  /\ pc' = [pc EXCEPT ![c] = "set"]
  /\ response' = [response EXCEPT ![c] = now]
  /\ UNCHANGED <<now, cache, prompt, refresh>>

\* Variant: the error's empty response is stored like any other.
GenerateFailsUnchecked(c) ==
  /\ pc[c] = "generate"
  /\ pc' = [pc EXCEPT ![c] = "set"]
  /\ response' = [response EXCEPT ![c] = 0]
  /\ UNCHANGED <<now, cache, prompt, refresh>>

GenerateFails(c) ==   \* 500
  /\ pc[c] = "generate"
  /\ pc' = [pc EXCEPT ![c] = "reply"]
  /\ response' = [response EXCEPT ![c] = 0]
  /\ UNCHANGED <<now, cache, prompt, refresh>>

\* Variant: Set without the mutex.
SetUnlocked(c) ==
  /\ pc[c] = "set"
  /\ cache' = [cache EXCEPT ![prompt[c]] = response[c]]
  /\ pc' = [pc EXCEPT ![c] = "reply"]
  /\ UNCHANGED <<now, prompt, response, refresh>>

Set(c) ==
  /\ pc[c] = "set" /\ ~locked
  /\ cache' = [cache EXCEPT ![prompt[c]] = response[c]]
  /\ pc' = [pc EXCEPT ![c] = "reply"]
  /\ UNCHANGED <<now, prompt, response, refresh>>

Reply(c) ==
  /\ pc[c] = "reply"
  /\ pc' = [pc EXCEPT ![c] = "idle"]
  /\ prompt' = [prompt EXCEPT ![c] = NoPrompt]
  /\ response' = [response EXCEPT ![c] = 0]
  /\ UNCHANGED <<now, cache, refresh>>

Handler(c) ==
  Get(c) \/ Generate(c) \/ GenerateFails(c) \/ Set(c) \/ Reply(c)

(***************************************************************************)
(* RefreshCache, on every tick of the 5 h ticker                           *)
(***************************************************************************)
RefreshStart ==
  /\ ~locked
  /\ locked' = TRUE
  /\ since' = now
  /\ todo' = {p \in Prompt : cache[p] # 0}
  /\ failed' = {}
  /\ UNCHANGED <<now, cache, handlers, asked>>

RefreshAsk ==
  /\ locked /\ asked = NoPrompt
  /\ \E p \in todo : asked' = p
  /\ UNCHANGED <<now, cache, handlers, todo, locked, since, failed>>

RefreshAnswer ==
  /\ asked # NoPrompt
  /\ cache' = [cache EXCEPT ![asked] = now]
  /\ todo' = todo \ {asked}
  /\ asked' = NoPrompt
  /\ UNCHANGED <<now, handlers, locked, since, failed>>

\* Variant: the prompt is tried again until the API answers.
RefreshFailsRetrying ==
  /\ asked # NoPrompt
  /\ failed' = failed \cup {asked}
  /\ asked' = NoPrompt
  /\ UNCHANGED <<now, cache, handlers, todo, locked, since>>

RefreshFails ==   \* `continue`
  /\ asked # NoPrompt
  /\ failed' = failed \cup {asked}
  /\ todo' = todo \ {asked}
  /\ asked' = NoPrompt
  /\ UNCHANGED <<now, cache, handlers, locked, since>>

RefreshEnd ==
  /\ locked /\ asked = NoPrompt /\ todo = {}
  /\ locked' = FALSE
  /\ UNCHANGED <<now, cache, handlers, todo, asked, since, failed>>

Refresh == RefreshAsk \/ RefreshAnswer \/ RefreshFails \/ RefreshEnd

ProxyNext ==
  \/ Tick \/ RefreshStart \/ Refresh
  \/ \E c \in Client : Request(c) \/ Handler(c)

ProxySpec == ProxyInit /\ [][ProxyNext]_proxyVars

\* Goroutines run, the API answers or fails, and Go's RWMutex is fair: between
\* two refreshes a waiting handler gets its turn.
FairProxySpec ==
  /\ ProxySpec
  /\ WF_proxyVars(Refresh)
  /\ \A c \in Client : SF_proxyVars(Handler(c))

-----------------------------------------------------------------------------
(***************************************************************************)
(* Properties                                                              *)
(***************************************************************************)
\* A refresh is all or nothing for its readers: when the lock is released every
\* entry is from within the refresh, unless the API failed for it. No handler's
\* answer slips in between.
RefreshIsWhole ==
  [][locked /\ ~locked' =>
       \A p \in Prompt : cache[p] # 0 => cache[p] >= since \/ p \in failed]_proxyVars

\* Every request is answered, also those that find the cache locked.
EveryRequestAnswered == \A c \in Client : pc[c] = "get" ~> pc[c] = "idle"
=============================================================================
