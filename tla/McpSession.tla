----------------------------- MODULE McpSession -----------------------------
(***************************************************************************)
(* The MCP connection of one agent (_ensure_mcp_connected and aclose in    *)
(* unified_agent.py, mcp_support.py): callers of a turn, of tool.list and  *)
(* of the bundled list_mcp_servers tool connect at most once, under a      *)
(* lock; the servers' tools are merged into the agent's; aclose, which     *)
(* takes no lock, closes the client; the next caller connects again.       *)
(*                                                                         *)
(* The adapter's client is external: which servers answer is its choice.   *)
(***************************************************************************)
EXTENDS Integers, Sequences, FiniteSets

CONSTANTS
    Callers,
    Servers,      \* the configured servers, a sequence
    Offers,       \* the tool names each server offers
    Resources,    \* the servers that may list resources
    Sse,          \* the servers configured with transport sse
    Own,          \* the names of the agent's own tools
    Reserved,     \* names with the agloom_ prefix
    MaxRetries,   \* mcp_tool_max_retries
    MaxClients,   \* bound: clients made
    None

All == {Servers[i] : i \in DOMAIN Servers}

McpAssumption ==
    /\ Servers \in Seq(All) /\ Resources \cup Sse \subseteq All
    /\ "read_resource" \notin Reserved /\ None \notin Nat
    /\ MaxRetries \in Nat /\ MaxClients \in Nat

VARIABLES cfg, pc, dial, made, call

vars == <<cfg, pc, dial, made, call>>

McpTool(name, s, kind, client) == [name |-> name, server |-> s, kind |-> kind, client |-> client]
OwnTools == {McpTool(<<m>>, None, "own", 0) : m \in Own}

Init ==
    /\ cfg = [client |-> None, attempted |-> FALSE, tools |-> OwnTools, rows |-> None, appendix |-> {}]
    /\ pc = [c \in Callers |-> "idle"]
    /\ dial = None
    /\ made = 0
    /\ call = None

(***************************************************************************)
(* _ensure_mcp_connected.                                                  *)
(***************************************************************************)

Connected == cfg.client # None /\ cfg.attempted
Forget(g) == [g EXCEPT !.attempted = @ /\ g.client # None]

(* The check without the lock. *)
Enter(c) ==
    /\ pc[c] = "idle"
    /\ pc' = [pc EXCEPT ![c] = IF Connected THEN "ready" ELSE "wait"]
    /\ cfg' = Forget(cfg)
    /\ UNCHANGED <<dial, made, call>>

\* Mutant of TakeLock.
TakeLockBlind(c) ==
    /\ pc[c] = "wait" /\ dial = None
    /\ cfg' = Forget(cfg)
    /\ made < MaxClients
    /\ made' = made + 1
    /\ dial' = [by |-> c, client |-> made', second |-> FALSE]
    /\ pc' = [pc EXCEPT ![c] = "dial"]
    /\ UNCHANGED <<call>>

(* _mcp_lock is ours: check again, else load_mcp_capabilities makes its    *)
(* first client.                                                           *)
TakeLock(c) ==
    /\ pc[c] = "wait" /\ dial = None
    /\ cfg' = Forget(cfg)
    /\ IF Connected
       THEN pc' = [pc EXCEPT ![c] = "ready"] /\ UNCHANGED <<dial, made>>
       ELSE /\ made < MaxClients
            /\ made' = made + 1
            /\ dial' = [by |-> c, client |-> made', second |-> FALSE]
            /\ pc' = [pc EXCEPT ![c] = "dial"]
    /\ UNCHANGED <<call>>

\* Mutant of WireName.
WireNameBare(s, m) == <<m>>

(***************************************************************************)
(* _wire_mcp_tool over the capabilities in the order of the servers: a     *)
(* name that exists is skipped, a reserved one gets the server's prefix.   *)
(***************************************************************************)
WireName(s, m) == IF m \in Reserved THEN <<s, m>> ELSE <<m>>
Names(ts) == {t.name : t \in ts}

Wire(s, existing, listed, client) ==
    {McpTool(WireName(s, m), s, "tool", client) :
        m \in {x \in Offers[s] : <<x>> \notin existing /\ WireName(s, x) \notin existing}}
    \cup {McpTool(<<"read_resource", s>>, s, "resource", client) :
            x \in {y \in {s} \cap listed : <<"read_resource", s>> \notin existing}}

Wired(listed, client) ==
    LET w[i \in 0..Len(Servers)] ==
            IF i = 0 THEN {}
            ELSE w[i - 1] \cup Wire(Servers[i], Names(cfg.tools) \cup Names(w[i - 1]), listed, client)
    IN  w[Len(Servers)]

(* connect_mcp_servers returns: tools, rows and the prompt's appendix, and *)
(* at the caller the client. An existing appendix is left as it is.        *)
Install(listed) ==
    LET new == Wired(listed, dial.client)
        row == [s \in All |-> Cardinality({t \in new : t.server = s})]
    IN  [client |-> dial.client, attempted |-> TRUE, tools |-> cfg.tools \cup new, rows |-> row,
         appendix |-> IF cfg.appendix = {} THEN Names(new) ELSE cfg.appendix]

(* Callable: a server that answered offers a tool or a resource. *)
Callable(s, listed) == Offers[s] # {} \/ s \in listed

\* Mutant of Populate.
PopulateForgives(up, listed) ==
    /\ dial # None
    /\ listed \subseteq Resources \cap up
    /\ IF ~dial.second /\ Sse \ up # {}
       THEN /\ made < MaxClients
            /\ made' = made + 1
            /\ dial' = [dial EXCEPT !.client = made', !.second = TRUE]
            /\ UNCHANGED <<cfg, pc>>
       ELSE /\ dial' = None
            /\ IF up = All /\ \A s \in All : Callable(s, listed)
               THEN cfg' = Install(listed) /\ pc' = [pc EXCEPT ![dial.by] = "ready"]
               ELSE cfg' = cfg /\ pc' = [pc EXCEPT ![dial.by] = "ready"]
            /\ UNCHANGED made
    /\ UNCHANGED <<call>>

(* load_mcp_capabilities: the servers in `up' answer get_tools, those in   *)
(* `listed' list resources. A failed sse server makes one more round with  *)
(* streamable_http, on a new client; then all must have answered.          *)
Populate(up, listed) ==
    /\ dial # None
    /\ listed \subseteq Resources \cap up
    /\ IF ~dial.second /\ Sse \ up # {}
       THEN /\ made < MaxClients
            /\ made' = made + 1
            /\ dial' = [dial EXCEPT !.client = made', !.second = TRUE]
            /\ UNCHANGED <<cfg, pc>>
       ELSE /\ dial' = None
            /\ IF up = All /\ \A s \in All : Callable(s, listed)
               THEN cfg' = Install(listed) /\ pc' = [pc EXCEPT ![dial.by] = "ready"]
               ELSE cfg' = cfg /\ pc' = [pc EXCEPT ![dial.by] = "failed"]
            /\ UNCHANGED made
    /\ UNCHANGED <<call>>

(* The caller goes on with the agent's tools, or has been told; a          *)
(* cancelled one gives the lock back.                                      *)
Leave(c) ==
    /\ pc[c] \in {"ready", "failed", "wait", "dial"}
    /\ pc' = [pc EXCEPT ![c] = "idle"]
    /\ dial' = IF dial # None /\ dial.by = c THEN None ELSE dial
    /\ UNCHANGED <<cfg, made, call>>

(* aclose_mcp_client: the wrappers' holder is emptied, the client let go.  *)
LetGo(g) == [g EXCEPT !.client = None, !.attempted = @ /\ g.client = None]

\* Mutant of Aclose.
AcloseTools ==
    /\ cfg' = [cfg EXCEPT !.client = None, !.attempted = FALSE, !.tools = OwnTools]
    /\ UNCHANGED <<pc, dial, made, call>>

(* UnifiedAgent.aclose *)
Aclose ==
    /\ cfg' = LetGo(cfg)
    /\ UNCHANGED <<pc, dial, made, call>>

(***************************************************************************)
(* A call of a wired tool: _acall_with_transient_retry.                    *)
(***************************************************************************)
StartCall(t) ==
    /\ call = None /\ t.kind # "own"
    /\ call' = [tool |-> t, tries |-> 0, how |-> "under way"]
    /\ UNCHANGED <<cfg, pc, dial, made>>

(* read_resource of a client that is gone is a ToolException: no retry.    *)
Alive(t) == t.kind = "tool" \/ t.client = cfg.client

ToolReturns ==
    /\ call # None /\ call.how = "under way"
    /\ call' = [call EXCEPT !.how = IF Alive(call.tool) THEN "returned" ELSE "raised"]
    /\ UNCHANGED <<cfg, pc, dial, made>>

\* Mutant of ToolFails.
ToolFailsFree(transient) ==
    /\ call # None /\ call.how = "under way"
    /\ call' = IF transient /\ Alive(call.tool)
               THEN [call EXCEPT !.tries = (@ + 1) % (MaxRetries + 1)]
               ELSE [call EXCEPT !.how = "raised"]
    /\ UNCHANGED <<cfg, pc, dial, made>>

ToolFails(transient) ==
    /\ call # None /\ call.how = "under way"
    /\ call' = IF transient /\ call.tries < MaxRetries /\ Alive(call.tool)
               THEN [call EXCEPT !.tries = @ + 1]
               ELSE [call EXCEPT !.how = "raised"]
    /\ UNCHANGED <<cfg, pc, dial, made>>

EndCall ==
    /\ call # None /\ call.how # "under way"
    /\ call' = None
    /\ UNCHANGED <<cfg, pc, dial, made>>

Next ==
    \/ \E c \in Callers : Enter(c) \/ TakeLock(c) \/ Leave(c)
    \/ \E up \in SUBSET All, listed \in SUBSET All : Populate(up, listed)
    \/ Aclose
    \/ \E t \in cfg.tools : StartCall(t)
    \/ ToolReturns \/ EndCall \/ \E x \in BOOLEAN : ToolFails(x)

Spec == Init /\ [][Next]_vars

(* A dial and a call come to an end, with or without an answer; the lock   *)
(* is given to whoever waits for it.                                       *)
DialEnds == \E up \in SUBSET All, listed \in SUBSET All : Populate(up, listed)
CallGoesOn == ToolReturns \/ EndCall \/ \E x \in BOOLEAN : ToolFails(x)
FairSpec == Spec /\ WF_vars(DialEnds) /\ WF_vars(CallGoesOn)

(***************************************************************************)
(* Properties.                                                             *)
(***************************************************************************)
(* Types: the agent's tools, who dials, and who may be waiting.            *)
TypeOK ==
    /\ cfg.client \in (1..MaxClients) \cup {None} /\ cfg.attempted \in BOOLEAN
    /\ \A t \in cfg.tools : t.client \in 0..made
    /\ dial # None => pc[dial.by] = "dial" /\ dial.client \in 1..made
    /\ \A c \in Callers : pc[c] = "dial" => dial # None /\ dial.by = c

(* _wire_mcp_tool: no two tools of the agent have one name, whatever the   *)
(* servers call theirs, and a reserved name is not a server's.             *)
NamesAreUnique ==
    /\ \A t, u \in cfg.tools : t.name = u.name => t = u
    /\ \A t \in cfg.tools : t.kind = "tool" => \A m \in Reserved : t.name # <<m>>

(* The lock and the second look: nobody dials while a client is there.     *)
OneConnection == dial # None => cfg.client = None

(* A connect that fails or is cancelled leaves no tool, row or client, and *)
(* none is taken away: the agent's tools change when a client comes in.    *)
AllOrNothing ==
    [][cfg'.tools # cfg.tools \/ cfg'.rows # cfg.rows =>
        /\ cfg'.client # None /\ cfg.client = None
        /\ cfg.tools \subseteq cfg'.tools]_vars

(* A caller goes on only with the client it connected or found, unless     *)
(* aclose has come since.                                                  *)
ReadyIsConnected ==
    [][\A c \in Callers : pc[c] # "ready" /\ pc'[c] = "ready" => cfg'.client # None]_vars
=============================================================================
