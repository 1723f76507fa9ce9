--------------------------- MODULE MCWorkflowFile ---------------------------
(***************************************************************************)
(* Workflow files for TLC: every pair of the entries below, in both forms, *)
(* and every triple of those that make the graph.                          *)
(***************************************************************************)
EXTENDS WorkflowFile

MCId == 1..3

NoRoute == [kind |-> "absent", to |-> NoId, maxIterations |-> 0, maxRepeatedFailures |-> 0]
NoTimeout == [kind |-> "absent", value |-> 0]

Empty(n, deps) ==
    [key |-> n, id |-> n, malformed |-> FALSE, type |-> "", command |-> FALSE,
     bash |-> FALSE, prompt |-> FALSE, approval |-> FALSE, loop |-> "absent",
     dependsOn |-> deps, route |-> NoRoute, timeout |-> NoTimeout]

Typed(n, deps, type) == [Empty(n, deps) EXCEPT !.type = type]
Command(n, deps) == [Typed(n, deps, "command") EXCEPT !.command = TRUE]
Bash(n, deps) == [Empty(n, deps) EXCEPT !.bash = TRUE]
Prompt(n, deps) == [Empty(n, deps) EXCEPT !.prompt = TRUE]
Looping(n, deps, loop) == [Empty(n, deps) EXCEPT !.loop = loop]
Gate(n, deps) == [Empty(n, deps) EXCEPT !.approval = TRUE]

Routed(e, to, max) ==
    [e EXCEPT !.route = [kind |-> "present", to |-> to, maxIterations |-> max,
                         maxRepeatedFailures |-> 1]]
Timed(e, kind, value) == [e EXCEPT !.timeout = [kind |-> kind, value |-> value]]

Graph == {
    Command(1, {}), Command(1, {2}), Bash(2, {1}), Prompt(2, {}), Command(3, {1}),
    Routed(Bash(2, {1}), 1, 2), Routed(Command(2, {}), 3, 0), Routed(Command(3, {2}), 1, 0),
    Routed(Prompt(3, {}), 2, 1), Gate(3, {1, 2}) }

Single == Graph \cup {
    [Empty(1, {}) EXCEPT !.malformed = TRUE],
    Command(NoId, {}),
    [Command(1, {}) EXCEPT !.id = 2],
    Empty(2, {}),
    Typed(1, {}, "unsupported"),
    [Typed(1, {}, "command") EXCEPT !.bash = TRUE],
    Typed(2, {1}, "loop"),
    [Typed(2, {1}, "loop") EXCEPT !.loop = "prompt"],
    Looping(2, {}, "prompt"),
    Looping(2, {}, "blank"),
    [Looping(1, {}, "blank") EXCEPT !.bash = TRUE],
    [Empty(3, {}) EXCEPT !.command = TRUE],
    Typed(2, {1}, "agent"),
    Typed(2, {1}, "human_gate"),
    Command(2, {2}),
    Command(2, {3}),
    Routed(Command(1, {}), NoId, 1),
    Routed(Command(2, {1}), 1, -1),
    Timed(Command(1, {}), "invalid", 0),
    Timed(Command(1, {}), "number", 5),
    Timed(Command(1, {}), "number", -5),
    Timed(Command(1, {}), "number", 13),
    Timed(Command(1, {}), "number", 32),
    Timed(Bash(2, {1}), "duration", 90) }

Sequences(entries, length) == UNION {[1..k -> entries] : k \in 0..length}

MCFiles ==
    [named : BOOLEAN, form : {"mapping", "sequence"}, entries : Sequences(Single, 2)]
    \cup [named : {TRUE}, form : {"mapping", "sequence"}, entries : [1..3 -> Graph]]
=============================================================================
