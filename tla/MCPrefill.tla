------------------------------- MODULE MCPrefill -------------------------------
(* All plans of a short prompt with few frontiers, for model checking Prefill. *)
EXTENDS Prefill

CONSTANTS Prompt,       \* tokens of the prompt
          MaxCaptures,  \* capture groups of the admitted plan
          MaxRewrites,  \* rewrite execution frontiers
          MaxItems,     \* vision items
          MaxPlanned    \* private captures of the base plan

AtMost(n, S) == {T \in SUBSET S : Cardinality(T) <= n}

Spans == {s \in [from : 0 .. Prompt - 1, to : 1 .. Prompt] : s.from < s.to}

(* No media, one item, or two items. *)
Items == {i \in {<<>>} \cup {<<s>> : s \in Spans} \cup (Spans \X Spans) : Len(i) <= MaxItems}

(* Plans with many segment boundaries, on which only the rebuild work depends,
   are taken without media and captures. *)
MCPlans ==
    {p \in [prompt : {Prompt}, base : 0 .. Prompt, mtp : BOOLEAN, items : Items,
            captures : AtMost(MaxCaptures, 1 .. Prompt),
            rewrites : AtMost(MaxRewrites, 1 .. Prompt),
            planned : AtMost(MaxPlanned, 1 .. Prompt)] :
        /\ \A f \in p.captures : f >= p.base
        /\ p.planned # {} \/ Cardinality(p.rewrites) > 1 => p.items = <<>> /\ p.captures = {}
        /\ Len(p.items) = 2 => UseBegin(p, 2) >= p.items[1].to}
=============================================================================
