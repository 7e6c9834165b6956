---------------------------- MODULE MCRecruiting ----------------------------
(***************************************************************************)
(* Policies edited by two requests at a time, documents of all kinds by    *)
(* one, and the life of an application, for a line of four employees.      *)
(***************************************************************************)
EXTENDS Recruiting, TLC

CONSTANTS ceo, head, lead, dev

MCManagerOf == (dev :> lead) @@ (lead :> head) @@ (head :> ceo) @@ (ceo :> Nobody)

Scene(slots, requests, failing, ops) ==
    [slots |-> slots, requests |-> requests, outages |-> failing, ops |-> ops, dies |-> FALSE, docs |-> 2,
     owners |-> {Nobody}, contents |-> {"text", "infected"}, categories |-> {"POLICY"}, visibilities |-> {"COMPANY"}]
MCScenarios ==
    { [Scene(2, 3, 1, {"document", "reindex"})
       EXCEPT !.docs = 1, !.contents = {"text", "image"}, !.visibilities = {"COMPANY", "PRIVATE"}],
      [Scene(2, 2, 2, {"document", "reindex"}) EXCEPT !.docs = 1],
      [Scene(1, 2, 0, {"document"})
       EXCEPT !.docs = 1, !.owners = Employees \cup {Nobody}, !.categories = Categories, !.visibilities = Visibilities],
      [Scene(1, 4, 1, {"apply", "erase"}) EXCEPT !.dies = TRUE],
      [Scene(1, 3, 1, {"apply", "document", "decide", "erase"}) EXCEPT !.dies = TRUE],
      Scene(2, 2, 2, {"apply", "rescreen", "decide", "erase"}),
      Scene(2, 3, 0, {"apply", "document", "erase"}),
      Scene(2, 2, 1, {"apply", "document", "erase"}),
      Scene(2, 3, 1, {"apply", "rescreen", "decide", "erase", "retention"}) }

Symmetry == Permutations(Docs) \cup Permutations(Procs) \cup Permutations(Workers) \cup Permutations(Screeners)
=============================================================================
