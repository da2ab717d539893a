--------------------------- MODULE MCChatSession ---------------------------
(***************************************************************************)
(* Two sessions and one migration.  The two sources come out the same by   *)
(* the direct model, so that two jobs may have one context; by way of      *)
(* English a text gets a second sentence.                                  *)
(***************************************************************************)
EXTENDS ChatSession, TLC

CONSTANTS s1, s2, torn, none, blank

MCSessions == {s1, s2}
MCImporters == {"m"}
MCLanguages == {<<"zh", "ja">>}
MCFailure == <<"failed">>
MCRevisions == {<<"mine">>, NoText}
Upload(mime) == [ext |-> "txt", mime |-> mime, readable |-> TRUE, text |-> <<"t">>]
MCForms == {[text |-> <<"s">>, file |-> Upload("docx"), selected |-> "general",
             manual |-> blank],
            [text |-> <<"s">>, file |-> Upload("text/plain"), selected |-> "general",
             manual |-> "travel"]}
MCModel(route, text) ==
    CASE route = <<"zh", "en">> -> text \o <<"half">>
      [] route = <<"en", "ja">> -> <<"q", "r">>
      [] OTHER -> <<"p">>
MCTags(text) == 1
MCOverlap(t, u) == IF t = u THEN 100 ELSE 40

ChatSymmetry == Permutations(MCSessions)

=============================================================================
