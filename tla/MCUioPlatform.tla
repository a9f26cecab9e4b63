---------------------------- MODULE MCUioPlatform ----------------------------
(* Instances of UioPlatform. *)
EXTENDS UioPlatform, SequencesExt

\* Every list of at most one option (calls that fail add up their options), a
\* number out of range before another option, and two complete lists.
AllArgvs ==
    BoundedSeq(Options, 1)
      \cup {"span_huge", "start_huge", "entry_huge"} \X {"path", "span", "start", "entry"}
      \cup {<<"path", "span">>, <<"path", "span", "start">>}
=============================================================================
