--------------------------- MODULE AdmissionWord ---------------------------
(***************************************************************************)
(* The per-thread admission word of accordin_shared/src/admission.rs: a    *)
(* thread-local AtomicU32 written by its thread only and read by the BPF   *)
(* scheduler.  A word is modelled as the set of its bits that are set.     *)
(* "enabled" is admission_enabled(), the environment switch read once.     *)
(***************************************************************************)

IN_CRITICAL_SECTION == "IN_CRITICAL_SECTION"
SLOW_PATH_PENDING   == "SLOW_PATH_PENDING"
SLOW_PATH_SEEN      == "SLOW_PATH_SEEN"

WordBits == {IN_CRITICAL_SECTION, SLOW_PATH_PENDING, SLOW_PATH_SEEN}
Words    == SUBSET WordBits

\* What every helper writes when admission is disabled.
DisabledWord(w) == (w \cup {SLOW_PATH_SEEN}) \ {SLOW_PATH_PENDING, IN_CRITICAL_SECTION}

mark_slow_path_pending(w, enabled) ==
    IF enabled THEN w \cup {SLOW_PATH_PENDING, SLOW_PATH_SEEN} ELSE DisabledWord(w)

\* Mutant: the pending bit survives the acquisition.
mark_critical_section_entered_KeepsPending(w, enabled) ==
    IF enabled THEN w \cup {IN_CRITICAL_SECTION} ELSE DisabledWord(w)


mark_critical_section_entered(w, enabled) ==
    IF enabled THEN (w \cup {IN_CRITICAL_SECTION}) \ {SLOW_PATH_PENDING}
               ELSE DisabledWord(w)

mark_critical_section_exit(w, enabled) ==
    IF enabled THEN w \ {IN_CRITICAL_SECTION} ELSE DisabledWord(w)

============================================================================
