-------------------------- MODULE BinderResolver ---------------------------
(***************************************************************************)
(* How the daemon finds the kernel function to hook                        *)
(* (binder_ioctl_resolver.cpp): from an open Binder file through its       *)
(* file_operations to unlocked_ioctl, with offsets from the SDK that are   *)
(* checked against the visible kernel symbols and corrected by scans, and  *)
(* the classification of the instructions at the function's entry.         *)
(*                                                                         *)
(* A kernel is what the resolver can meet:                                 *)
(*   sdkFop    what the SDK's file.f_op offset leads to: the               *)
(*             file_operations of Binder, another object, or no pointer    *)
(*   sdkIoctl  what its unlocked_ioctl offset leads to: the entry, the     *)
(*             compat entry, another function, or no pointer               *)
(*   symbols   which symbols of the Binder driver in use are visible;      *)
(*             symbols of the other backend, and ioctl symbols that are    *)
(*             not in the text, only make the resolver refuse more, and    *)
(*             StartFails stands for a refusal on every kernel             *)
(*   text      whether the bounds of the core text are visible             *)
(*   entry     the instructions at the entry of unlocked_ioctl             *)
(* An instruction is its class: bti and pac prefixes, sub (sp frame), pre  *)
(* (pre-indexed frame link store), stp (frame link store), rel (PC         *)
(* relative or control flow), veneer (a forward branch to a prologue in    *)
(* the core text), trampoline (a forward branch out of the core text).     *)
(***************************************************************************)
EXTENDS Naturals, Sequences

Instructions == {"bti", "pac", "sub", "pre", "stp", "rel", "veneer", "trampoline", "plain"}

Kernels == [sdkFop   : {"fops", "object", "none"},
            sdkIoctl : {"ioctl", "compat", "other", "none"},
            symbols  : SUBSET {"fops", "ioctl", "compat"},
            text     : BOOLEAN,
            entry    : Seq(Instructions)]

\* The addresses that can be resolved, and what is at their entries.
Targets == {"ioctl", "compat", "other"}
EntryOf(k, t) == IF t = "ioctl" THEN k.entry ELSE <<"pac", "sub", "stp", "plain">>

-----------------------------------------------------------------------------
(* resolve_binder_ioctl_from_fd.                                           *)

\* An SDK pointer counts when a symbol names it; else the object is scanned
\* for a pointer that a symbol names; else the SDK pointer stays, unnamed.
Named(k, pointer, candidates) == pointer \in candidates /\ pointer \in k.symbols

Fops(k) ==
  IF "fops" \in k.symbols THEN "fops" ELSE k.sdkFop

\* unlocked_ioctl comes before compat_ioctl in file_operations.
ScannedIoctl(k) ==
  IF Fops(k) # "fops" THEN "none"
  ELSE IF "ioctl" \in k.symbols THEN "ioctl"
  ELSE IF "compat" \in k.symbols THEN "compat" ELSE "none"

SdkIoctl(k) ==
  IF Fops(k) = "fops" THEN k.sdkIoctl
  ELSE IF k.sdkIoctl = "none" THEN "none" ELSE "other"

Ioctl(k) ==
  IF Named(k, SdkIoctl(k), {"ioctl", "compat"}) \/ ScannedIoctl(k) = "none"
    THEN SdkIoctl(k) ELSE ScannedIoctl(k)

\* At least one pointer is named, and a pointer whose kind of symbol is
\* visible must be.
CrossValidated(k) ==
  LET fopsNamed == Named(k, Fops(k), {"fops"})
      ioctlNamed == Named(k, Ioctl(k), {"ioctl", "compat"})
  IN  /\ fopsNamed \/ ioctlNamed
      /\ "fops" \in k.symbols => fopsNamed
      /\ {"ioctl", "compat"} \cap k.symbols # {} => ioctlNamed

-----------------------------------------------------------------------------
(* Entry classification.                                                   *)

\* The SDK replaces one instruction and replays it elsewhere.
HookSite(word) == word \in {"bti", "pac", "sub", "pre"}

\* An optional bti, then an optional pac.
PrefixLength(words) ==
  LET bti == IF words[1] = "bti" THEN 1 ELSE 0
  IN  IF words[bti + 1] = "pac" THEN bti + 1 ELSE bti

Prologue(words) ==
  LET i == PrefixLength(words) + 1
      near == {c \in (i + 1)..(i + 3) : c <= Len(words)}
  IN  /\ \/ words[i] = "sub" /\ \E c \in near : words[c] \in {"stp", "pre"}
         \/ words[i] = "pre"
      /\ \A c \in 1..4 : words[c] \notin {"rel", "veneer", "trampoline"}

\* Faulty variant: the branch may lead anywhere.
VeneerAnywhere(words) ==
  LET i == PrefixLength(words)
  IN  i > 0 /\ HookSite(words[1]) /\ words[i + 1] \in {"veneer", "trampoline"}

\* A prefix and a forward branch to a prologue that must be in the core text:
\* the gate against an entry that carries the trampoline of an earlier hook.
Veneer(words) ==
  LET i == PrefixLength(words)
  IN  i > 0 /\ HookSite(words[1]) /\ words[i + 1] = "veneer"

Hookable(words) == (Prologue(words) /\ HookSite(words[1])) \/ Veneer(words)

-----------------------------------------------------------------------------

\* The resolver accepts target t, whose entry now reads words.
Accepts(k, t, words) ==
  /\ Fops(k) # "none"
  /\ t = Ioctl(k) /\ t # "none"
  /\ CrossValidated(k)
  /\ k.text
  /\ Hookable(words)

=============================================================================
