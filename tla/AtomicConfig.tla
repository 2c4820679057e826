---------------------------- MODULE AtomicConfig ----------------------------
(***************************************************************************)
(* What publish_runtime_config promises to the hook: the configuration     *)
(* that new replies see is one register.  It is replaced as a whole, by a  *)
(* valid configuration with a larger generation, and never otherwise.      *)
(***************************************************************************)
EXTENDS Naturals

CONSTANT Configs    \* the configurations validate_runtime_config accepts

VARIABLE cfg        \* the configuration in force

TypeOK == cfg \in Configs

Init == cfg \in Configs

Publish(c) ==
  /\ c.gen > cfg.gen
  /\ cfg' = c

Next == \E c \in Configs : Publish(c)

Spec == Init /\ [][Next]_cfg
=============================================================================
