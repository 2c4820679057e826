------------------------- MODULE MCDaemonLifecycle --------------------------
EXTENDS DaemonLifecycle

Kernel(f, i, s, t, e) == [sdkFop |-> f, sdkIoctl |-> i, symbols |-> s, text |-> t, entry |-> e]
Rest == <<"stp", "plain", "plain", "plain">>

\* SDK offsets that are right, shifted or missing, and every set of visible
\* symbols.  An offset that leads to another function than compat_ioctl gives
\* what one to compat_ioctl gives where no 32-bit HAL runs.
MCOffsets ==
  {Kernel(f, i, s, TRUE, <<"pac", "sub">> \o Rest) :
     f \in {"fops", "object", "none"}, i \in {"ioctl", "compat", "none"},
     s \in SUBSET {"fops", "ioctl", "compat"}}

\* Entries that are accepted and entries that are not.
MCEntries ==
  {Kernel("fops", "ioctl", {"fops", "ioctl"}, TRUE, e \o Rest) :
     e \in {<<"bti", "veneer">>, <<"veneer">>, <<"plain", "sub">>, <<"sub", "rel">>}}

MCKernels == MCOffsets \cup MCEntries
             \cup {Kernel("fops", "ioctl", {"fops", "ioctl"}, FALSE, <<"pac", "sub">> \o Rest)}

=============================================================================
