-------------------------- MODULE MCAdmissionGate --------------------------
\* Four submitters and a three-bit word (CLOSED = 4): the count saturates at
\* three, so the overflow assertion of try_enter is reachable.
EXTENDS AdmissionGate
=============================================================================
