---------------------------- MODULE MCMailIntake ----------------------------
(* Two customers.  One writes forms and a free text which complete each    *)
(* other, with and without stating the address; so does the other one.     *)
EXTENDS MailIntake

CONSTANTS k1, k2, address, date

MCCustomers == {k1, k2}
MCFacts == {address, date}

Letter(writer, kind, states, says) ==
  [writer |-> writer, kind |-> kind, states |-> states, says |-> says]

MCLetters ==
  { Letter(k1, "quote", TRUE, MCFacts),
    Letter(k1, "contact", TRUE, {address}),
    Letter(k1, "mail", TRUE, {date}),
    Letter(k1, "quote", FALSE, {date}),
    Letter(k2, "quote", TRUE, {date}),
    Letter(k2, "contact", FALSE, {address}),
    Letter(k2, "unreadable", TRUE, {}) }
=============================================================================
