------------------------- MODULE MCWebhookDelivery --------------------------
(***************************************************************************)
(* A small instance of WebhookDelivery: for each channel the posts that    *)
(* its routes and its adapter treat differently.  The clock may reach the  *)
(* timestamp of a Signal message, and no other number of a provider.       *)
(***************************************************************************)
EXTENDS WebhookDelivery, TLC

CONSTANTS redis, memory

MCName == {"ann", "Ann", "bob", "room", "lobby"}
MCLowerCase == [n \in MCName |-> IF n = "Ann" THEN "ann" ELSE n]

MCAllowed ==
  [c \in Channel |-> CASE c \in {"telegram", "slack", "discord"} -> {"room"}
                       [] c = "email" -> {}
                       [] OTHER -> {"Ann"}]

P(serial, channel, id, stamp, from, chat) ==
  [ serial |-> serial, channel |-> channel, form |-> "message",
    longBody |-> FALSE, longText |-> FALSE, more |-> 0, text |-> "plain",
    id |-> id, stamp |-> stamp, from |-> from, place |-> chat,
    guild |-> Absent, genuine |-> TRUE ]

Unsigned(post, serial) == [post EXCEPT !.serial = serial, !.genuine = FALSE]

\* One feed for each channel, with a post that nobody vouches for under the
\* name of one that is genuine, and one of them all, where the senders of
\* e-mail and Status have chosen the id of the message from Telegram.
MCFeeds ==
  LET tg == P(1, "telegram", <<"", 100>>, Absent, "ann", "room")
      sl == P(11, "slack", <<"Ev", 7>>, <<"ts", 8>>, "ann", "room")
      dc == P(21, "discord", <<"", 200>>, Absent, "ann", "room")
      wa == P(31, "whatsapp", <<"wamid", 7>>, Absent, "ann", Absent)
      sg == P(41, "signal", Absent, <<"", 1>>, "ann", Absent)
      em == P(51, "email", <<"mail", 7>>, Absent, "bob", Absent)
      st == P(61, "status", <<"uuid", 7>>, <<"uuid", 8>>, "ann", "room")
  IN { { tg, Unsigned(tg, 6),
         [tg EXCEPT !.serial = 2, !.id = <<"", 101>>],
         [tg EXCEPT !.serial = 3, !.id = <<"", 102>>, !.place = "lobby"],
         [tg EXCEPT !.serial = 4, !.id = <<"", 103>>, !.text = "slash"],
         [Unsigned(tg, 7) EXCEPT !.id = Absent],
         [tg EXCEPT !.serial = 5, !.form = "malformed"] },
       { sl, Unsigned(sl, 16), [Unsigned(sl, 17) EXCEPT !.stamp = <<"ts", 9>>],
         [sl EXCEPT !.serial = 12, !.id = Absent, !.stamp = <<"ts", 9>>],
         [sl EXCEPT !.serial = 13, !.id = Absent, !.stamp = Absent],
         [sl EXCEPT !.serial = 14, !.id = <<"Ev", 9>>, !.from = Absent],
         [sl EXCEPT !.serial = 15, !.form = "control"] },
       { [dc EXCEPT !.guild = "room"], Unsigned(dc, 25),
         [dc EXCEPT !.serial = 22, !.id = <<"", 201>>],
         [dc EXCEPT !.serial = 23, !.id = <<"", 202>>, !.guild = "lobby"],
         [dc EXCEPT !.serial = 24, !.form = "control"] },
       { wa, Unsigned(wa, 37),
         [wa EXCEPT !.serial = 32, !.id = <<"wamid", 8>>, !.from = "bob"],
         [wa EXCEPT !.serial = 33, !.id = <<"wamid", 9>>, !.more = 1,
                    !.text = "audio"],
         [wa EXCEPT !.serial = 34, !.form = "other"],
         [wa EXCEPT !.serial = 35, !.form = "control"],
         [Unsigned(wa, 36) EXCEPT !.form = "control"] },
       { sg,
         [sg EXCEPT !.serial = 42, !.stamp = Absent],
         [sg EXCEPT !.serial = 43, !.from = Absent],
         [sg EXCEPT !.serial = 44, !.form = "malformed"],
         [sg EXCEPT !.serial = 45, !.stamp = <<"", 2>>, !.form = "other"] },
       { em, Unsigned(em, 52),
         [em EXCEPT !.serial = 53, !.from = "ann"],
         [em EXCEPT !.serial = 54, !.form = "malformed"],
         [em EXCEPT !.serial = 55, !.id = Absent, !.form = "other"],
         [em EXCEPT !.serial = 56, !.id = <<"mail", 8>>, !.longBody = TRUE],
         [em EXCEPT !.serial = 57, !.id = <<"mail", 9>>, !.longText = TRUE] },
       { st, Unsigned(st, 63),
         [st EXCEPT !.serial = 62, !.place = "lobby"],
         [st EXCEPT !.serial = 64, !.form = "malformed"],
         [st EXCEPT !.serial = 65, !.stamp = Absent],
         [st EXCEPT !.serial = 66, !.id = <<"uuid", 8>>] },
       { tg, sl, dc, wa, sg, [em EXCEPT !.id = tg.id], [st EXCEPT !.id = tg.id] } }

\* The process with its own memory has no adapters for e-mail and Telegram.
MCAdapters ==
  redis :> Channel @@ memory :> Channel \ {"email", "telegram"}

MCIngressOf == redis :> {"http", "nest"} @@ memory :> {"fastify"}

CallSymmetry == Permutations(Call)

=============================================================================
