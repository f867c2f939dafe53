------------------------------ MODULE Linking ------------------------------
(***************************************************************************)
(* How a phone number and a Telegram account come to share a User row: the *)
(* bot's contact handler and the first login of the Mini App.  The bot     *)
(* polls and awaits one update at a time; the server's logins overlap it.  *)
(***************************************************************************)
EXTENDS Integers, FiniteSets

CONSTANTS
  Ids,          \* user ids: a bound on the rows
  Numbers,      \* phone numbers
  Telegrams,    \* Telegram accounts
  Placeholder,  \* the negative number of a row without a phone
  Nothing

ASSUME LinkAssumption == /\ Placeholder \notin Numbers /\ Nothing \notin Numbers
                         /\ Nothing \notin Telegrams \cup Ids

VARIABLES
  user,    \* phone and telegramId of each row; Nothing, Nothing: no row
  bot,     \* the update the bot works on
  visit,   \* accounts whose Mini App login found no row
  shared   \* numbers each account shared as its own (history)

linkVars == <<user, bot, visit, shared>>

-----------------------------------------------------------------------------
UserRows == [phone : Numbers \cup {Placeholder, Nothing}, tg : Telegrams \cup {Nothing}]
NoUser == [phone |-> Nothing, tg |-> Nothing]

ByPhone(p) == {i \in Ids : user[i].phone = p}
ByTelegram(g) == {i \in Ids : user[i].tg = g}
FirstOf(s) == IF s = {} THEN Nothing ELSE CHOOSE i \in s : TRUE

BotStates == [pc      : {"idle", "byPhone", "byTg", "write"},
              tg      : Telegrams \cup {Nothing},
              phone   : Numbers \cup {Nothing},
              byPhone : Ids \cup {Nothing},
              byTg    : Ids \cup {Nothing}]
BotIdle == [pc |-> "idle", tg |-> Nothing, phone |-> Nothing,
            byPhone |-> Nothing, byTg |-> Nothing]

\* Rows and handlers have their types and the unique keys hold: one row per
\* number and one per account, although bot and server look before they write.
LinkTypeOK ==
  /\ user \in [Ids -> UserRows]
  /\ bot \in BotStates
  /\ bot.pc # "idle" => bot.tg \in Telegrams /\ bot.phone \in Numbers
  /\ visit \subseteq Telegrams
  /\ shared \subseteq Telegrams \X Numbers
  /\ \A i, j \in Ids : i # j =>
       /\ user[i].phone \in Numbers => user[i].phone # user[j].phone
       /\ user[i].tg \in Telegrams => user[i].tg # user[j].tg

\* Seeds leave rows with a number and no account.
LinkInit ==
  /\ user \in [Ids -> [phone : Numbers \cup {Nothing}, tg : {Nothing}]]
  /\ \A i, j \in Ids : i # j /\ user[i].phone \in Numbers => user[i].phone # user[j].phone
  /\ bot = BotIdle
  /\ visit = {}
  /\ shared = {}

-----------------------------------------------------------------------------
(* The contact handler.                                                    *)

\* Slip: somebody else's contact will do.
ShareAnyContact(g, p) ==
  /\ bot.pc = "idle"
  /\ bot' = [bot EXCEPT !.pc = "byPhone", !.tg = g, !.phone = p]
  /\ shared' \in {shared, shared \cup {<<g, p>>}}
  /\ UNCHANGED <<user, visit>>

\* A contact of one's own; a number may pass from one account to another.
ShareContact(g, p) ==
  /\ bot.pc = "idle"
  /\ bot' = [bot EXCEPT !.pc = "byPhone", !.tg = g, !.phone = p]
  /\ shared' = shared \cup {<<g, p>>}
  /\ UNCHANGED <<user, visit>>

FindByPhone ==
  /\ bot.pc = "byPhone"
  /\ bot' = [bot EXCEPT !.pc = "byTg", !.byPhone = FirstOf(ByPhone(bot.phone))]
  /\ UNCHANGED <<user, visit, shared>>

\* Two rows: the number and the account belong to different people.
FindByTelegram ==
  LET own == FirstOf(ByTelegram(bot.tg))
  IN /\ bot.pc = "byTg"
     /\ bot' = IF bot.byPhone # Nothing /\ own # Nothing /\ bot.byPhone # own
               THEN BotIdle
               ELSE [bot EXCEPT !.pc = "write", !.byTg = own]
     /\ UNCHANGED <<user, visit, shared>>

\* An update or create that would double a key fails; the bot apologises.
LinkAccount ==
  /\ bot.pc = "write" /\ bot.byPhone # Nothing
  /\ user' = IF ByTelegram(bot.tg) \subseteq {bot.byPhone}
             THEN [user EXCEPT ![bot.byPhone].tg = bot.tg]
             ELSE user
  /\ bot' = BotIdle
  /\ UNCHANGED <<visit, shared>>

FillInPhone ==
  /\ bot.pc = "write" /\ bot.byPhone = Nothing /\ bot.byTg # Nothing
  /\ user' = IF ByPhone(bot.phone) = {}
             THEN [user EXCEPT ![bot.byTg].phone = bot.phone]
             ELSE user
  /\ bot' = BotIdle
  /\ UNCHANGED <<visit, shared>>

CreateLinked ==
  /\ bot.pc = "write" /\ bot.byPhone = Nothing /\ bot.byTg = Nothing
  /\ IF ByPhone(bot.phone) = {} /\ ByTelegram(bot.tg) = {}
     THEN \E i \in Ids : /\ user[i] = NoUser
                         /\ user' = [user EXCEPT ![i] = [phone |-> bot.phone, tg |-> bot.tg]]
     ELSE UNCHANGED user
  /\ bot' = BotIdle
  /\ UNCHANGED <<visit, shared>>

\* A lookup that fails, or a restart: Telegram's update is not seen again.
BotGivesUp ==
  /\ bot.pc # "idle"
  /\ bot' = BotIdle
  /\ UNCHANGED <<user, visit, shared>>

-----------------------------------------------------------------------------
(* The Mini App's login of an account without a row.                       *)

MiniAppRead(g) ==
  /\ g \notin visit
  /\ ByTelegram(g) = {}
  /\ visit' = visit \cup {g}
  /\ UNCHANGED <<user, bot, shared>>

\* Slip: telegramId is not unique.
MiniAppCreateAnyway(g) ==
  /\ g \in visit
  /\ visit' = visit \ {g}
  /\ \E i \in Ids : /\ user[i] = NoUser
                    /\ user' = [user EXCEPT ![i] = [phone |-> Placeholder, tg |-> g]]
  /\ UNCHANGED <<bot, shared>>

MiniAppCreate(g) ==
  /\ g \in visit
  /\ visit' = visit \ {g}
  /\ IF ByTelegram(g) = {}
     THEN \E i \in Ids : /\ user[i] = NoUser
                         /\ user' = [user EXCEPT ![i] = [phone |-> Placeholder, tg |-> g]]
     ELSE UNCHANGED user
  /\ UNCHANGED <<bot, shared>>

LinkNext ==
  \/ \E g \in Telegrams, p \in Numbers : ShareContact(g, p)
  \/ FindByPhone \/ FindByTelegram
  \/ LinkAccount \/ FillInPhone \/ CreateLinked \/ BotGivesUp
  \/ \E g \in Telegrams : MiniAppRead(g) \/ MiniAppCreate(g)

LinkSpec == LinkInit /\ [][LinkNext]_linkVars

-----------------------------------------------------------------------------
\* A number and an account share a row only when that account shared that
\* number: login codes for a number go to no other account, whatever the
\* numbers changed hands and however the bot crosses the Mini App.
LinkedWereShared ==
  \A i \in Ids :
    user[i].phone \in Numbers /\ user[i].tg \in Telegrams
      => <<user[i].tg, user[i].phone>> \in shared

=============================================================================
