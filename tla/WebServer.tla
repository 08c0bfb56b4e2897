----------------------------- MODULE WebServer -----------------------------
(***************************************************************************)
(* The web page that takes the name and the password of a network:           *)
(* user_webserver.c, called back by espconn for every TCP segment of every    *)
(* connection.                                                              *)
(*                                                                         *)
(* A segment is what its bytes say: head (it has the empty line that ends    *)
(* the head of a request), len (Content-Length, or NoLength), body (bytes    *)
(* after the head), hostAt (offset of "Host:", NoHost if it has none),       *)
(* method, uri, query, the two fields of the form it carries, and, as        *)
(* history, what the user typed into them.                                  *)
(* dat_sumlength and totallength are one pair for all connections.           *)
(* precvbuffer is allocated and freed within a call, and what is copied to   *)
(* it is not read: it is left out.  body and len stand for the lengths that   *)
(* check_data and save_data compare; those of the form are FormLength and      *)
(* Fields.                                                                  *)
(***************************************************************************)
EXTENDS Integers, Sequences

CONSTANTS
  Conns,             \* connections
  Names,             \* what the user may type, sequences of "a", "@" and " "
  SsidMax, PassMax   \* 31 and 63

ASSUME NamesAssumption == Names \subseteq Seq({"a", "@", " "})

VARIABLES
  dat_sumlength,  \* dat_sumlength
  totallength,    \* save_data's totallength
  rest,           \* rest[c]: the segment still to come on c, or Nothing
  network,        \* arguments of the last user_wifi_set
  cut,            \* history: a POST in two segments came, and neither a whole
                  \* one nor a segment without a head since
  served          \* history: the last segment, its answers, and cut before it

webVars == <<dat_sumlength, totallength, rest, network, cut, served>>

NoLength == -1
NoHost == -1

Blank == [head |-> TRUE, len |-> NoLength, body |-> 0, hostAt |-> 60,
          method |-> "GET", uri |-> "/", query |-> FALSE, form |-> <<>>, typed |-> <<>>]
Nothing == [Blank EXCEPT !.head = FALSE, !.hostAt = NoHost]

\* The pages of web_data.c, by their sizes.
wififail == [page |-> "fail", size |-> 2761]
wifisetting == [page |-> "setting", size |-> 3372]
wifisuccess == [page |-> "success", size |-> 2492]
BadRequest == [page |-> "400", size |-> 0]

-----------------------------------------------------------------------------
(* Forms *)

\* External: how a browser encodes a character, and a field of the form.
Code(c) == CASE c = "@" -> <<"%", "4", "0">>
             [] c = " " -> <<"+">>
             [] OTHER -> <<c>>

Encode(typed) ==
  LET f[n \in 0 .. Len(typed)] ==
        IF n = 0 THEN <<>> ELSE f[n - 1] \o Code(typed[n])
  IN f[Len(typed)]

char2hex(c) == CASE c = "4" -> 4 [] c = "0" -> 0 [] OTHER -> -1

\* html_decode: ends at an escape that is none.  The mutant skips the first
\* digit only.
html_decode_short(old) ==
  LET f[n \in 1 .. Len(old) + 1] ==
        IF n > Len(old) THEN <<>>
        ELSE IF old[n] # "%" \/ n = Len(old) THEN <<old[n]>> \o f[n + 1]
        ELSE <<"@">> \o f[n + 2]
  IN f[1]

html_decode(old) ==
  LET at(n) == IF n <= Len(old) THEN char2hex(old[n]) ELSE -1
      f[n \in 1 .. Len(old) + 1] ==
        IF n > Len(old) THEN <<>>
        ELSE IF old[n] # "%" THEN <<old[n]>> \o f[n + 1]
        ELSE IF at(n + 1) = -1 \/ at(n + 2) = -1 THEN <<>>
        ELSE <<IF <<at(n + 1), at(n + 2)>> = <<4, 0>> THEN "@" ELSE "?">>
             \o f[n + 3]
  IN f[1]

\* A browser sends the form of web_data.c as SSID=...&PASS=...&next=
FormLength(s) == 17 + Len(s.form[1]) + Len(s.form[2])

\* parse_url copies as many bytes of the body as a uint8 counts.
Kept(s) == FormLength(s) % 256

UpTo(field, n) == SubSeq(field, 1, IF n < Len(field) THEN n ELSE Len(field))

\* The fields web_send_result_page finds in what is kept.
Fields(s) ==
  <<UpTo(s.form[1], Kept(s) - 5), UpTo(s.form[2], Kept(s) - 11 - Len(s.form[1]))>>

Accepts(s) == /\ s.form # <<>>
              /\ Kept(s) >= 5
              /\ Len(Fields(s)[1]) <= SsidMax
              /\ Len(Fields(s)[2]) <= PassMax

-----------------------------------------------------------------------------
(* check_data and save_data *)

\* check_data stores Content-Length even when it refuses the segment.  The
\* mutant passes any segment on.
check_data_any(s) == TRUE

SumLength(s) == IF s.head /\ s.len # NoLength THEN s.len ELSE dat_sumlength
check_data(s) == s.head /\ s.len # NoLength => s.len = s.body

\* save_data: the totallength it compares, and what it returns.
Total(s) == totallength + s.body
ResetAnyway(s) == ~ s.head \/ (s.len = NoLength /\ Total(s) # 0)
save_data(s) == ~ ResetAnyway(s) /\ Total(s) = SumLength(s)

-----------------------------------------------------------------------------
(* parse_url and the handlers *)

\* Where the query and " HTTP" are in the first line.
QueryAt == 6
HttpAt == 12

\* parse_url copies as many bytes up to "Host:" as a uint8 counts.
Copied(s) == s.hostAt % 256

Uri(s) == IF s.hostAt = NoHost \/ (Copied(s) <= HttpAt
                                   /\ ~ (s.query /\ Copied(s) > QueryAt))
          THEN "" ELSE s.uri
Type(s) == IF s.hostAt = NoHost THEN "GET"
           ELSE IF Copied(s) > HttpAt THEN s.method ELSE "ERROR"

\* g_app_handlers: the page a handler answers with, if there is a handler.
Handled(s) ==
  CASE Uri(s) \in {"/", "/setting.htm"} ->
         IF Type(s) = "GET" THEN <<wifisetting>> ELSE <<>>
    [] Uri(s) = "/result.htm" ->
         IF Type(s) = "POST"
         THEN IF Accepts(s) THEN <<wifisuccess>> ELSE <<wififail>>
         ELSE <<>>
    [] OTHER -> <<BadRequest>>

\* What is sent: 400 if save_data refuses, and the page all the same.
Answers(s) ==
  (IF save_data(s) THEN <<>> ELSE <<BadRequest>>) \o Handled(s)

\* webserver_recv.
Receive(s) ==
  /\ dat_sumlength' = IF check_data(s) /\ (ResetAnyway(s) \/ save_data(s))
                      THEN 0 ELSE SumLength(s)
  /\ totallength' = IF ~ check_data(s) THEN totallength
                    ELSE IF ResetAnyway(s) \/ save_data(s) THEN 0 ELSE Total(s)
  /\ network' = IF check_data(s) /\ Handled(s) = <<wifisuccess>>
                THEN <<html_decode(Fields(s)[1]), html_decode(Fields(s)[2])>>
                ELSE network
  /\ cut' = ((cut \/ ~ check_data(s))
             /\ ~ (~ s.head \/ (s.len # NoLength /\ s.len = s.body)))
  /\ served' = [seg |-> s, cut |-> cut,
                answers |-> IF check_data(s) THEN Answers(s) ELSE <<>>]

-----------------------------------------------------------------------------

\* The requests of browsers, and of others: whole ones, with or without a
\* query, with few or many headers before "Host:", or with none.
GetOf(h, u, q) == [Blank EXCEPT !.hostAt = h, !.uri = u, !.query = q]
Get == {GetOf(h, u, q) : h \in {60, 258, 265, NoHost}, q \in BOOLEAN,
                         u \in {"/", "/setting.htm", "/result.htm", "other"}}

PostOf(name, pass) == [Blank EXCEPT !.method = "POST", !.uri = "/result.htm",
                                    !.body = 2, !.len = 2, !.typed = <<name, pass>>,
                                    !.form = <<Encode(name), Encode(pass)>>]
Post == {PostOf(name, pass) : name \in Names, pass \in Names}

\* The first and the second segment of a POST that does not fit one.
Cut(s, b) == [first |-> [s EXCEPT !.body = b, !.typed = <<>>, !.form = <<>>],
              second |-> [Nothing EXCEPT !.body = s.body - b]]
Split == {Cut(s, b) : s \in Post, b \in 0 .. 1}

WholeRequest ==
  /\ \E s \in Get \cup Post : Receive(s)
  /\ UNCHANGED rest

FirstSegment(c) ==
  /\ rest[c] = Nothing
  /\ \E p \in Split : Receive(p.first) /\ rest' = [rest EXCEPT ![c] = p.second]

SecondSegment(c) ==
  /\ rest[c] # Nothing
  /\ Receive(rest[c])
  /\ rest' = [rest EXCEPT ![c] = Nothing]

\* webserver_recon and webserver_discon do nothing: what the connection still
\* owed never comes.
Closed(c) ==
  /\ rest[c] # Nothing
  /\ rest' = [rest EXCEPT ![c] = Nothing]
  /\ UNCHANGED <<dat_sumlength, totallength, network, cut, served>>

WebInit ==
  /\ dat_sumlength = 0 /\ totallength = 0
  /\ rest = [c \in Conns |-> Nothing]
  /\ network = <<>> /\ cut = FALSE
  /\ served = [seg |-> Nothing, cut |-> FALSE, answers |-> <<BadRequest>>]

WebNext ==
  \/ WholeRequest
  \/ \E c \in Conns : FirstSegment(c) \/ SecondSegment(c) \/ Closed(c)

WebSpec == WebInit /\ [][WebNext]_webVars

-----------------------------------------------------------------------------

WebTypeOK ==
  /\ dat_sumlength \in 0 .. 2 /\ totallength = 0
  /\ \A c \in Conns : ~ rest[c].head
  /\ network = <<>> \/ Len(network) = 2
  /\ cut \in BOOLEAN /\ Len(served.answers) \in 0 .. 2

\* What a page is asked for with.
PageOf(s) ==
  CASE s.method = "GET" /\ s.uri \in {"/", "/setting.htm"} -> wifisetting
    [] s.method = "POST" /\ s.uri = "/result.htm" ->
         IF Accepts(s) THEN wifisuccess ELSE wififail
    [] OTHER -> BadRequest

\* A request that arrives whole is answered once, with its page, whatever the
\* connections have sent in pieces before - until a POST arrives in two
\* segments: from then on a page asked for without a Content-Length is preceded
\* by an answer 400, because dat_sumlength stays behind
\* (user_webserver.c:318), up to the next POST in one segment or the next
\* segment without a head.  Excused: a GET of /result.htm, which no handler
\* answers, and a head with "Host:" further than a uint8 counts.
OneAnswer ==
  LET s == served.seg
      page == <<IF s.hostAt = NoHost THEN BadRequest ELSE PageOf(s)>>
  IN (/\ s.head /\ s.len \in {NoLength, s.body} /\ s.hostAt < 256
      /\ ~ (s.method = "GET" /\ s.uri = "/result.htm"))
     => served.answers =
          IF served.cut /\ s.len = NoLength THEN <<BadRequest>> \o page
          ELSE page

\* The network that is set was typed into one form, and is set as it was typed.
\* Excepted are a space, which the browser sends as "+" and html_decode keeps
\* (user_webserver.c:69), and a form of 256 bytes or more, whose length parse_url
\* takes modulo 256 (user_webserver.c:221): fields cut short may be accepted, and
\* what is set is how they begin.
NetworkIsTyped ==
  served.answers # <<>> /\ served.answers[Len(served.answers)] = wifisuccess =>
    \A n \in 1 .. 2 :
      \/ network[n] = served.seg.typed[n]
      \/ /\ FormLength(served.seg) >= 256
         /\ \E k \in 0 .. Len(served.seg.typed[n]) :
              network[n] = SubSeq(served.seg.typed[n], 1, k)
      \/ \E i \in DOMAIN served.seg.typed[n] : served.seg.typed[n][i] = " "
=============================================================================
