--------------------------- MODULE MCNotification ---------------------------
(* Sequences of notification-messages.c and of the clients, with two LEDs; *)
(* sequence_note is sequence_success cut off in the middle, as an          *)
(* application may send it: what is on is left to the reset.               *)
EXTENDS Notification

MCLeds == {"red", "green"}
display(on) == [kind |-> "display", on |-> on]
led(l, on) == [kind |-> "led", led |-> l, on |-> on]
vibro(on) == [kind |-> "vibro", on |-> on]
sound(on) == [kind |-> "sound", on |-> on]
delay == [kind |-> "delay"]
do_not_reset == [kind |-> "do_not_reset"]

sequence_charging == <<led("red", TRUE), led("green", FALSE)>>
sequence_set_green == <<led("green", TRUE), do_not_reset>>
sequence_set_vibro_on == <<vibro(TRUE), do_not_reset>>
sequence_reset_vibro == <<vibro(FALSE)>>
sequence_blink_green == <<led("green", TRUE), delay>>
sequence_note ==
  <<display(TRUE), led("green", TRUE), vibro(TRUE), delay, vibro(FALSE), sound(TRUE)>>
sequence_display_on == <<display(TRUE)>>

Request(type, sequence, block) == [type |-> type, sequence |-> sequence, block |-> block]

MCRequests ==
  { Request("internal", sequence_charging, FALSE),       \* power
    Request("internal", <<led("green", TRUE)>>, TRUE),   \* cli_command_led
    Request("internal", sequence_display_on, FALSE),     \* backlight-control
    Request("notification", sequence_set_green, FALSE),  \* gpio-tester
    Request("notification", sequence_set_vibro_on, TRUE),\* cli_command_vibro
    Request("notification", sequence_reset_vibro, TRUE),
    Request("notification", sequence_blink_green, FALSE),
    Request("notification", sequence_note, FALSE) }
=============================================================================
