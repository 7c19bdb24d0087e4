------------------------------ MODULE UserRoutes ------------------------------
(***************************************************************************)
(* The routes that read an account's own cart, favourites and orders: what *)
(* the gateway's clients send, and whose rows the services send back. The  *)
(* services take the account from the metadata of the call; an account is  *)
(* known by its email.                                                     *)
(***************************************************************************)
CONSTANT Emails

Nobody == "nobody"

Routes == {"cart", "favourites", "favourite", "orders", "order"}

-----------------------------------------------------------------------------
(* The calls: the user_id of the metadata, and whose rows are asked for.   *)

GetCart(e) == [user |-> e, about |-> e]

GetFavourites(e) == [user |-> e, about |-> e]

IsFavourite(e) == [user |-> e, about |-> e]

GetUserOrders(e) == [user |-> e, about |-> e]

\* The call of an order by its id carries no metadata of the user.
GetOrder(about) == [user |-> Nobody, about |-> about]

-----------------------------------------------------------------------------
(* The services' answers: whose rows they hold, none when the call is      *)
(* refused.                                                                *)

\* The interceptors of the cart and the favourites service refuse a call without
\* a user_id, that of the order service leaves it to the handlers.
CartInterceptor(call) == {call.user} \ {Nobody}

FavouritesInterceptor(call) == {call.user} \ {Nobody}

UserIDFromContext(call) == {call.user} \ {Nobody}

CartOf(call) == CartInterceptor(call)

FavouritesOf(call) == FavouritesInterceptor(call)

\* Whether a sneaker is among the user's own: it tells of their rows, too.
IsFavouriteOf(call) == FavouritesInterceptor(call)

\* The rows of orders with this user_id.
RowsOfUser(e) == {e}

\* The row with this id, whoever it belongs to.
GetByID(about) == {about}

OrdersOf(call) == UNION {RowsOfUser(e) : e \in UserIDFromContext(call)}

\* An order is sent to its owner only.
OrderOf(call) == GetByID(call.about) \intersect UserIDFromContext(call)
=============================================================================
