---------------------------- MODULE SagaParties ----------------------------
\* The requests that booking-service and payment-service serve.
CONSTANTS Bookings,   \* createBooking requests, and the reservations they make
          Cancels,    \* cancelBooking requests
          Keys        \* requestPayment requests, and the payment keys they get
=============================================================================
